-------------------------- MODULE IvfWriterProofs --------------------------
(* Proofs about IvfWriter, for any number of frames of any number of       *)
(* packets, any losses and failing writes, and all codecs.                 *)
EXTENDS IvfWriter, TLAPS

(* A product with the distance of time stamps.                             *)
LEMMA TickProduct ==
  ASSUME NEW x \in Nat, NEW y \in Nat, x <= y
  PROVE  /\ x * Tick \in Nat /\ (y - x) * Tick \in Nat
         /\ y * Tick = x * Tick + (y - x) * Tick
         /\ x * Tick <= y * Tick
BY TimeAssumption

(* Division with rest by the cycle of the time stamps.                     *)
LEMMA DivMod ==
  ASSUME NEW a \in Int
  PROVE  \E q \in Int, r \in Int :
           0 <= r /\ r < TsMod /\ a = q * TsMod + r /\ r = a % TsMod
BY TimeAssumption

LEMMA ModUnique ==
  ASSUME NEW q \in Int, NEW r \in Int, 0 <= r, r < TsMod
  PROVE  (q * TsMod + r) % TsMod = r
BY TimeAssumption

(* Time stamps of frames of one recording differ by the distance of the    *)
(* frames, across a wrap too.                                              *)
LEMMA TsDiff ==
  ASSUME NEW f \in 1..MaxFrames, NEW z \in 1..f
  PROVE  (Ts(f) - Ts(z)) % TsMod = (f - z) * Tick
<1> DEFINE a == FirstTs + (f - 1) * Tick
           b == FirstTs + (z - 1) * Tick
           d == (f - z) * Tick
<1>t. /\ TsMod \in Nat /\ TsMod > 0 /\ Tick \in Nat /\ FirstTs \in Nat
      /\ MaxFrames \in Nat /\ MaxFrames * Tick < TsMod
      /\ f \in Nat /\ z \in Nat /\ z <= f /\ 1 <= z /\ f <= MaxFrames
  BY TimeAssumption
<1>1. /\ (z - 1) * Tick \in Nat /\ d \in Nat
      /\ (f - 1) * Tick = (z - 1) * Tick + d
  <2>1. z - 1 \in Nat /\ f - 1 \in Nat /\ z - 1 <= f - 1
        /\ (f - 1) - (z - 1) = f - z
    BY <1>t
  <2> QED BY <2>1, TickProduct
<1>2. d < TsMod
  <2>1. f - z \in Nat /\ f - z <= MaxFrames
    BY <1>t
  <2>2. (f - z) * Tick <= MaxFrames * Tick /\ MaxFrames * Tick \in Nat
    BY <2>1, <1>t, TickProduct
  <2> QED BY <2>2, <1>1, <1>t
<1>3. a \in Int /\ b \in Int /\ a = b + d
  <2> HIDE DEF d
  <2> QED BY <1>1, <1>t
<1>4. Ts(f) = a % TsMod /\ Ts(z) = b % TsMod
  BY DEF Ts
<1> HIDE DEF a, b, d
<1>5. PICK q \in Int, r \in Int :
        0 <= r /\ r < TsMod /\ a = q * TsMod + r /\ r = a % TsMod
  BY <1>3, DivMod
<1>6. PICK k \in Int, s \in Int :
        0 <= s /\ s < TsMod /\ b = k * TsMod + s /\ s = b % TsMod
  BY <1>3, DivMod
<1>7. r - s = (k - q) * TsMod + d
  <2>1. (k - q) * TsMod = k * TsMod - q * TsMod
    BY <1>t
  <2>2. k * TsMod \in Int /\ q * TsMod \in Int
    BY <1>t
  <2> QED BY <2>1, <2>2, <1>1, <1>3, <1>5, <1>6
<1>8. ((k - q) * TsMod + d) % TsMod = d
  <2>1. k - q \in Int /\ 0 <= d /\ d \in Int
    BY <1>1
  <2> QED BY <2>1, <1>2, ModUnique
<1>9. Ts(f) - Ts(z) = (k - q) * TsMod + d
  BY <1>4, <1>5, <1>6, <1>7
<1>10. (Ts(f) - Ts(z)) % TsMod = d
  BY <1>8, <1>9
<1> QED BY <1>10 DEF d

(* Rescaling keeps the order.                                              *)
LEMMA ScaledMono ==
  ASSUME NEW x \in Nat, NEW y \in Nat, x <= y
  PROVE  Scaled(x) \in Int /\ Scaled(y) \in Int /\ Scaled(x) <= Scaled(y)
BY DEF Scaled, clockRate, timebaseNumerator, timebaseDenominator

-----------------------------------------------------------------------------
LEMMA Frames ==
  ASSUME TypeOK
  PROVE  /\ Len(sent) \in Nat /\ DOMAIN sent = 1..Len(sent)
         /\ \A f \in 1..Len(sent) :
              sent[f].parts \in Nat /\ sent[f].parts > 0 /\ sent[f].key \in BOOLEAN
         /\ sent # << >> <=> Len(sent) > 0
<1>1. sent \in Seq(EncodedFrame)
  BY DEF TypeOK
<1>2. /\ Len(sent) \in Nat /\ DOMAIN sent = 1..Len(sent)
      /\ sent # << >> <=> Len(sent) > 0
  BY <1>1
<1>3. \A f \in 1..Len(sent) : sent[f] \in EncodedFrame
  BY <1>1
<1>4. \A e \in EncodedFrame : e.parts \in Nat /\ e.parts > 0 /\ e.key \in BOOLEAN
  <2>1. \A e \in EncodedFrame : e.parts \in Parts /\ e.key \in BOOLEAN
    BY DEF EncodedFrame
  <2>2. \A n \in Parts : n \in Nat /\ n > 0
    BY PartsAssumption
  <2> QED BY <2>1, <2>2
<1> QED BY <1>2, <1>3, <1>4

(* The packet WriteRTP is called with.                                     *)
LEMMA PacketSent ==
  ASSUME TypeOK, Sending
  PROVE  /\ Len(sent) \in 1..MaxFrames /\ part \in Nat
         /\ part < sent[Len(sent)].parts
         /\ Packet.frame = Len(sent) /\ Packet.part = part + 1
         /\ Packet.start <=> part = 0
         /\ Packet.marker <=> part + 1 = sent[Len(sent)].parts
         /\ Packet.key = sent[Len(sent)].key
         /\ Packet.ts = Ts(Len(sent))
         /\ [frame |-> Packet.frame, part |-> Packet.part] \in Piece
<1>1. sent # << >> /\ part < sent[Len(sent)].parts
  BY DEF Sending
<1>2. Len(sent) \in Nat /\ Len(sent) > 0 /\ Len(sent) <= MaxFrames /\ part \in Nat
  BY <1>1, Frames DEF TypeOK
<1>3. Len(sent) \in 1..MaxFrames
  BY <1>2, TimeAssumption
<1>4. /\ Packet.frame = Len(sent) /\ Packet.part = part + 1
      /\ Packet.start = (part = 0)
      /\ Packet.marker = (part + 1 = sent[Len(sent)].parts)
      /\ Packet.key = sent[Len(sent)].key
      /\ Packet.ts = Ts(Len(sent))
  BY DEF Packet
<1>5. [frame |-> Packet.frame, part |-> Packet.part] \in Piece
  BY <1>2, <1>4 DEF Piece
<1> QED BY <1>1, <1>2, <1>3, <1>4, <1>5

LEMMA BufferGrows ==
  ASSUME NEW c, c \in Seq(Piece), NEW x \in Piece, NEW d, d = Append(c, x)
  PROVE  /\ d \in Seq(Piece) /\ d # << >>
         /\ Len(c) \in Nat /\ Len(d) = Len(c) + 1
         /\ DOMAIN c = 1..Len(c) /\ DOMAIN d = 1..(Len(c) + 1)
         /\ \A n \in 1..Len(c) : d[n] = c[n]
         /\ d[Len(c) + 1] = x
         /\ c = << >> => d[1] = x
         /\ c # << >> => d[1] = c[1] /\ 1 \in DOMAIN c
<1> HIDE DEF Piece
<1>1. /\ d \in Seq(Piece) /\ d # << >>
      /\ Len(c) \in Nat /\ Len(d) = Len(c) + 1
      /\ DOMAIN c = 1..Len(c) /\ DOMAIN d = 1..(Len(c) + 1)
      /\ \A n \in 1..Len(c) : d[n] = c[n]
      /\ d[Len(c) + 1] = x
  OBVIOUS
<1>2. c = << >> => d[1] = x
  OBVIOUS
<1>3. c # << >> => 1 \in 1..Len(c)
  OBVIOUS
<1> QED BY <1>1, <1>2, <1>3

(* The next packet of a frame behind the packets before it.                *)
LEMMA PrefixGrows ==
  ASSUME NEW c, c \in Seq(Piece), NEW f \in Nat, NEW n \in Nat, IsPrefix(c, f, n),
         NEW d, d = Append(c, [frame |-> f, part |-> n + 1])
  PROVE  IsPrefix(d, f, n + 1)
<1> DEFINE x == [frame |-> f, part |-> n + 1]
<1>1. x \in Piece
  BY DEF Piece
<1>2. Len(c) = n /\ \A k \in 1..n : c[k] = [frame |-> f, part |-> k]
  BY DEF IsPrefix
<1>3. /\ Len(d) = n + 1
      /\ \A k \in 1..n : d[k] = c[k]
      /\ d[n + 1] = x
  BY <1>1, <1>2, BufferGrows
<1>4. \A k \in 1..(n + 1) : d[k] = [frame |-> f, part |-> k]
  BY <1>2, <1>3
<1> QED BY <1>3, <1>4 DEF IsPrefix

-----------------------------------------------------------------------------
(* Packets in the file and in the buffer have numbers.                     *)
LEMMA PieceTypes ==
  ASSUME TypeOK
  PROVE  /\ \A n \in DOMAIN currentFrame : currentFrame[n].part \in Nat
         /\ \A k \in DOMAIN file : \A m \in DOMAIN file[k].data :
              file[k].data[m].part \in Nat
         /\ \A k \in DOMAIN file : file[k].data \in Seq(Piece)
         /\ \A k \in DOMAIN file : file[k].ok \in BOOLEAN
         /\ Len(file) \in Nat /\ DOMAIN file = 1..Len(file)
<1>1. file \in Seq(WrittenFrame) /\ currentFrame \in Seq(Piece)
  BY DEF TypeOK
<1>2. \A n \in DOMAIN currentFrame : currentFrame[n] \in Piece
  BY <1>1
<1>3. \A x \in Piece : x.part \in Nat
  BY DEF Piece
<1>4. \A k \in DOMAIN file : file[k] \in WrittenFrame
  BY <1>1
<1>5. \A k \in DOMAIN file : file[k].data \in Seq(Piece) /\ file[k].ok \in BOOLEAN
  BY <1>4 DEF WrittenFrame
<1>6. \A k \in DOMAIN file : \A m \in DOMAIN file[k].data :
        file[k].data[m] \in Piece
  BY <1>5
<1> QED BY <1>1, <1>2, <1>3, <1>5, <1>6

(* A packet the codec's code appends: what the buffer then holds.          *)
LEMMA Accepted ==
  ASSUME Inv, Sending, Accepts(Packet), NEW d, d = Appended(Packet)
  PROVE  /\ d \in Seq(Piece) /\ d # << >> /\ Ascending(d)
         /\ \A n \in DOMAIN d :
              /\ d[n].frame \in DOMAIN sent
              /\ d[n].frame = Len(sent) => d[n].part <= part + 1
         /\ \A k \in DOMAIN file :
              \A m \in DOMAIN file[k].data :
                IF Settled(k)
                THEN \A n \in DOMAIN d : Before(file[k].data[m], d[n])
                ELSE m \in DOMAIN d /\ d[m] = file[k].data[m]
         /\ (\A k \in DOMAIN file : ~file[k].ok) => KeyAhead(d)
         /\ (failures = 0 /\ \A f \in FramesIn(d) : ~Hit(f)) =>
              IsPrefix(d, Len(sent), part + 1)
         /\ (failures = 0 /\ Len(sent) >= 2 /\ Undisturbed(Len(sent))) =>
              IsPrefix(d, Len(sent), part + 1)
<1> DEFINE F == Len(sent)
           c == currentFrame
           x == [frame |-> F, part |-> part + 1]
<1>i. TypeOK /\ InOrder /\ Buffer /\ Untouched /\ Contained
  BY DEF Inv
<1>p. /\ F \in 1..MaxFrames /\ part \in Nat
      /\ Packet.frame = F /\ Packet.part = part + 1
      /\ Packet.start <=> part = 0
      /\ Packet.key = sent[F].key
      /\ x \in Piece
  BY <1>i, PacketSent
<1>f. F \in Nat /\ F > 0 /\ DOMAIN sent = 1..F
  BY <1>p, <1>i, Frames
<1>d. c \in Seq(Piece) /\ d = Append(c, x)
  BY <1>i, <1>p DEF TypeOK, Appended
<1> HIDE DEF x, F
<1>g. /\ d \in Seq(Piece) /\ d # << >>
      /\ Len(c) \in Nat /\ Len(d) = Len(c) + 1
      /\ DOMAIN c = 1..Len(c) /\ DOMAIN d = 1..(Len(c) + 1)
      /\ \A n \in 1..Len(c) : d[n] = c[n]
      /\ d[Len(c) + 1] = x
      /\ c = << >> => d[1] = x
      /\ c # << >> => d[1] = c[1] /\ 1 \in DOMAIN c
  BY <1>d, <1>p, BufferGrows
<1>x. x.frame = F /\ x.part = part + 1
  BY DEF x
<1>n. ASSUME NEW n \in DOMAIN d
      PROVE  d[n] = x \/ (n \in DOMAIN c /\ d[n] = c[n])
  BY <1>g
<1>1. ASSUME NEW n \in DOMAIN d
      PROVE  /\ d[n].frame \in DOMAIN sent
             /\ d[n].frame = Len(sent) => d[n].part <= part + 1
  <2>1. CASE d[n] = x
    BY <2>1, <1>x, <1>f, <1>p
  <2>2. CASE n \in DOMAIN c /\ d[n] = c[n]
    <3>1. /\ c[n].frame \in DOMAIN sent
          /\ c[n].frame = Len(sent) => c[n].part <= part
      BY <2>2, <1>i DEF InOrder, Gone
    <3>2. c[n].part \in Nat
      <4>1. c[n] \in Piece
        BY <2>2, <1>d
      <4> QED BY <4>1 DEF Piece
    <3> QED BY <2>2, <3>1, <3>2, <1>p
  <2> QED BY <2>1, <2>2, <1>n
<1>y. ASSUME NEW y, Gone(y), y.part \in Nat PROVE Before(y, x)
  <2>1. y.frame \in 1..F /\ (y.frame = F => y.part <= part)
    BY <1>y, <1>f DEF F, Gone
  <2>2. y.frame < F \/ (y.frame = F /\ y.part < part + 1)
    BY <2>1, <1>y, <1>f, <1>p
  <2> QED BY <2>2, <1>x DEF Before
<1>a. Ascending(d)
  <2>1. SUFFICES ASSUME NEW m \in DOMAIN d, NEW n \in DOMAIN d, m < n
                 PROVE  Before(d[m], d[n])
    BY DEF Ascending
  <2>2. m \in DOMAIN c /\ d[m] = c[m]
    BY <2>1, <1>g
  <2>3. CASE n \in DOMAIN c
    BY <2>1, <2>2, <2>3, <1>g, <1>i DEF InOrder, Ascending
  <2>4. CASE n = Len(c) + 1
    <3>1. Gone(c[m]) /\ c[m].part \in Nat
      BY <2>2, <1>i, PieceTypes DEF InOrder
    <3> QED BY <3>1, <2>2, <2>4, <1>y, <1>g
  <2> QED BY <2>3, <2>4, <1>g
<1>2. ASSUME NEW k \in DOMAIN file, NEW m \in DOMAIN file[k].data
      PROVE  IF Settled(k) THEN \A n \in DOMAIN d : Before(file[k].data[m], d[n])
             ELSE m \in DOMAIN d /\ d[m] = file[k].data[m]
  <2> DEFINE y == file[k].data[m]
  <2>1. /\ Gone(y) /\ y.part \in Nat
        /\ Settled(k) => \A n \in DOMAIN c : Before(y, c[n])
        /\ ~Settled(k) => m \in DOMAIN c /\ c[m] = y
    BY <1>i, PieceTypes DEF InOrder
  <2> HIDE DEF y
  <2>2. ASSUME Settled(k), NEW n \in DOMAIN d PROVE Before(y, d[n])
    BY <2>1, <2>2, <1>n, <1>y
  <2>3. ASSUME ~Settled(k) PROVE m \in DOMAIN d /\ d[m] = y
    BY <2>1, <2>3, <1>g
  <2> QED BY <2>2, <2>3 DEF y
<1>3. ASSUME \A k \in DOMAIN file : ~file[k].ok PROVE KeyAhead(d)
  <2>1. CASE c # << >>
    BY <1>3, <2>1, <1>g, <1>i DEF Buffer, KeyAhead
  <2>2. CASE c = << >>
    <3>1. ~seenKeyFrame /\ isNil
      BY <1>3, <2>2, <1>i DEF Buffer
    <3>2. Packet.key /\ Packet.start
      BY <3>1 DEF Accepts, AcceptsAV1, AcceptsVPx
    <3>3. sent[F].key /\ part + 1 = 1
      BY <3>2, <1>p
    <3>4. d[1].frame = F /\ d[1].part = 1
      BY <2>2, <3>3, <1>g, <1>x
    <3> QED BY <3>3, <3>4 DEF KeyAhead
  <2> QED BY <2>1, <2>2
<1>4. ASSUME IsPrefix(c, F, part) PROVE IsPrefix(d, F, part + 1)
  BY <1>4, <1>d, <1>f, <1>p, PrefixGrows DEF x
<1>5. ASSUME failures = 0, \A f \in FramesIn(d) : ~Hit(f)
      PROVE  IsPrefix(d, F, part + 1)
  <2>1. CASE c # << >>
    <3>1. \A n \in DOMAIN c : n \in DOMAIN d /\ d[n] = c[n]
      BY <1>g
    <3>2. \A f \in FramesIn(c) : ~Hit(f)
      BY <3>1, <1>5 DEF FramesIn
    <3>3. IsPrefix(c, F, part)
      BY <2>1, <3>2, <1>5, <1>i DEF Untouched, F
    <3> QED BY <3>3, <1>4
  <2>2. CASE c = << >>
    <3>1. ~Hit(F)
      <4>1. 1 \in DOMAIN d /\ d[1].frame = F
        BY <2>2, <1>g, <1>x
      <4> QED BY <4>1, <1>5 DEF FramesIn
    <3>2. part = 0
      <4>1. isNil
        BY <2>2, <1>i DEF Buffer
      <4>2. CASE config.codec = "AV1"
        <5>1. CASE seenKeyFrame
          BY <2>2, <3>1, <4>2, <5>1, <1>5, <1>i, <1>p DEF Untouched, F
        <5>2. CASE ~seenKeyFrame
          BY <4>2, <5>2, <1>p DEF Accepts, AcceptsAV1
        <5> QED BY <5>1, <5>2
      <4>3. CASE config.codec # "AV1"
        BY <4>1, <4>3, <1>p DEF Accepts, AcceptsVPx
      <4> QED BY <4>2, <4>3
    <3>3. IsPrefix(c, F, 0)
      BY <2>2 DEF IsPrefix
    <3> QED BY <3>2, <3>3, <1>4
  <2> QED BY <2>1, <2>2
<1>6. ASSUME failures = 0, F >= 2, Undisturbed(F)
      PROVE  IsPrefix(d, F, part + 1)
  <2>1. F \in 2..Len(sent)
    BY <1>6, <1>f DEF F
  <2>2. IsPrefix(c, F, part)
    BY <2>1, <1>6, <1>i DEF Contained, F
  <2> QED BY <2>2, <1>4
<1> QED BY <1>g, <1>a, <1>1, <1>2, <1>3, <1>5, <1>6 DEF F

(* A packet that is not appended.                                          *)
LEMMA Skipped ==
  ASSUME Inv, Sending, ~Accepts(Packet)
  PROVE  /\ currentFrame = << >>
         /\ config.codec = "AV1" => ~seenKeyFrame
         /\ failures = 0 =>
              /\ (sent[Len(sent)].key /\ ~Hit(Len(sent))) => seenKeyFrame
              /\ ~(Len(sent) >= 2 /\ Undisturbed(Len(sent)))
<1> DEFINE F == Len(sent)
<1>i. TypeOK /\ Buffer /\ Contained
  BY DEF Inv
<1>p. /\ F \in 1..MaxFrames /\ part \in Nat
      /\ Packet.start <=> part = 0
      /\ Packet.key = sent[F].key
  BY <1>i, PacketSent
<1>f. F \in Nat /\ F > 0 /\ DOMAIN sent = 1..F
  BY <1>p, <1>i, Frames
<1>1. currentFrame = << >>
  BY <1>i DEF Buffer, Accepts, AcceptsVPx, AcceptsAV1
<1>2. config.codec = "AV1" => ~seenKeyFrame
  BY DEF Accepts, AcceptsAV1
<1>3. ASSUME failures = 0, sent[F].key, ~Hit(F) PROVE seenKeyFrame
  <2>1. CASE part = 0
    BY <2>1, <1>3, <1>p DEF Accepts, AcceptsVPx, AcceptsAV1
  <2>2. CASE part > 0
    <3>1. F \in DOMAIN sent
      BY <1>f
    <3> QED BY <3>1, <2>2, <1>3, <1>i DEF Contained
  <2> QED BY <2>1, <2>2, <1>p
<1>4. ASSUME failures = 0, F >= 2, Undisturbed(F) PROVE FALSE
  <2>1. PICK g \in 1..F - 1 : sent[g].key /\ ~Hit(g)
    BY <1>4 DEF Undisturbed
  <2>2. g \in DOMAIN sent /\ g < F
    BY <1>f
  <2>3. seenKeyFrame
    BY <2>1, <2>2, <1>4, <1>i DEF Contained
  <2>4. F \in 2..F
    BY <1>4, <1>f
  <2>5. IsPrefix(currentFrame, F, part)
    BY <2>4, <1>4, <1>i DEF Contained
  <2>6. Len(currentFrame) = part
    BY <2>5 DEF IsPrefix
  <2>7. part = 0
    BY <2>6, <1>1
  <2> QED BY <2>3, <2>7, <1>p DEF Accepts, AcceptsVPx, AcceptsAV1
<1> QED BY <1>1, <1>2, <1>3, <1>4

(* The time stamps count from the one of some frame.                       *)
LEMMA PacketTime ==
  ASSUME Inv, Sending
  PROVE  \E z \in DOMAIN sent :
           /\ ZeroTs(Packet) = Ts(z)
           /\ Pts(Packet) = Scaled((Len(sent) - z) * Tick)
           /\ Pts(Packet) \in Int
           /\ \A k \in DOMAIN file :
                \E f \in z..Len(sent) : file[k].pts = Scaled((f - z) * Tick)
           /\ \A k \in DOMAIN file : file[k].pts <= Pts(Packet)
<1> DEFINE F == Len(sent)
<1>i. TypeOK /\ Timeline
  BY DEF Inv
<1>p. F \in 1..MaxFrames /\ Packet.ts = Ts(F)
  BY <1>i, PacketSent
<1>f. F \in Nat /\ DOMAIN sent = 1..F
  BY <1>i, Frames
<1>1. ASSUME NEW z \in 1..F, ZeroTs(Packet) = Ts(z)
      PROVE  Pts(Packet) = Scaled((F - z) * Tick)
  <2>1. (Ts(F) - Ts(z)) % TsMod = (F - z) * Tick
    BY <1>p, TsDiff
  <2> QED BY <2>1, <1>1, <1>p DEF Pts
<1>2. \E z \in DOMAIN sent :
        /\ ZeroTs(Packet) = Ts(z)
        /\ \A k \in DOMAIN file :
             \E f \in z..F : file[k].pts = Scaled((f - z) * Tick)
  <2>1. CASE count = 0
    <3>1. ZeroTs(Packet) = Ts(F) /\ file = << >>
      BY <2>1, <1>p, <1>i DEF ZeroTs, Timeline
    <3>2. F \in DOMAIN sent
      BY <1>f, <1>p
    <3> QED BY <3>1, <3>2
  <2>2. CASE count # 0
    BY <2>2, <1>i DEF ZeroTs, Timeline
  <2> QED BY <2>1, <2>2
<1>3. PICK z \in DOMAIN sent :
        /\ ZeroTs(Packet) = Ts(z)
        /\ \A k \in DOMAIN file :
             \E f \in z..F : file[k].pts = Scaled((f - z) * Tick)
  BY <1>2
<1>4. z \in 1..F /\ Pts(Packet) = Scaled((F - z) * Tick)
  BY <1>1, <1>3, <1>f
<1>5. ASSUME NEW f \in z..F
      PROVE  /\ Scaled((f - z) * Tick) <= Scaled((F - z) * Tick)
             /\ Scaled((F - z) * Tick) \in Int
  <2>1. f - z \in Nat /\ F - z \in Nat /\ f - z <= F - z
    BY <1>4, <1>f
  <2>2. (f - z) * Tick \in Nat /\ (f - z) * Tick <= (F - z) * Tick
    BY <2>1, TickProduct
  <2>3. (F - z) * Tick \in Nat
    BY <2>1, TimeAssumption
  <2> QED BY <2>2, <2>3, ScaledMono
<1>6. Pts(Packet) \in Int
  <2>1. F \in z..F
    BY <1>4, <1>f
  <2> QED BY <2>1, <1>4, <1>5
<1>7. ASSUME NEW k \in DOMAIN file PROVE file[k].pts <= Pts(Packet)
  BY <1>3, <1>4, <1>5
<1> QED BY <1>3, <1>4, <1>6, <1>7

-----------------------------------------------------------------------------
(* The encoder begins a frame: nothing of it is anywhere yet.              *)
LEMMA BeginFrameKeeps ==
  ASSUME Inv, NEW n \in Parts, NEW key \in BOOLEAN, BeginFrame(n, key),
         UNCHANGED config
  PROVE  Inv'
<1> DEFINE F == Len(sent)
           r == [parts |-> n, key |-> key]
<1>i. /\ TypeOK /\ InOrder /\ FramesInOrder /\ Buffer /\ BeginsWithKeyFrame
      /\ Untouched /\ UntouchedFramesExact /\ Contained /\ Counted
      /\ CountIsExact /\ Timeline /\ TimestampsSequential
  BY DEF Inv
<1>u. /\ UNCHANGED <<config, lost, open, count, seenKeyFrame,
                     firstFrameTimestamp, currentFrame, isNil, file,
                     frameCount, failures>>
      /\ sent' = Append(sent, r) /\ part' = 0 /\ ~Sending /\ F < MaxFrames
  BY DEF BeginFrame
<1>f. /\ F \in Nat /\ DOMAIN sent = 1..F
      /\ \A f \in 1..F : sent[f].parts \in Nat /\ sent[f].parts > 0
      /\ sent # << >> <=> F > 0
  BY <1>i, Frames
<1>r. r \in EncodedFrame /\ r.parts = n /\ n \in Nat /\ n > 0
  BY PartsAssumption DEF EncodedFrame
<1>s. sent \in Seq(EncodedFrame)
  BY <1>i DEF TypeOK
<1>1. /\ sent' \in Seq(EncodedFrame) /\ Len(sent') = F + 1
      /\ DOMAIN sent' = 1..(F + 1) /\ sent' # << >>
      /\ \A f \in 1..F : sent'[f] = sent[f]
      /\ sent'[F + 1] = r
  <2> HIDE DEF r
  <2> QED BY <1>s, <1>r, <1>u
<1> HIDE DEF r
<1>2. TypeOK'
  <2>1. Len(sent') <= MaxFrames
    BY <1>1, <1>u, <1>f, TimeAssumption
  <2>2. part' <= sent'[Len(sent')].parts
    BY <1>1, <1>u, <1>r
  <2> QED BY <2>1, <2>2, <1>1, <1>u, <1>i DEF TypeOK
<1>h. /\ \A f : Hit(f)' <=> Hit(f)
      /\ \A k : Settled(k)' <=> Settled(k)
      /\ \A d : FramesIn(d)' = FramesIn(d)
  BY <1>u DEF Hit, Settled, FramesIn
<1>g. \A x : Gone(x) => Gone(x)'
  BY <1>1, <1>f DEF Gone
<1>w. /\ \A d : \A f \in 1..F : Whole(d, f)' <=> Whole(d, f)
      /\ \A d : d[1].frame \in 1..F => (KeyAhead(d)' <=> KeyAhead(d))
  BY <1>1 DEF Whole, KeyAhead
<1>3. InOrder'
  BY <1>g, <1>h, <1>u, <1>i DEF InOrder, Ascending
<1>4. FramesInOrder' /\ TimestampsSequential' /\ Counted' /\ CountIsExact'
  BY <1>u, <1>i DEF FramesInOrder, TimestampsSequential, Ascending, Repeats,
                    Counted, CountIsExact
<1>5. Buffer'
  <2>1. currentFrame # << >> => currentFrame[1].frame \in 1..F
    <3>1. currentFrame # << >> => 1 \in DOMAIN currentFrame
      BY <1>i DEF TypeOK
    <3> QED BY <3>1, <1>i, <1>f DEF InOrder, Gone
  <2> QED BY <2>1, <1>w, <1>h, <1>u, <1>i DEF Buffer
<1>6. BeginsWithKeyFrame'
  <2>1. ASSUME NEW k \in DOMAIN file, file[k].data # << >>
        PROVE  file[k].data[1].frame \in 1..F
    <3>1. file[k].data \in Seq(Piece)
      BY <1>i, PieceTypes
    <3>2. 1 \in DOMAIN file[k].data
      BY <2>1, <3>1
    <3> QED BY <3>2, <1>i, <1>f DEF InOrder, Gone
  <2> QED BY <2>1, <1>w, <1>h, <1>u, <1>i DEF BeginsWithKeyFrame
<1>7. Untouched'
  BY <1>h, <1>u, <1>i DEF Untouched
<1>8. UntouchedFramesExact'
  <2>1. SUFFICES ASSUME failures = 0, NEW k \in DOMAIN file,
                        \A f \in FramesIn(file[k].data) : ~Hit(f)
                 PROVE  \E f \in DOMAIN sent' : Whole(file[k].data, f)'
    BY <1>h, <1>u DEF UntouchedFramesExact
  <2>2. PICK f \in DOMAIN sent : Whole(file[k].data, f)
    BY <2>1, <1>i DEF UntouchedFramesExact
  <2>3. f \in 1..F /\ f \in DOMAIN sent'
    BY <1>f, <1>1
  <2>4. Whole(file[k].data, f)'
    BY <2>2, <2>3, <1>u, <1>1 DEF Whole
  <2> QED BY <2>3, <2>4
<1>9. Contained'
  <2>1. SUFFICES ASSUME failures = 0
                 PROVE  Contained'
    BY <1>u DEF Contained
  <2>2. Sending'
    BY <1>1, <1>r, <1>u DEF Sending
  <2>3. ASSUME NEW f \in DOMAIN sent', sent'[f].key, ~Hit(f), f < Len(sent')
        PROVE  seenKeyFrame
    <3>1. f \in 1..F /\ f \in DOMAIN sent /\ sent[f].key
      BY <2>3, <1>1, <1>f
    <3>2. f = F => part > 0
      BY <3>1, <1>f, <1>u, <1>i DEF Sending, TypeOK
    <3>3. f < Len(sent) \/ part > 0
      BY <3>1, <3>2, <1>f
    <3> QED BY <2>1, <2>3, <3>1, <3>3, <1>i DEF Contained
  <2>4. ASSUME NEW f \in 2..Len(sent'), Undisturbed(f)'
        PROVE  IF f = Len(sent') THEN IsPrefix(currentFrame, f, 0)
               ELSE \E k \in DOMAIN file : Whole(file[k].data, f)'
    <3>1. /\ ~Hit(f) /\ ~Hit(f - 1)
          /\ \E g \in 1..f - 1 : sent'[g].key /\ ~Hit(g)
      BY <2>4, <1>h DEF Undisturbed
    <3>2. CASE f = F + 1
      <4>1. f - 1 = F /\ F > 0 /\ sent # << >>
        BY <3>2, <2>4, <1>1, <1>f
      <4>2. currentFrame = << >>
        BY <4>1, <3>1, <2>1, <1>u, <1>i DEF Contained
      <4>3. IsPrefix(currentFrame, f, 0)
        BY <4>2 DEF IsPrefix
      <4> QED BY <4>3, <3>2, <1>1
    <3>3. CASE f # F + 1
      <4>1. f \in 2..F /\ f \in 1..F /\ f # Len(sent')
        BY <3>3, <2>4, <1>1, <1>f
      <4>2. \A g \in 1..f - 1 : sent'[g] = sent[g]
        BY <4>1, <1>1, <1>f
      <4>3. Undisturbed(f)
        BY <3>1, <4>2 DEF Undisturbed
      <4>4. PICK k \in DOMAIN file : Whole(file[k].data, f)
        BY <4>1, <4>3, <2>1, <1>u, <1>i DEF Contained
      <4>5. Whole(file[k].data, f)'
        BY <4>1, <4>4, <1>u, <1>1 DEF Whole
      <4> QED BY <4>1, <4>5
    <3> QED BY <3>2, <3>3
  <2> QED BY <2>2, <2>3, <2>4, <1>h, <1>u DEF Contained
<1>10. Timeline'
  <2>1. CASE count = 0
    BY <2>1, <1>u, <1>i DEF Timeline
  <2>2. CASE count # 0
    <3>1. PICK z \in DOMAIN sent :
         /\ firstFrameTimestamp = Ts(z)
         /\ \A k \in DOMAIN file :
              \E f \in z..Len(sent) : file[k].pts = Scaled((f - z) * Tick)
      BY <2>2, <1>i DEF Timeline
    <3>2. z \in DOMAIN sent' /\ \A f \in z..Len(sent) : f \in z..Len(sent')
      BY <1>1, <1>f
    <3>3. \A y : Scaled(y)' = Scaled(y)
      BY <1>u DEF Scaled
    <3>4. \A k \in DOMAIN file :
            \E f \in z..Len(sent') : file[k].pts = Scaled((f - z) * Tick)
      BY <3>1, <3>2
    <3> QED BY <2>2, <3>1, <3>2, <3>3, <3>4, <1>h, <1>u DEF Timeline
  <2> QED BY <2>1, <2>2
<1> QED BY <1>2, <1>3, <1>4, <1>5, <1>6, <1>7, <1>8, <1>9, <1>10 DEF Inv

(* A lost packet touches the frame it is of.                               *)
LEMMA LoseKeeps ==
  ASSUME Inv, Lose, UNCHANGED config
  PROVE  Inv'
<1> DEFINE F == Len(sent)
           l == [frame |-> Packet.frame, part |-> Packet.part]
<1>i. /\ TypeOK /\ InOrder /\ FramesInOrder /\ Buffer /\ BeginsWithKeyFrame
      /\ Untouched /\ UntouchedFramesExact /\ Contained /\ Counted
      /\ CountIsExact /\ Timeline /\ TimestampsSequential
  BY DEF Inv
<1>u. /\ UNCHANGED <<config, sent, open, count, seenKeyFrame,
                     firstFrameTimestamp, currentFrame, isNil, file,
                     frameCount, failures>>
      /\ lost' = lost \cup {l} /\ part' = part + 1 /\ Sending
  BY DEF Lose
<1>p. /\ F \in 1..MaxFrames /\ part \in Nat /\ part < sent[F].parts
      /\ l.frame = F /\ l \in Piece
  BY <1>u, <1>i, PacketSent
<1>f. F \in Nat /\ DOMAIN sent = 1..F /\ sent[F].parts \in Nat
  BY <1>p, <1>i, Frames
<1> HIDE DEF l
<1>h. /\ \A f : f = F => Hit(f)'
      /\ \A f : Hit(f) => Hit(f)'
      /\ \A f : f # F /\ Hit(f)' => Hit(f)
      /\ \A k : Settled(k)' <=> Settled(k)
      /\ \A d, f : Whole(d, f)' <=> Whole(d, f)
      /\ \A d : KeyAhead(d)' <=> KeyAhead(d)
  BY <1>u, <1>p DEF Hit, Settled, Whole, KeyAhead
<1>1. TypeOK'
  <2>1. part' \in Nat /\ part' <= sent[F].parts
    BY <1>u, <1>p, <1>f
  <2>2. lost' \subseteq Piece
    BY <1>u, <1>p, <1>i DEF TypeOK
  <2>3. sent # << >>
    BY <1>p
  <2> QED BY <2>1, <2>2, <2>3, <1>u, <1>i DEF TypeOK
<1>2. InOrder'
  <2>1. ASSUME NEW x, x.part \in Nat, Gone(x) PROVE Gone(x)'
    BY <2>1, <1>u, <1>p DEF Gone
  <2>2. \A n \in DOMAIN currentFrame : currentFrame[n].part \in Nat
    BY <1>i, PieceTypes
  <2>3. \A k \in DOMAIN file : \A m \in DOMAIN file[k].data :
          file[k].data[m].part \in Nat
    BY <1>i, PieceTypes
  <2>4. \A n \in DOMAIN currentFrame : Gone(currentFrame[n])'
    BY <2>1, <2>2, <1>i, <1>u DEF InOrder, Gone
  <2>5. \A k \in DOMAIN file : \A m \in DOMAIN file[k].data :
          Gone(file[k].data[m])'
    BY <2>1, <2>3, <1>i, <1>u DEF InOrder, Gone
  <2> QED BY <2>4, <2>5, <1>h, <1>u, <1>i DEF InOrder, Ascending
<1>3. /\ FramesInOrder' /\ TimestampsSequential' /\ Counted' /\ CountIsExact'
      /\ Buffer' /\ BeginsWithKeyFrame'
  BY <1>h, <1>u, <1>i DEF FramesInOrder, Ascending, Repeats,
                          TimestampsSequential, Counted, CountIsExact, Buffer, BeginsWithKeyFrame
<1>4. Untouched'
  <2>1. SUFFICES ASSUME failures = 0, currentFrame # << >>,
                        \A f \in FramesIn(currentFrame) : ~Hit(f)'
                 PROVE  FALSE
    BY <1>h, <1>u DEF Untouched, FramesIn
  <2>2. IsPrefix(currentFrame, F, part)
    BY <2>1, <1>h, <1>i DEF Untouched
  <2>3. 1 \in DOMAIN currentFrame /\ 1 \in 1..part
    <3>1. currentFrame \in Seq(Piece) /\ Len(currentFrame) = part
      BY <2>2, <1>i DEF TypeOK, IsPrefix
    <3>2. 1 \in 1..Len(currentFrame)
      BY <2>1, <3>1
    <3> QED BY <3>1, <3>2
  <2>4. currentFrame[1].frame = F
    BY <2>2, <2>3 DEF IsPrefix
  <2>5. F \in FramesIn(currentFrame)
    BY <2>3, <2>4 DEF FramesIn
  <2> QED BY <2>1, <2>5, <1>h
<1>5. UntouchedFramesExact'
  BY <1>h, <1>u, <1>i DEF UntouchedFramesExact, FramesIn
<1>6. Contained'
  <2>1. SUFFICES ASSUME failures = 0 PROVE Contained'
    BY <1>u DEF Contained
  <2>2. ASSUME NEW f \in DOMAIN sent, sent[f].key, ~Hit(f)'
        PROVE  seenKeyFrame
    <3>1. f # F
      BY <2>2, <1>h
    <3>2. ~Hit(f)
      BY <2>2, <1>h
    <3>3. f < Len(sent)
      BY <3>1, <1>f
    <3> QED BY <3>2, <3>3, <2>1, <2>2, <1>i DEF Contained
  <2>3. ASSUME NEW f \in 2..Len(sent), Undisturbed(f)'
        PROVE  f # F /\ \E k \in DOMAIN file : Whole(file[k].data, f)'
    <3>1. f # F /\ Undisturbed(f)
      BY <2>3, <1>h, <1>u DEF Undisturbed
    <3>2. \E k \in DOMAIN file : Whole(file[k].data, f)
      BY <3>1, <2>1, <1>i DEF Contained
    <3> QED BY <3>1, <3>2, <1>u DEF Whole
  <2> QED BY <2>2, <2>3, <1>h, <1>u DEF Contained
<1>7. Timeline'
  BY <1>h, <1>u, <1>i DEF Timeline, Scaled
<1> QED BY <1>1, <1>2, <1>3, <1>4, <1>5, <1>6, <1>7 DEF Inv

(* Close counts what is in the file.                                       *)
LEMMA CloseKeeps ==
  ASSUME Inv, \/ \E ok \in BOOLEAN : Close(ok)
              \/ UNCHANGED <<open, frameCount, failures, env, count,
                             seenKeyFrame, firstFrameTimestamp, currentFrame,
                             isNil, file>>,
         UNCHANGED config
  PROVE  Inv'
<1>i. /\ TypeOK /\ InOrder /\ FramesInOrder /\ Buffer /\ BeginsWithKeyFrame
      /\ Untouched /\ UntouchedFramesExact /\ Contained /\ Counted
      /\ CountIsExact /\ Timeline /\ TimestampsSequential
  BY DEF Inv
<1>u. UNCHANGED <<config, sent, part, lost, count, seenKeyFrame,
                  firstFrameTimestamp, currentFrame, isNil, file>>
  BY DEF Close, env
<1>t. failures \in Nat /\ count \in Nat /\ frameCount \in Int
  BY <1>i DEF TypeOK
<1>c. /\ open' \in BOOLEAN /\ failures' \in Nat /\ frameCount' \in Int
      /\ failures' = 0 => failures = 0
      /\ failures' = 0 /\ ~open' /\ CanSeek =>
           frameCount' = count \/ (~open /\ frameCount' = frameCount)
  <2>1. CASE \E ok \in BOOLEAN : Close(ok)
    <3>1. PICK ok \in BOOLEAN : Close(ok)
      BY <2>1
    <3>2. CASE /\ frameCount' = (IF CanSeek THEN count ELSE frameCount)
               /\ UNCHANGED failures
      <4>1. open' = FALSE
        BY <3>1 DEF Close
      <4>2. frameCount' \in Int
        <5>1. count \in Int
          BY <1>t
        <5> QED BY <5>1, <3>2, <1>t
      <4> QED BY <4>1, <4>2, <3>2, <1>t
    <3>3. CASE failures' = failures + 1 /\ frameCount' \in {frameCount, Mixed}
      <4>1. open' = FALSE
        BY <3>1 DEF Close
      <4>2. failures' \in Nat /\ failures' # 0
        BY <3>3, <1>t
      <4>3. frameCount' \in Int
        BY <3>3, <1>t DEF Mixed
      <4>4. open' \in BOOLEAN
        BY <4>1
      <4> QED BY <4>2, <4>3, <4>4
    <3> QED BY <3>1, <3>2, <3>3 DEF Close
  <2>2. CASE UNCHANGED <<open, frameCount, failures>>
    BY <2>2, <1>t, <1>i DEF TypeOK
  <2> QED BY <2>1, <2>2
<1>h. /\ \A f : Hit(f)' <=> Hit(f)
      /\ \A k : Settled(k)' <=> Settled(k)
      /\ \A d, f : Whole(d, f)' <=> Whole(d, f)
      /\ \A d : KeyAhead(d)' <=> KeyAhead(d)
      /\ \A x : Gone(x)' <=> Gone(x)
      /\ \A f : Undisturbed(f)' <=> Undisturbed(f)
      /\ \A y : Scaled(y)' = Scaled(y)
      /\ Sending' <=> Sending
  BY <1>u DEF Hit, Settled, Whole, KeyAhead, Gone, Undisturbed, Scaled, Sending
<1>1. TypeOK'
  BY <1>u, <1>c, <1>i DEF TypeOK
<1>2. /\ FramesInOrder' /\ TimestampsSequential' /\ InOrder'
      /\ Buffer' /\ BeginsWithKeyFrame' /\ Timeline'
  BY <1>h, <1>u, <1>i DEF FramesInOrder, Ascending, Repeats,
                          TimestampsSequential, InOrder, Buffer, BeginsWithKeyFrame, Timeline
<1>3. Untouched' /\ UntouchedFramesExact'
  BY <1>h, <1>u, <1>c, <1>i DEF Untouched, UntouchedFramesExact, FramesIn
<1>4. Contained'
  BY <1>h, <1>u, <1>c, <1>i DEF Contained
<1>5. Counted' /\ CountIsExact'
  BY <1>u, <1>c, <1>i DEF Counted, CountIsExact
<1> QED BY <1>1, <1>2, <1>3, <1>4, <1>5 DEF Inv

(* What WriteRTP keeps whatever it does with the packet.                   *)
LEMMA ReceivedKeeps ==
  ASSUME Inv, WriteRTP, UNCHANGED config
  PROVE  /\ UNCHANGED <<config, sent, lost, open, frameCount>>
         /\ open /\ Sending /\ part' = part + 1 /\ part' \in Nat
         /\ part' <= sent[Len(sent)].parts /\ sent # << >>
         /\ Sending' <=> ~Packet.marker
         /\ firstFrameTimestamp' = ZeroTs(Packet)
         /\ firstFrameTimestamp' \in Int
         /\ \A f : Hit(f)' <=> Hit(f)
         /\ \A d, f : Whole(d, f)' <=> Whole(d, f)
         /\ \A d : KeyAhead(d)' <=> KeyAhead(d)
         /\ \A f : Undisturbed(f)' <=> Undisturbed(f)
         /\ \A y : Scaled(y)' = Scaled(y)
         /\ \A x : (x.part \in Nat /\ Gone(x)) => Gone(x)'
<1>u. /\ UNCHANGED <<config, sent, lost, open, frameCount>>
      /\ open /\ Sending /\ part' = part + 1
      /\ firstFrameTimestamp' = ZeroTs(Packet)
  BY DEF WriteRTP
<1>t. TypeOK
  BY DEF Inv
<1>p. /\ Len(sent) \in 1..MaxFrames /\ part \in Nat
      /\ part < sent[Len(sent)].parts
      /\ Packet.marker <=> part + 1 = sent[Len(sent)].parts
      /\ Packet.ts = Ts(Len(sent))
  BY <1>t, <1>u, PacketSent
<1>f. sent[Len(sent)].parts \in Nat /\ sent # << >>
  <2>1. Len(sent) \in 1..Len(sent) /\ Len(sent) > 0
    BY <1>p
  <2> QED BY <2>1, <1>t, Frames
<1>1. /\ part' \in Nat /\ part' <= sent[Len(sent)].parts
      /\ Sending' <=> ~Packet.marker
  BY <1>u, <1>p, <1>f DEF Sending
<1>2. firstFrameTimestamp' \in Int
  <2>1. Ts(Len(sent)) \in Int
    <3>1. FirstTs + (Len(sent) - 1) * Tick \in Int
      BY <1>p, TimeAssumption
    <3> QED BY <3>1, TimeAssumption DEF Ts
  <2> QED BY <2>1, <1>u, <1>p, <1>t DEF ZeroTs, TypeOK
<1>3. /\ \A f : Hit(f)' <=> Hit(f)
      /\ \A d, f : Whole(d, f)' <=> Whole(d, f)
      /\ \A d : KeyAhead(d)' <=> KeyAhead(d)
      /\ \A f : Undisturbed(f)' <=> Undisturbed(f)
      /\ \A y : Scaled(y)' = Scaled(y)
  BY <1>u DEF Hit, Whole, KeyAhead, Undisturbed, Scaled
<1>4. \A x : (x.part \in Nat /\ Gone(x)) => Gone(x)'
  BY <1>u, <1>p DEF Gone
<1> QED BY <1>u, <1>1, <1>2, <1>3, <1>4, <1>f

(* A packet that is dropped on purpose.                                    *)
LEMMA SkipKeeps ==
  ASSUME Inv, WriteRTP, Skip(Packet), UNCHANGED config
  PROVE  Inv'
<1> DEFINE F == Len(sent)
<1>i. /\ TypeOK /\ InOrder /\ FramesInOrder /\ Buffer /\ BeginsWithKeyFrame
      /\ Untouched /\ UntouchedFramesExact /\ Contained /\ Counted
      /\ CountIsExact /\ Timeline /\ TimestampsSequential
  BY DEF Inv
<1>r. /\ UNCHANGED <<config, sent, lost, open, frameCount>>
      /\ open /\ Sending /\ part' = part + 1 /\ part' \in Nat
      /\ part' <= sent[Len(sent)].parts /\ sent # << >>
      /\ Sending' <=> ~Packet.marker
      /\ firstFrameTimestamp' = ZeroTs(Packet)
      /\ firstFrameTimestamp' \in Int
  BY ReceivedKeeps
<1>h. /\ \A f : Hit(f)' <=> Hit(f)
      /\ \A d, f : Whole(d, f)' <=> Whole(d, f)
      /\ \A d : KeyAhead(d)' <=> KeyAhead(d)
      /\ \A f : Undisturbed(f)' <=> Undisturbed(f)
      /\ \A y : Scaled(y)' = Scaled(y)
  BY ReceivedKeeps
<1>g. \A x : (x.part \in Nat /\ Gone(x)) => Gone(x)'
  BY ReceivedKeeps
<1>f. F \in Nat /\ F > 0 /\ DOMAIN sent = 1..F
  BY <1>i, <1>r, Frames
<1>u. UNCHANGED <<seenKeyFrame, currentFrame, isNil, count, file, failures>>
  BY DEF Skip
<1>s. /\ currentFrame = << >>
      /\ config.codec = "AV1" => ~seenKeyFrame
      /\ failures = 0 =>
           /\ (sent[F].key /\ ~Hit(F)) => seenKeyFrame
           /\ ~(F >= 2 /\ Undisturbed(F))
  BY <1>r, Skipped DEF Skip
<1>k. \A k : Settled(k)' <=> Settled(k)
  BY <1>u DEF Settled
<1>1. TypeOK'
  BY <1>r, <1>u, <1>i DEF TypeOK
<1>2. InOrder'
  <2>1. \A k \in DOMAIN file : \A m \in DOMAIN file[k].data :
          file[k].data[m].part \in Nat
    BY <1>i, PieceTypes
  <2>2. \A k \in DOMAIN file : \A m \in DOMAIN file[k].data :
          Gone(file[k].data[m])'
    BY <2>1, <1>g, <1>i, <1>u DEF InOrder, Gone
  <2> QED BY <2>2, <1>k, <1>s, <1>u, <1>i DEF InOrder, Ascending
<1>3. /\ FramesInOrder' /\ TimestampsSequential' /\ Counted' /\ CountIsExact'
      /\ Buffer' /\ BeginsWithKeyFrame'
  BY <1>h, <1>k, <1>r, <1>u, <1>i DEF FramesInOrder, Ascending, Repeats, TimestampsSequential,
       Counted, CountIsExact, Buffer, BeginsWithKeyFrame
<1>4. Untouched' /\ UntouchedFramesExact'
  BY <1>h, <1>s, <1>r, <1>u, <1>i DEF Untouched, UntouchedFramesExact, FramesIn
<1>5. Contained'
  <2>1. SUFFICES ASSUME failures = 0 PROVE Contained'
    BY <1>u DEF Contained
  <2>2. ASSUME NEW f \in DOMAIN sent, sent[f].key, ~Hit(f)
        PROVE  seenKeyFrame
    <3>1. CASE f = F
      BY <3>1, <2>1, <2>2, <1>s
    <3>2. CASE f < F
      BY <3>2, <2>1, <2>2, <1>i DEF Contained
    <3> QED BY <3>1, <3>2, <1>f
  <2>3. ASSUME NEW f \in 2..Len(sent), Undisturbed(f)
        PROVE  f # F /\ \E k \in DOMAIN file : Whole(file[k].data, f)
    <3>1. F >= 2
      BY <2>3, <1>f
    <3>2. ~Undisturbed(F)
      BY <3>1, <2>1, <1>s
    <3>3. f # F
      BY <3>2, <2>3
    <3> QED BY <3>3, <2>1, <2>3, <1>i DEF Contained
  <2> QED BY <2>2, <2>3, <1>s, <1>h, <1>r, <1>u DEF Contained
<1>6. Timeline'
  BY <1>h, <1>k, <1>r, <1>u, <1>i DEF Timeline, ZeroTs
<1> QED BY <1>1, <1>2, <1>3, <1>4, <1>5, <1>6 DEF Inv

(* A packet that is appended and does not end its frame.                   *)
LEMMA CollectKeeps ==
  ASSUME Inv, WriteRTP, Collect(Packet), UNCHANGED config
  PROVE  Inv'
<1> DEFINE F == Len(sent)
<1>i. /\ TypeOK /\ InOrder /\ FramesInOrder /\ Buffer /\ BeginsWithKeyFrame
      /\ Untouched /\ UntouchedFramesExact /\ Contained /\ Counted
      /\ CountIsExact /\ Timeline /\ TimestampsSequential
  BY DEF Inv
<1>r. /\ UNCHANGED <<config, sent, lost, open, frameCount>>
      /\ open /\ Sending /\ part' = part + 1 /\ part' \in Nat
      /\ part' <= sent[Len(sent)].parts /\ sent # << >>
      /\ Sending' <=> ~Packet.marker
      /\ firstFrameTimestamp' = ZeroTs(Packet)
      /\ firstFrameTimestamp' \in Int
  BY ReceivedKeeps
<1>h. /\ \A f : Hit(f)' <=> Hit(f)
      /\ \A d, f : Whole(d, f)' <=> Whole(d, f)
      /\ \A d : KeyAhead(d)' <=> KeyAhead(d)
      /\ \A f : Undisturbed(f)' <=> Undisturbed(f)
      /\ \A y : Scaled(y)' = Scaled(y)
  BY ReceivedKeeps
<1>g. \A x : (x.part \in Nat /\ Gone(x)) => Gone(x)'
  BY ReceivedKeeps
<1>f. F \in Nat /\ F > 0 /\ DOMAIN sent = 1..F
  BY <1>i, <1>r, Frames
<1> DEFINE d == Appended(Packet)
<1>u. /\ UNCHANGED <<count, file, failures>>
      /\ seenKeyFrame' = TRUE /\ currentFrame' = d /\ isNil' = FALSE
      /\ Accepts(Packet) /\ ~Packet.marker
  BY DEF Collect
<1>s. /\ d \in Seq(Piece) /\ d # << >> /\ Ascending(d)
      /\ \A n \in DOMAIN d :
           /\ d[n].frame \in DOMAIN sent
           /\ d[n].frame = Len(sent) => d[n].part <= part + 1
      /\ \A k \in DOMAIN file :
           \A m \in DOMAIN file[k].data :
             IF Settled(k)
             THEN \A n \in DOMAIN d : Before(file[k].data[m], d[n])
             ELSE m \in DOMAIN d /\ d[m] = file[k].data[m]
      /\ (\A k \in DOMAIN file : ~file[k].ok) => KeyAhead(d)
      /\ (failures = 0 /\ \A f \in FramesIn(d) : ~Hit(f)) =>
           IsPrefix(d, Len(sent), part + 1)
      /\ (failures = 0 /\ Len(sent) >= 2 /\ Undisturbed(Len(sent))) =>
           IsPrefix(d, Len(sent), part + 1)
  BY <1>r, <1>u, Accepted
<1> HIDE DEF d
<1>k. \A k : Settled(k)' <=> Settled(k)
  BY <1>u DEF Settled
<1>1. TypeOK'
  BY <1>r, <1>u, <1>s, <1>i DEF TypeOK
<1>2. InOrder'
  <2>1. \A k \in DOMAIN file : \A m \in DOMAIN file[k].data :
          file[k].data[m].part \in Nat
    BY <1>i, PieceTypes
  <2>2. \A k \in DOMAIN file : \A m \in DOMAIN file[k].data :
          Gone(file[k].data[m])'
    BY <2>1, <1>g, <1>i, <1>u DEF InOrder, Gone
  <2>3. \A n \in DOMAIN d : d[n].frame \in DOMAIN sent'
                            /\ (d[n].frame = Len(sent') => d[n].part <= part')
    BY <1>s, <1>r
  <2> QED BY <2>2, <2>3, <1>k, <1>s, <1>u DEF InOrder, Gone, Ascending
<1>3. /\ FramesInOrder' /\ TimestampsSequential' /\ Counted' /\ CountIsExact'
      /\ BeginsWithKeyFrame'
  BY <1>h, <1>k, <1>r, <1>u, <1>i DEF FramesInOrder, Ascending, Repeats, TimestampsSequential,
       Counted, CountIsExact, BeginsWithKeyFrame
<1>4. Buffer'
  <2>1. KeyAhead(currentFrame)' <=> KeyAhead(d)
    BY <1>u, <1>r DEF KeyAhead
  <2> QED BY <2>1, <1>k, <1>u, <1>s DEF Buffer
<1>5. Untouched'
  <2>1. FramesIn(currentFrame)' = FramesIn(d)
    BY <1>u DEF FramesIn
  <2>2. IsPrefix(d, Len(sent), part + 1) =>
          IsPrefix(currentFrame, Len(sent), part)'
    BY <1>u, <1>r DEF IsPrefix
  <2> QED BY <2>1, <2>2, <1>h, <1>r, <1>s, <1>u DEF Untouched
<1>6. UntouchedFramesExact'
  BY <1>h, <1>r, <1>u, <1>i DEF UntouchedFramesExact, FramesIn
<1>7. Contained'
  <2>1. SUFFICES ASSUME failures = 0 PROVE Contained'
    BY <1>u DEF Contained
  <2>2. ASSUME NEW f \in 2..Len(sent), Undisturbed(f)
        PROVE  IF f = F THEN IsPrefix(d, f, part + 1)
               ELSE \E k \in DOMAIN file : Whole(file[k].data, f)
    <3>1. CASE f = F
      <4>1. Len(sent) >= 2 /\ Undisturbed(Len(sent))
        BY <3>1, <2>2, <1>f
      <4> QED BY <4>1, <3>1, <2>1, <1>s
    <3>2. CASE f # F
      BY <3>2, <2>1, <2>2, <1>i DEF Contained
    <3> QED BY <3>1, <3>2
  <2>3. \A f : IsPrefix(d, f, part + 1) => IsPrefix(currentFrame', f, part')
    BY <1>u, <1>r DEF IsPrefix
  <2> QED BY <2>2, <2>3, <1>h, <1>r, <1>u DEF Contained
<1>8. Timeline'
  BY <1>h, <1>k, <1>r, <1>u, <1>i DEF Timeline, ZeroTs
<1> QED BY <1>1, <1>2, <1>3, <1>4, <1>5, <1>6, <1>7, <1>8 DEF Inv

(* An entry of the file, whole or torn: the head of the frame collected.   *)
LEMMA EntryAppended ==
  ASSUME Inv, WriteRTP, Accepts(Packet), UNCHANGED config, count' = count + 1,
         NEW d, d = Appended(Packet),
         NEW w \in WrittenFrame, file' = Append(file, w), w.pts = Pts(Packet),
         \A m \in DOMAIN w.data : m \in DOMAIN d /\ w.data[m] = d[m],
         w.ok => w.data = d
  PROVE  /\ file' \in Seq(WrittenFrame) /\ Len(file') = Len(file) + 1
         /\ Len(file) \in Nat /\ DOMAIN file' = 1..(Len(file) + 1)
         /\ \A k \in 1..Len(file) : file'[k] = file[k]
         /\ file'[Len(file) + 1] = w
         /\ \A k \in DOMAIN file' : \A m \in DOMAIN file'[k].data :
              /\ file'[k].data[m].frame \in DOMAIN sent
              /\ file'[k].data[m].frame = Len(sent) =>
                   file'[k].data[m].part <= part + 1
         /\ FramesInOrder' /\ BeginsWithKeyFrame'
         /\ Timeline' /\ TimestampsSequential'
<1> DEFINE F == Len(sent)
           N == Len(file)
<1>i. /\ TypeOK /\ InOrder /\ FramesInOrder /\ Buffer /\ BeginsWithKeyFrame
      /\ Timeline /\ TimestampsSequential
  BY DEF Inv
<1>r. /\ UNCHANGED <<config, sent, lost, open, frameCount>>
      /\ open /\ Sending /\ part' = part + 1 /\ sent # << >>
      /\ firstFrameTimestamp' = ZeroTs(Packet)
      /\ \A c : KeyAhead(c)' <=> KeyAhead(c)
      /\ \A y : Scaled(y)' = Scaled(y)
      /\ \A x : (x.part \in Nat /\ Gone(x)) => Gone(x)'
  BY ReceivedKeeps
<1>f. F \in Nat /\ F > 0 /\ DOMAIN sent = 1..F
  BY <1>i, <1>r, Frames
<1>s. /\ d \in Seq(Piece) /\ d # << >> /\ Ascending(d)
      /\ \A n \in DOMAIN d :
           /\ d[n].frame \in DOMAIN sent
           /\ d[n].frame = Len(sent) => d[n].part <= part + 1
      /\ \A k \in DOMAIN file :
           \A m \in DOMAIN file[k].data :
             IF Settled(k)
             THEN \A n \in DOMAIN d : Before(file[k].data[m], d[n])
             ELSE m \in DOMAIN d /\ d[m] = file[k].data[m]
      /\ (\A k \in DOMAIN file : ~file[k].ok) => KeyAhead(d)
  BY <1>r, Accepted
<1>z. PICK z \in DOMAIN sent :
        /\ ZeroTs(Packet) = Ts(z)
        /\ Pts(Packet) = Scaled((Len(sent) - z) * Tick)
        /\ Pts(Packet) \in Int
        /\ \A k \in DOMAIN file :
             \E f \in z..Len(sent) : file[k].pts = Scaled((f - z) * Tick)
        /\ \A k \in DOMAIN file : file[k].pts <= Pts(Packet)
  BY <1>r, PacketTime
<1>t. /\ count \in Nat /\ N \in Nat /\ DOMAIN file = 1..N
      /\ file \in Seq(WrittenFrame)
  BY <1>i, PieceTypes DEF TypeOK
<1>v. /\ file' \in Seq(WrittenFrame) /\ Len(file') = N + 1
      /\ DOMAIN file' = 1..(N + 1)
      /\ \A k \in 1..N : file'[k] = file[k]
      /\ file'[N + 1] = w
  BY <1>t
<1>n. N \in Nat /\ DOMAIN file = 1..N
  BY <1>t
<1> HIDE DEF N
<1>1. ASSUME NEW k \in DOMAIN file', NEW m \in DOMAIN file'[k].data
      PROVE  /\ file'[k].data[m].frame \in DOMAIN sent
             /\ file'[k].data[m].frame = Len(sent) =>
                  file'[k].data[m].part <= part + 1
  <2>1. CASE k \in 1..N
    <3>1. k \in DOMAIN file /\ m \in DOMAIN file[k].data
      BY <2>1, <1>1, <1>v, <1>n
    <3>2. file[k].data[m].part \in Nat /\ Gone(file[k].data[m])
      BY <3>1, <1>i, PieceTypes DEF InOrder
    <3> QED BY <3>2, <2>1, <1>v, <1>i DEF Gone, TypeOK
  <2>2. CASE k = N + 1
    <3>1. file'[k].data[m] = d[m] /\ m \in DOMAIN d
      BY <2>2, <1>1, <1>v
    <3> QED BY <3>1, <1>s
  <2> QED BY <2>1, <2>2, <1>v, <1>n
<1>2. FramesInOrder'
  <2>1. \A k \in DOMAIN file' : Ascending(file'[k].data)
    <3>1. Ascending(w.data)
      BY <1>s DEF Ascending
    <3> QED BY <3>1, <1>v, <1>n, <1>i DEF FramesInOrder
  <2>2. ASSUME NEW j \in 1..(N + 1), NEW k \in 1..(N + 1), j < k
        PROVE  IF \E i \in j..(k - 1) : file'[i].ok
               THEN \A m \in DOMAIN file'[j].data, n \in DOMAIN file'[k].data :
                      Before(file'[j].data[m], file'[k].data[n])
               ELSE Repeats(file'[j].data, file'[k])
    <3>j. j \in 1..N /\ \A i \in j..(k - 1) : i \in 1..N /\ file'[i] = file[i]
      BY <2>2, <1>n, <1>v
    <3>1. CASE k \in 1..N
      BY <2>2, <3>j, <3>1, <1>v, <1>n, <1>i DEF FramesInOrder
    <3>2. CASE k = N + 1
      <4>1. (\E i \in j..(k - 1) : file'[i].ok) <=> Settled(j)
        <5>1. k - 1 = N
          BY <3>2, <1>n
        <5> QED BY <3>j, <5>1 DEF Settled, N
      <4>2. file'[j] = file[j] /\ file'[k] = w /\ j \in DOMAIN file
        BY <3>j, <3>2, <1>v, <1>n
      <4>3. ASSUME Settled(j), NEW m \in DOMAIN file[j].data, NEW n \in DOMAIN w.data
            PROVE  Before(file[j].data[m], w.data[n])
        BY <4>2, <4>3, <1>s
      <4>4. ASSUME ~Settled(j) PROVE Repeats(file[j].data, w)
        BY <4>2, <4>4, <1>s DEF Repeats
      <4> QED BY <4>1, <4>2, <4>3, <4>4
    <3> QED BY <3>1, <3>2, <1>n
  <2>3. DOMAIN file' = 1..(N + 1)
    BY <1>v
  <2>4. \A j \in DOMAIN file', k \in DOMAIN file' : j < k =>
          IF \E i \in j..(k - 1) : file'[i].ok
          THEN \A m \in DOMAIN file'[j].data, n \in DOMAIN file'[k].data :
                 Before(file'[j].data[m], file'[k].data[n])
          ELSE Repeats(file'[j].data, file'[k])
    BY <2>2, <2>3
  <2> QED BY <2>1, <2>4, Zenon DEF FramesInOrder, Ascending, Repeats, Before
<1>3. BeginsWithKeyFrame'
  <2>1. SUFFICES ASSUME NEW k \in 1..(N + 1), file'[k].data # << >>,
                        \A j \in 1..(k - 1) : ~file'[j].ok
                 PROVE  KeyAhead(file'[k].data)
    BY <1>v, <1>r DEF BeginsWithKeyFrame, KeyAhead
  <2>2. \A j \in 1..(k - 1) : j \in 1..N /\ file'[j] = file[j]
    BY <1>v, <1>n
  <2>3. CASE k \in 1..N
    BY <2>1, <2>2, <2>3, <1>v, <1>n, <1>i DEF BeginsWithKeyFrame
  <2>4. CASE k = N + 1
    <3>1. k - 1 = N
      BY <2>4, <1>n
    <3>2. \A j \in DOMAIN file : ~file[j].ok
      BY <2>1, <2>2, <3>1, <1>n
    <3>3. w.data \in Seq(Piece) /\ w.data # << >>
      BY <2>1, <2>4, <1>v DEF WrittenFrame
    <3>4. 1 \in DOMAIN w.data
      BY <3>3
    <3>5. w.data[1] = d[1]
      BY <3>4
    <3> QED BY <2>4, <3>2, <3>5, <1>s, <1>v DEF KeyAhead
  <2> QED BY <2>3, <2>4, <1>n
<1>4. Timeline'
  <2>1. ASSUME NEW k \in 1..(N + 1)
        PROVE  \E f \in z..Len(sent) : file'[k].pts = Scaled((f - z) * Tick)
    <3>1. CASE k \in 1..N
      BY <3>1, <1>v, <1>z, <1>n
    <3>2. CASE k = N + 1
      <4>1. F \in z..F
        BY <1>f
      <4> QED BY <3>2, <4>1, <1>v, <1>z
    <3> QED BY <3>1, <3>2, <1>n
  <2>2. count' # 0
    BY <1>t
  <2> QED BY <2>1, <2>2, <1>r, <1>v, <1>z DEF Timeline, Ts
<1>5. TimestampsSequential'
  <2>1. SUFFICES ASSUME NEW j \in 1..(N + 1), NEW k \in 1..(N + 1), j < k
                 PROVE  file'[j].pts <= file'[k].pts
    BY <1>v DEF TimestampsSequential
  <2>2. j \in 1..N
    BY <2>1, <1>n
  <2>3. CASE k \in 1..N
    BY <2>1, <2>2, <2>3, <1>v, <1>n, <1>i DEF TimestampsSequential
  <2>4. CASE k = N + 1
    BY <2>2, <2>4, <1>v, <1>z, <1>n
  <2> QED BY <2>3, <2>4, <1>n
<1> QED BY <1>1, <1>2, <1>3, <1>4, <1>5, <1>v, <1>n DEF N

(* The last packet of a frame: the buffer becomes a frame of the file.     *)
LEMMA WriteFrameKeeps ==
  ASSUME Inv, WriteRTP, WriteFrame(Packet), UNCHANGED config
  PROVE  Inv'
<1> DEFINE F == Len(sent)
<1>i. /\ TypeOK /\ InOrder /\ FramesInOrder /\ Buffer /\ BeginsWithKeyFrame
      /\ Untouched /\ UntouchedFramesExact /\ Contained /\ Counted
      /\ CountIsExact /\ Timeline /\ TimestampsSequential
  BY DEF Inv
<1>r. /\ UNCHANGED <<config, sent, lost, open, frameCount>>
      /\ open /\ Sending /\ part' = part + 1 /\ part' \in Nat
      /\ part' <= sent[Len(sent)].parts /\ sent # << >>
      /\ Sending' <=> ~Packet.marker
      /\ firstFrameTimestamp' = ZeroTs(Packet)
      /\ firstFrameTimestamp' \in Int
  BY ReceivedKeeps
<1>h. /\ \A f : Hit(f)' <=> Hit(f)
      /\ \A d, f : Whole(d, f)' <=> Whole(d, f)
      /\ \A d : KeyAhead(d)' <=> KeyAhead(d)
      /\ \A f : Undisturbed(f)' <=> Undisturbed(f)
      /\ \A y : Scaled(y)' = Scaled(y)
  BY ReceivedKeeps
<1>g. \A x : (x.part \in Nat /\ Gone(x)) => Gone(x)'
  BY ReceivedKeeps
<1>f. F \in Nat /\ F > 0 /\ DOMAIN sent = 1..F
  BY <1>i, <1>r, Frames
<1> DEFINE d == Appended(Packet)
<1>u. /\ UNCHANGED failures /\ count' = count + 1
      /\ file' = Append(file, [ok |-> TRUE, data |-> d, pts |-> Pts(Packet)])
      /\ seenKeyFrame' = TRUE /\ currentFrame' = << >> /\ isNil' = TRUE
      /\ Accepts(Packet) /\ Packet.marker
  BY DEF WriteFrame
<1>s. /\ d \in Seq(Piece) /\ d # << >> /\ Ascending(d)
      /\ \A n \in DOMAIN d :
           /\ d[n].frame \in DOMAIN sent
           /\ d[n].frame = Len(sent) => d[n].part <= part + 1
      /\ \A k \in DOMAIN file :
           \A m \in DOMAIN file[k].data :
             IF Settled(k)
             THEN \A n \in DOMAIN d : Before(file[k].data[m], d[n])
             ELSE m \in DOMAIN d /\ d[m] = file[k].data[m]
      /\ (\A k \in DOMAIN file : ~file[k].ok) => KeyAhead(d)
      /\ (failures = 0 /\ \A f \in FramesIn(d) : ~Hit(f)) =>
           IsPrefix(d, Len(sent), part + 1)
      /\ (failures = 0 /\ Len(sent) >= 2 /\ Undisturbed(Len(sent))) =>
           IsPrefix(d, Len(sent), part + 1)
  BY <1>r, <1>u, Accepted
<1> HIDE DEF d
<1>t. /\ part \in Nat /\ part + 1 = sent[F].parts
      /\ count \in Nat /\ Len(file) \in Nat /\ DOMAIN file = 1..Len(file)
      /\ file \in Seq(WrittenFrame)
  BY <1>i, <1>r, <1>u, PacketSent, PieceTypes DEF TypeOK
<1> DEFINE N == Len(file)
           w == [ok |-> TRUE, data |-> d, pts |-> Pts(Packet)]
<1>w. w \in WrittenFrame /\ w.ok /\ w.data = d /\ w.pts = Pts(Packet)
  <2>1. Pts(Packet) \in Int
    BY <1>r, PacketTime
  <2> QED BY <2>1, <1>s DEF WrittenFrame
<1> HIDE DEF w
<1>v. /\ file' \in Seq(WrittenFrame) /\ Len(file') = N + 1
      /\ DOMAIN file' = 1..(N + 1)
      /\ \A k \in 1..N : file'[k] = file[k]
      /\ file'[N + 1] = w
      /\ \A k \in DOMAIN file' : \A m \in DOMAIN file'[k].data :
           /\ file'[k].data[m].frame \in DOMAIN sent
           /\ file'[k].data[m].frame = Len(sent) =>
                file'[k].data[m].part <= part + 1
      /\ FramesInOrder' /\ BeginsWithKeyFrame'
      /\ Timeline' /\ TimestampsSequential'
  BY <1>w, <1>u, EntryAppended DEF w, d
<1>n. N \in Nat /\ DOMAIN file = 1..N
  BY <1>t
<1> HIDE DEF N
<1>1. TypeOK'
  BY <1>r, <1>u, <1>v, <1>t, <1>i, SMTT(30) DEF TypeOK
<1>2. InOrder'
  <2>1. \A k \in DOMAIN file' : Settled(k)'
    <3>1. N + 1 \in DOMAIN file' /\ file'[N + 1].ok
      BY <1>v, <1>w, <1>n
    <3>2. \A k \in DOMAIN file' : N + 1 \in k..Len(file')
      BY <1>v, <1>n
    <3> QED BY <3>1, <3>2 DEF Settled
  <2>2. DOMAIN currentFrame' = {}
    BY <1>u
  <2> QED BY <2>1, <2>2, <1>v, <1>r DEF InOrder, Gone, Ascending
<1>4. Buffer'
  <2>1. N + 1 \in DOMAIN file' /\ file'[N + 1].ok
    BY <1>v, <1>w, <1>n
  <2> QED BY <2>1, <1>u DEF Buffer
<1>6. Untouched'
  BY <1>r, <1>u DEF Untouched
<1>7. UntouchedFramesExact'
  <2>1. SUFFICES ASSUME failures = 0, NEW k \in 1..(N + 1),
                        \A f \in FramesIn(file'[k].data) : ~Hit(f)
                 PROVE  \E f \in DOMAIN sent : Whole(file'[k].data, f)
    BY <1>h, <1>r, <1>u, <1>v DEF UntouchedFramesExact, FramesIn
  <2>2. CASE k \in 1..N
    BY <2>1, <2>2, <1>v, <1>n, <1>i DEF UntouchedFramesExact
  <2>3. CASE k = N + 1
    <3>1. IsPrefix(d, F, part + 1)
      BY <2>1, <2>3, <1>v, <1>w, <1>s
    <3>2. F \in DOMAIN sent
      BY <1>f
    <3> QED BY <2>3, <3>1, <3>2, <1>t, <1>v, <1>w DEF Whole
  <2> QED BY <2>2, <2>3, <1>n
<1>8. Contained'
  <2>1. SUFFICES ASSUME failures = 0 PROVE Contained'
    BY <1>u DEF Contained
  <2>2. ASSUME NEW f \in 2..Len(sent), Undisturbed(f)
        PROVE  \E k \in DOMAIN file' : Whole(file'[k].data, f)
    <3>1. CASE f = F
      <4>1. Len(sent) >= 2 /\ Undisturbed(Len(sent))
        BY <3>1, <2>2, <1>f
      <4>2. IsPrefix(d, F, part + 1)
        BY <4>1, <2>1, <1>s
      <4>3. Whole(file'[N + 1].data, f)
        BY <4>2, <3>1, <1>t, <1>v, <1>w DEF Whole
      <4>4. N + 1 \in DOMAIN file'
        BY <1>v, <1>n
      <4> QED BY <4>3, <4>4
    <3>2. CASE f # F
      <4>1. PICK k \in DOMAIN file : Whole(file[k].data, f)
        BY <3>2, <2>1, <2>2, <1>i DEF Contained
      <4>2. k \in DOMAIN file' /\ file'[k] = file[k]
        BY <1>v, <1>n
      <4> QED BY <4>1, <4>2
    <3> QED BY <3>1, <3>2
  <2> QED BY <2>2, <1>h, <1>r, <1>u DEF Contained
<1>9. Counted' /\ CountIsExact'
  BY <1>r, <1>u, <1>v, <1>i DEF Counted, CountIsExact, N
<1> QED BY <1>1, <1>2, <1>4, <1>6, <1>7, <1>8, <1>9, <1>v DEF Inv

(* A write of the frame fails: it stays in the buffer, and a head of  *)
(* it may be in the file.                                                  *)
LEMMA WriteFrameFailsKeeps ==
  ASSUME Inv, WriteRTP, WriteFrameFails(Packet), UNCHANGED config
  PROVE  Inv'
<1> DEFINE F == Len(sent)
<1>i. /\ TypeOK /\ InOrder /\ FramesInOrder /\ Buffer /\ BeginsWithKeyFrame
      /\ Untouched /\ UntouchedFramesExact /\ Contained /\ Counted
      /\ CountIsExact /\ Timeline /\ TimestampsSequential
  BY DEF Inv
<1>r. /\ UNCHANGED <<config, sent, lost, open, frameCount>>
      /\ open /\ Sending /\ part' = part + 1 /\ part' \in Nat
      /\ part' <= sent[Len(sent)].parts /\ sent # << >>
      /\ Sending' <=> ~Packet.marker
      /\ firstFrameTimestamp' = ZeroTs(Packet)
      /\ firstFrameTimestamp' \in Int
  BY ReceivedKeeps
<1>h. /\ \A f : Hit(f)' <=> Hit(f)
      /\ \A d, f : Whole(d, f)' <=> Whole(d, f)
      /\ \A d : KeyAhead(d)' <=> KeyAhead(d)
      /\ \A f : Undisturbed(f)' <=> Undisturbed(f)
      /\ \A y : Scaled(y)' = Scaled(y)
  BY ReceivedKeeps
<1>g. \A x : (x.part \in Nat /\ Gone(x)) => Gone(x)'
  BY ReceivedKeeps
<1>f. F \in Nat /\ F > 0 /\ DOMAIN sent = 1..F
  BY <1>i, <1>r, Frames
<1> DEFINE d == Appended(Packet)
<1>u. /\ failures' = failures + 1 /\ count' = count + 1
      /\ \/ UNCHANGED file
         \/ \E n \in 0..Len(d) : file' = Append(file, Torn(Packet, n))
      /\ seenKeyFrame' = TRUE /\ currentFrame' = d /\ isNil' = FALSE
      /\ Accepts(Packet)
  BY DEF WriteFrameFails
<1>s. /\ d \in Seq(Piece) /\ d # << >> /\ Ascending(d)
      /\ \A n \in DOMAIN d :
           /\ d[n].frame \in DOMAIN sent
           /\ d[n].frame = Len(sent) => d[n].part <= part + 1
      /\ \A k \in DOMAIN file :
           \A m \in DOMAIN file[k].data :
             IF Settled(k)
             THEN \A n \in DOMAIN d : Before(file[k].data[m], d[n])
             ELSE m \in DOMAIN d /\ d[m] = file[k].data[m]
      /\ (\A k \in DOMAIN file : ~file[k].ok) => KeyAhead(d)
      /\ (failures = 0 /\ \A f \in FramesIn(d) : ~Hit(f)) =>
           IsPrefix(d, Len(sent), part + 1)
      /\ (failures = 0 /\ Len(sent) >= 2 /\ Undisturbed(Len(sent))) =>
           IsPrefix(d, Len(sent), part + 1)
  BY <1>r, <1>u, Accepted
<1> HIDE DEF d
<1>z. PICK z \in DOMAIN sent :
        /\ ZeroTs(Packet) = Ts(z)
        /\ \A k \in DOMAIN file :
             \E f \in z..Len(sent) : file[k].pts = Scaled((f - z) * Tick)
  BY <1>r, PacketTime
<1>t. /\ part \in Nat /\ count \in Nat /\ failures \in Nat
      /\ file \in Seq(WrittenFrame) /\ Len(file) \in Nat
      /\ DOMAIN file = 1..Len(file)
      /\ failures' \in Nat /\ failures' # 0
      /\ count' \in Nat /\ count' # 0
  BY <1>i, <1>u, PieceTypes DEF TypeOK
<1>w. ASSUME NEW n \in 0..Len(d)
      PROVE  /\ Torn(Packet, n) \in WrittenFrame /\ ~Torn(Packet, n).ok
             /\ Torn(Packet, n).pts = Pts(Packet)
             /\ Torn(Packet, n).data \in Seq(Piece)
             /\ \A m \in DOMAIN Torn(Packet, n).data :
                  m \in DOMAIN d /\ Torn(Packet, n).data[m] = d[m]
  <2> DEFINE e == SubSeq(d, 1, n)
  <2>1. /\ e \in Seq(Piece) /\ DOMAIN e = 1..n
        /\ \A m \in 1..n : e[m] = d[m] /\ m \in DOMAIN d
    BY <1>s
  <2>2. Torn(Packet, n) = [ok |-> FALSE, data |-> e, pts |-> Pts(Packet)]
    BY DEF Torn, d
  <2> HIDE DEF e
  <2>3. Pts(Packet) \in Int
    BY <1>r, PacketTime
  <2> QED BY <2>1, <2>2, <2>3 DEF WrittenFrame
<1>v. /\ file' \in Seq(WrittenFrame)
      /\ DOMAIN file' = 1..Len(file')
      /\ \A k \in DOMAIN file' :
           \/ k \in DOMAIN file /\ file'[k] = file[k]
           \/ /\ ~file'[k].ok
              /\ k \notin DOMAIN file
              /\ \A m \in DOMAIN file'[k].data :
                   m \in DOMAIN d /\ file'[k].data[m] = d[m]
      /\ \A k \in DOMAIN file : k \in DOMAIN file' /\ file'[k] = file[k]
      /\ \A k \in DOMAIN file' : \A m \in DOMAIN file'[k].data :
           /\ file'[k].data[m].frame \in DOMAIN sent
           /\ file'[k].data[m].frame = Len(sent) =>
                file'[k].data[m].part <= part + 1
      /\ FramesInOrder' /\ BeginsWithKeyFrame'
      /\ Timeline' /\ TimestampsSequential'
  <2>1. CASE UNCHANGED file
    <3>1. \A k \in DOMAIN file : \A m \in DOMAIN file[k].data :
            /\ file[k].data[m].frame \in DOMAIN sent
            /\ file[k].data[m].frame = Len(sent) => file[k].data[m].part <= part + 1
      <4>1. \A k \in DOMAIN file : \A m \in DOMAIN file[k].data :
              file[k].data[m].part \in Nat /\ Gone(file[k].data[m])
        BY <1>i, PieceTypes DEF InOrder
      <4> QED BY <4>1, <1>t DEF Gone
    <3>2. FramesInOrder' /\ BeginsWithKeyFrame' /\ TimestampsSequential'
      BY <2>1, <1>h, <1>i DEF FramesInOrder, BeginsWithKeyFrame,
           TimestampsSequential, Ascending, Repeats
    <3>3. Timeline'
      BY <2>1, <1>t, <1>h, <1>r, <1>z DEF Timeline, Ts
    <3> QED BY <2>1, <3>1, <3>2, <3>3, <1>t
  <2>2. CASE \E n \in 0..Len(d) : file' = Append(file, Torn(Packet, n))
    <3>1. PICK n \in 0..Len(d) : file' = Append(file, Torn(Packet, n))
      BY <2>2
    <3> DEFINE w == Torn(Packet, n)
    <3>2. /\ w \in WrittenFrame /\ ~w.ok /\ w.pts = Pts(Packet)
          /\ \A m \in DOMAIN w.data : m \in DOMAIN d /\ w.data[m] = d[m]
      BY <1>w
    <3>3. file' = Append(file, w)
      BY <3>1
    <3> HIDE DEF w
    <3>4. /\ file' \in Seq(WrittenFrame) /\ Len(file') = Len(file) + 1
          /\ Len(file) \in Nat /\ DOMAIN file' = 1..(Len(file) + 1)
          /\ \A k \in 1..Len(file) : file'[k] = file[k]
          /\ file'[Len(file) + 1] = w
          /\ \A k \in DOMAIN file' : \A m \in DOMAIN file'[k].data :
               /\ file'[k].data[m].frame \in DOMAIN sent
               /\ file'[k].data[m].frame = Len(sent) =>
                    file'[k].data[m].part <= part + 1
          /\ FramesInOrder' /\ BeginsWithKeyFrame'
          /\ Timeline' /\ TimestampsSequential'
      BY <3>2, <3>3, <1>u, EntryAppended DEF d
    <3> QED BY <3>2, <3>4, <1>t
  <2> QED BY <2>1, <2>2, <1>u
<1>k. \A k \in DOMAIN file' :
        /\ k \in DOMAIN file => (Settled(k)' <=> Settled(k))
        /\ k \notin DOMAIN file => ~Settled(k)'
  <2>1. Len(file) <= Len(file') /\ Len(file') \in Nat
    <3>1. Len(file') \in Nat
      BY <1>v
    <3>2. Len(file) # 0 => Len(file) \in DOMAIN file'
      BY <1>v, <1>t
    <3> QED BY <3>1, <3>2, <1>v, <1>t
  <2>2. \A i \in DOMAIN file' : file'[i].ok => i \in DOMAIN file /\ file[i].ok
    BY <1>v
  <2>3. ASSUME NEW k \in DOMAIN file', Settled(k)'
        PROVE  k \in DOMAIN file /\ Settled(k)
    <3>1. PICK i \in k..Len(file') : file'[i].ok
      BY <2>3 DEF Settled
    <3>2. i \in DOMAIN file' /\ k \in 1..i
      BY <1>v, <2>1
    <3>3. i \in DOMAIN file /\ file[i].ok
      BY <2>2, <3>1, <3>2
    <3> QED BY <3>2, <3>3, <1>t DEF Settled
  <2>4. ASSUME NEW k \in DOMAIN file, Settled(k) PROVE Settled(k)'
    <3>1. PICK i \in k..Len(file) : file[i].ok
      BY <2>4 DEF Settled
    <3>2. i \in DOMAIN file /\ i \in k..Len(file')
      BY <1>t, <2>1
    <3> QED BY <3>1, <3>2, <1>v DEF Settled
  <2> QED BY <2>3, <2>4
<1>1. TypeOK'
  BY <1>r, <1>u, <1>s, <1>v, <1>t, <1>i DEF TypeOK
<1>2. InOrder'
  <2>1. ASSUME NEW k \in DOMAIN file', NEW m \in DOMAIN file'[k].data
        PROVE  IF Settled(k)'
               THEN \A n \in DOMAIN d : Before(file'[k].data[m], d[n])
               ELSE m \in DOMAIN d /\ d[m] = file'[k].data[m]
    <3>1. CASE k \in DOMAIN file
      BY <2>1, <3>1, <1>k, <1>v, <1>s
    <3>2. CASE k \notin DOMAIN file
      BY <2>1, <3>2, <1>k, <1>v
    <3> QED BY <3>1, <3>2
  <2>2. \A n \in DOMAIN d : d[n].frame \in DOMAIN sent'
                            /\ (d[n].frame = Len(sent') => d[n].part <= part')
    BY <1>s, <1>r
  <2>3. Ascending(currentFrame)' /\ \A n \in DOMAIN currentFrame' : Gone(currentFrame[n])'
    BY <2>2, <1>s, <1>u DEF Gone, Ascending, Before
  <2>4. ASSUME NEW k \in DOMAIN file', NEW m \in DOMAIN file'[k].data
        PROVE  Gone(file[k].data[m])'
    BY <2>4, <1>v, <1>r DEF Gone
  <2> QED BY <2>1, <2>3, <2>4, <1>u DEF InOrder, Before
<1>4. Buffer'
  <2>1. (\A k \in DOMAIN file' : ~file'[k].ok) => \A k \in DOMAIN file : ~file[k].ok
    BY <1>v
  <2>2. KeyAhead(currentFrame)' <=> KeyAhead(d)
    BY <1>u, <1>r DEF KeyAhead
  <2> QED BY <2>1, <2>2, <1>u, <1>s DEF Buffer
<1>6. /\ Untouched' /\ UntouchedFramesExact' /\ Contained' /\ Counted'
      /\ CountIsExact'
  BY <1>t DEF Untouched, UntouchedFramesExact, Contained, Counted, CountIsExact
<1> QED BY <1>1, <1>2, <1>4, <1>6, <1>v DEF Inv

-----------------------------------------------------------------------------
LEMMA InitInv == Init => Inv
<1> SUFFICES ASSUME Init PROVE Inv
  OBVIOUS
<1>i. /\ config \in Configs /\ sent = << >> /\ part = 0 /\ lost = {}
      /\ open = TRUE /\ count = 0 /\ seenKeyFrame = FALSE
      /\ firstFrameTimestamp = 0 /\ currentFrame = << >> /\ isNil = TRUE
      /\ file = << >> /\ frameCount = 900 /\ failures = 0
  BY DEF Init
<1>1. TypeOK
  <2>1. Len(sent) <= MaxFrames
    BY <1>i, TimeAssumption
  <2>2. currentFrame \in Seq(Piece) /\ file \in Seq(WrittenFrame)
        /\ sent \in Seq(EncodedFrame)
    BY <1>i
  <2>3. /\ part \in Nat
        /\ IF sent = << >> THEN part = 0 ELSE part <= sent[Len(sent)].parts
    BY <1>i
  <2>4. lost \subseteq Piece /\ firstFrameTimestamp \in Int
    BY <1>i
  <2>5. count \in Nat /\ failures \in Nat /\ frameCount \in Int
    BY <1>i
  <2>6. open \in BOOLEAN /\ seenKeyFrame \in BOOLEAN /\ isNil \in BOOLEAN
    BY <1>i
  <2> QED BY <2>1, <2>2, <2>3, <2>4, <2>5, <2>6, <1>i DEF TypeOK
<1>2. /\ InOrder /\ FramesInOrder /\ Buffer /\ BeginsWithKeyFrame
      /\ UntouchedFramesExact /\ TimestampsSequential
  <2>1. DOMAIN file = {} /\ DOMAIN currentFrame = {}
    BY <1>i
  <2> QED BY <2>1, <1>i DEF InOrder, Ascending, FramesInOrder, Buffer,
            BeginsWithKeyFrame, UntouchedFramesExact, TimestampsSequential
<1>3. Untouched /\ Contained /\ Timeline
  BY <1>i DEF Untouched, Contained, Timeline
<1>4. Counted /\ CountIsExact
  BY <1>i DEF Counted, CountIsExact
<1> QED BY <1>1, <1>2, <1>3, <1>4 DEF Inv

LEMMA NextInv == Inv /\ [Next]_vars => Inv'
<1> SUFFICES ASSUME Inv, [Next]_vars PROVE Inv'
  OBVIOUS
<1>1. ASSUME NEW n \in Parts, NEW key \in BOOLEAN, BeginFrame(n, key),
             UNCHANGED config
      PROVE  Inv'
  BY <1>1, BeginFrameKeeps
<1>2. CASE Lose /\ UNCHANGED config
  BY <1>2, LoseKeeps
<1>3. CASE WriteRTP /\ UNCHANGED config
  <2>1. \/ Skip(Packet) \/ Collect(Packet) \/ WriteFrame(Packet)
        \/ WriteFrameFails(Packet)
    BY <1>3 DEF WriteRTP
  <2> QED BY <2>1, <1>3, SkipKeeps, CollectKeeps, WriteFrameKeeps,
             WriteFrameFailsKeeps
<1>4. CASE (\E ok \in BOOLEAN : Close(ok)) /\ UNCHANGED config
  BY <1>4, CloseKeeps
<1>5. CASE UNCHANGED vars
  BY <1>5, CloseKeeps DEF vars, env
<1> QED BY <1>1, <1>2, <1>3, <1>4, <1>5 DEF Next

(* The inductive invariant holds of the IVF writer.                        *)
THEOREM InvHolds == Spec => []Inv
BY InitInv, NextInv, PTL DEF Spec

(* A frame of the file that no loss and no failed write touches is exactly *)
(* one frame of the encoder (writeVP8, writeVP9, writeAV1).                *)
THEOREM UntouchedHolds == Spec => []UntouchedFramesExact
<1>1. Inv => UntouchedFramesExact
  BY DEF Inv
<1> QED BY <1>1, InvHolds, PTL

(* However many packets are lost, a frame that arrives in full after one   *)
(* that did, and after a key frame, is in the file.                        *)
THEOREM LossContained == Spec => []LossIsContained
<1>1. Inv => LossIsContained
  <2>1. SUFFICES ASSUME Inv, failures = 0, NEW f \in 2..Len(sent) - 1,
                        Undisturbed(f)
                 PROVE  \E k \in DOMAIN file : Whole(file[k].data, f)
    BY DEF LossIsContained
  <2>2. Len(sent) \in Nat
    BY <2>1, Frames DEF Inv
  <2>3. f \in 2..Len(sent) /\ f # Len(sent)
    BY <2>1, <2>2
  <2> QED BY <2>1, <2>3 DEF Inv, Contained
<1> QED BY <1>1, InvHolds, PTL

(* The data of the first frame of the file, and of every try to write one  *)
(* up to the first that succeeds, begins with the start of a key frame,    *)
(* whatever was lost (seenKeyFrame).                                       *)
THEOREM KeyFrameHolds == Spec => []BeginsWithKeyFrame
<1>1. Inv => BeginsWithKeyFrame
  BY DEF Inv
<1> QED BY <1>1, InvHolds, PTL

(* Packets are in the file in order; those of a frame whose write failed   *)
(* are there again at the head of the next one, and no others are there    *)
(* twice (currentFrame, kept by a failing writeFrame).                     *)
THEOREM OrderHolds == Spec => []FramesInOrder
<1>1. Inv => FramesInOrder
  BY DEF Inv
<1> QED BY <1>1, InvHolds, PTL

(* The header of a closed seekable file counts its frames (Close).         *)
THEOREM CountHolds == Spec => []CountIsExact
<1>1. Inv => CountIsExact
  BY DEF Inv
<1> QED BY <1>1, InvHolds, PTL

(* Presentation time does not go back within a recording shorter than a    *)
(* cycle of the time stamps, across their wrap too (WriteRTP, writeFrame). *)
THEOREM TimestampsHold == Spec => []TimestampsSequential
<1>1. Inv => TimestampsSequential
  BY DEF Inv
<1> QED BY <1>1, InvHolds, PTL

=============================================================================
