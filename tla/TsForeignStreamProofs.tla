------------------------ MODULE TsForeignStreamProofs ------------------------
(***************************************************************************)
(* Proofs about mpegts.Reader on the packets of any muxer: what is         *)
(* collected for a track is at all times one run of packets of its PID     *)
(* from a unit start on, and the tracks come from whole tables.            *)
(***************************************************************************)
EXTENDS TsForeignStream, FiniteSetTheorems, TLAPS

(* A function on the numbers up to n is a sequence.                        *)
LEMMA FunctionSeq ==
  ASSUME NEW A, NEW n \in Nat, NEW f \in [1..n -> A]
  PROVE  f \in Seq(A) /\ Len(f) = n
  OBVIOUS

(* A non-empty set of numbers up to n has a largest one.                   *)
LEMMA LargestNumber ==
  ASSUME NEW n \in Nat, NEW T, T \subseteq 1..n, T # {}
  PROVE  \E x \in T : \A y \in T : y <= x
<1> DEFINE U == {n - x : x \in T}
<1>1. U \subseteq Nat /\ U # {}
  <2>1. \A x \in T : n - x \in Nat
    OBVIOUS
  <2> QED
    BY <2>1
<1>2. IsWellFoundedOn(OpToRel(<, Nat), Nat)
  BY NatLessThanWellFounded
<1>3. PICK u \in U : \A v \in U : ~(<<v, u>> \in OpToRel(<, Nat))
  BY <1>1, <1>2, WFMin
<1>4. PICK x \in T : u = n - x
  BY <1>3
<1>5. ASSUME NEW y \in T
      PROVE  y <= x
  <2>1. n - y \in U /\ n - y \in Nat /\ u \in Nat
    BY <1>1
  <2>2. ~(n - y < u)
    BY <2>1, <1>3 DEF OpToRel
  <2>3. x \in Nat /\ y \in Nat
    OBVIOUS
  <2> QED
    BY <2>2, <2>3, <1>4
<1> QED
  BY <1>5

-----------------------------------------------------------------------------
(* How long no piece and one piece are.                                    *)
LEMMA PieceLenNone == PieceLen(<< >>) = 0
<1> DEFINE s == << >>
           F(it) == [t \in SUBSET DOMAIN s |->
                       IF t = {} THEN 0 ELSE it[t \ {Max(t)}] + s[Max(t)].len]
           iter == CHOOSE it : it = F(it)
           g == [t \in SUBSET DOMAIN s |-> 0]
<1>1. PieceLen(s) = iter[DOMAIN s]
  BY DEF PieceLen, FoldLeft, MapThenFoldSet
<1>2. DOMAIN s = {}
  OBVIOUS
<1>3. \A t \in SUBSET DOMAIN s : t = {}
  BY <1>2
<1>4. g = F(g)
  BY <1>3
<1>5. iter = F(iter)
  BY <1>4
<1> HIDE DEF iter
<1>6. iter[{}] = 0
  BY <1>5, Zenon
<1> QED
  BY <1>1, <1>2, <1>6

LEMMA PieceLenOne ==
  ASSUME NEW x, x.len \in Nat
  PROVE  PieceLen(<<x>>) = x.len
<1> DEFINE s == <<x>>
           F(it) == [t \in SUBSET DOMAIN s |->
                       IF t = {} THEN 0 ELSE it[t \ {Max(t)}] + s[Max(t)].len]
           iter == CHOOSE it : it = F(it)
           g == [t \in SUBSET DOMAIN s |-> IF t = {} THEN 0 ELSE x.len]
<1>1. PieceLen(s) = iter[DOMAIN s]
  BY DEF PieceLen, FoldLeft, MapThenFoldSet
<1>2. DOMAIN s = {1} /\ s[1] = x
  OBVIOUS
<1>3. Max({1}) = 1
  BY DEF Max
<1>4. g = F(g)
  <2>1. \A t \in SUBSET DOMAIN s : t = {} \/ t = {1}
    BY <1>2
  <2>2. g[{}] = 0
    OBVIOUS
  <2>3. ASSUME NEW t \in SUBSET DOMAIN s, t # {}
        PROVE  g[t \ {Max(t)}] + s[Max(t)].len = x.len
    <3>1. t = {1} /\ Max(t) = 1
      BY <2>1, <2>3, <1>3
    <3>2. t \ {Max(t)} = {}
      BY <3>1
    <3>3. s[Max(t)].len = x.len
      BY <3>1, <1>2
    <3> HIDE DEF g, s
    <3>4. g[t \ {Max(t)}] = 0
      BY <3>2, <2>2
    <3> QED
      BY <3>3, <3>4
  <2> QED
    BY <2>3
<1>5. iter = F(iter)
  BY <1>4
<1> HIDE DEF iter
<1>6. iter[{}] = 0
  BY <1>5, Zenon
<1>7. iter[{1}] = iter[{1} \ {Max({1})}] + s[Max({1})].len
  BY <1>5, <1>2, Zenon
<1>8. {1} \ {1} = {}
  OBVIOUS
<1> HIDE DEF s
<1>9. iter[{1}] = x.len
  BY <1>6, <1>7, <1>8, <1>3, <1>2
<1> QED
  BY <1>1, <1>2, <1>9 DEF s

-----------------------------------------------------------------------------
(* A packet as it is numbered.                                             *)
LEMMA Numbered ==
  ASSUME NEW p \in StreamPackets, NEW n \in Nat
  PROVE  LET q == At(p, n)
         IN /\ q.pid \in Nat /\ q.start \in BOOLEAN /\ q.cc \in Nat /\ q.rai \in BOOLEAN
            /\ q.body.kind = "es" =>
                 /\ q.body.au = n /\ q.body.off \in Nat /\ q.body.len \in 1..payloadSize
                 /\ q.body.pes \in PESHeader
                 /\ q.body.pes.ptsDTS # "none" => q.body.pes.len <= q.body.len
<1>1. /\ p.pid \in Nat /\ p.start \in BOOLEAN /\ p.cc \in Nat /\ p.rai \in BOOLEAN
      /\ p.body.kind = "es" =>
           /\ p.body \in Payload
           /\ p.body.pes.ptsDTS # "none" => p.body.pes.len <= p.body.len
      /\ p \in [pid : Nat, start : BOOLEAN, cc : CC, rai : BOOLEAN,
                fault : {"none", "error", "scrambled"}, body : {p.body}]
  BY StreamPacketsAssumption, CCModAssumption DEF CC
<1>2. CASE p.body.kind # "es"
  BY <1>1, <1>2 DEF At
<1>3. CASE p.body.kind = "es"
  <2> DEFINE b == [p.body EXCEPT !.au = n]
  <2>1. /\ b.kind = "es" /\ b.au = n /\ b.off \in Nat /\ b.len \in 1..payloadSize
        /\ b.pes \in PESHeader
        /\ b.pes.ptsDTS # "none" => b.pes.len <= b.len
    BY <1>1, <1>3 DEF Payload
  <2>2. At(p, n) = [p EXCEPT !.body = b]
    BY <1>1, <1>3 DEF At
  <2> HIDE DEF b
  <2>3. /\ At(p, n).pid = p.pid /\ At(p, n).start = p.start /\ At(p, n).cc = p.cc
        /\ At(p, n).rai = p.rai /\ At(p, n).body = b
    BY <2>2, <1>1
  <2> QED
    BY <2>1, <2>3, <1>1
<1> QED
  BY <1>2, <1>3

(* A packet of a PID that has a track belongs to the last of its tracks.   *)
LEMMA StreamOf ==
  ASSUME NEW n \in Nat, DOMAIN order = 1..n, NEW pid, StreamIndex(pid) # 0
  PROVE  StreamIndex(pid) \in DOMAIN order /\ order[StreamIndex(pid)].pid = pid
<1> DEFINE same == {i \in DOMAIN order : order[i].pid = pid}
<1>1. same # {} /\ StreamIndex(pid) = CHOOSE i \in same : \A j \in same : j <= i
  BY DEF StreamIndex
<1>2. \E i \in same : \A j \in same : j <= i
  BY <1>1, LargestNumber
<1>3. StreamIndex(pid) \in same
  BY <1>1, <1>2
<1> QED
  BY <1>3

LEMMA ExtendInt ==
  ASSUME NEW r \in Int, NEW v \in Int
  PROVE  extendTimestamp(r, v) \in Int
<1>1. r % Wrap \in Int
  BY WrapAssumption
<1> QED
  BY <1>1, WrapAssumption DEF extendTimestamp, Half

-----------------------------------------------------------------------------
(* What the steps of handleES do with a stream.                            *)
LEMMA NoneBounded == Bounded(<< >>)
  BY PieceLenNone, MaxAUSizeAssumption DEF Bounded

LEMMA AfterCCKeeps ==
  ASSUME NEW P, NEW s \in Stream(P), NEW p, p.cc \in Nat
  PROVE  LET t == AfterCC(s, p)
         IN /\ t \in Stream(P)
            /\ t.pid = s.pid /\ t.cur = s.cur /\ t.rai = s.rai
            /\ t.cc = p.cc /\ t.hasCC
            /\ t.collecting => /\ s.collecting /\ t.mem = s.mem
                               /\ s.hasCC => p.cc = NextCC(s.cc)
            /\ \A b \in {0, 1} : t.mem[b] = s.mem[b] \/ t.mem[b] = << >>
<1> DEFINE gap == s.hasCC /\ p.cc # NextCC(s.cc)
           u == IF gap THEN [s EXCEPT !.mem[s.cur] = << >>, !.collecting = FALSE] ELSE s
<1>1. AfterCC(s, p) = [u EXCEPT !.cc = p.cc, !.hasCC = TRUE]
  BY DEF AfterCC
<1>2. << >> \in Seq(Chunk)
  OBVIOUS
<1>3. u \in Stream(P)
  BY <1>2 DEF Stream
<1>4. /\ u.pid = s.pid /\ u.cur = s.cur /\ u.rai = s.rai
      /\ u.collecting => s.collecting /\ u.mem = s.mem /\ ~gap
      /\ \A b \in {0, 1} : u.mem[b] = s.mem[b] \/ u.mem[b] = << >>
  BY DEF Stream
<1> HIDE DEF u
<1>5. AfterCC(s, p) \in Stream(P)
  BY <1>1, <1>3 DEF Stream
<1>6. /\ AfterCC(s, p).pid = u.pid /\ AfterCC(s, p).cur = u.cur /\ AfterCC(s, p).rai = u.rai
      /\ AfterCC(s, p).collecting = u.collecting /\ AfterCC(s, p).mem = u.mem
      /\ AfterCC(s, p).cc = p.cc /\ AfterCC(s, p).hasCC = TRUE
  BY <1>1, <1>3 DEF Stream
<1> QED
  BY <1>4, <1>5, <1>6

LEMMA FinishKeeps ==
  ASSUME NEW P, NEW s \in Stream(P)
  PROVE  LET f == Finish(s)
             u == f.stream
         IN /\ u \in Stream(P) /\ u.pid = s.pid /\ ~u.collecting
            /\ u.cc = s.cc /\ u.hasCC = s.hasCC
            /\ \A b \in {0, 1} : u.mem[b] = s.mem[b] \/ u.mem[b] = << >>
            /\ f.au # 0 => /\ s.collecting /\ s.mem[s.cur] # << >>
                           /\ f.au = 1 + s.cur /\ u.cur = 1 - s.cur
                           /\ u.mem[s.cur] = s.mem[s.cur]
<1>1. << >> \in Seq(Chunk) /\ 1 - s.cur \in {0, 1} /\ 1 - s.cur # s.cur /\ 1 + s.cur # 0
  BY DEF Stream
<1>2. CASE s.collecting /\ s.mem[s.cur] # << >>
  <2> DEFINE m == [s.mem EXCEPT ![1 - s.cur] = << >>]
             u == [s EXCEPT !.cur = 1 - s.cur, !.mem = m, !.collecting = FALSE]
  <2>1. Finish(s) = [stream |-> u, au |-> 1 + s.cur]
    BY <1>2 DEF Finish, Stream
  <2>2. m \in [{0, 1} -> Seq(Chunk)] /\ m[s.cur] = s.mem[s.cur]
        /\ \A b \in {0, 1} : m[b] = s.mem[b] \/ m[b] = << >>
    BY <1>1 DEF Stream
  <2> HIDE DEF m
  <2>3. /\ u \in Stream(P) /\ u.pid = s.pid /\ ~u.collecting /\ u.mem = m
        /\ u.cc = s.cc /\ u.hasCC = s.hasCC /\ u.cur = 1 - s.cur
    BY <2>2, <1>1 DEF Stream
  <2> HIDE DEF u
  <2> QED
    BY <2>1, <2>2, <2>3, <1>1, <1>2
<1>3. CASE ~(s.collecting /\ s.mem[s.cur] # << >>)
  <2> DEFINE u == [s EXCEPT !.collecting = FALSE]
  <2>1. Finish(s) = [stream |-> u, au |-> 0]
    BY <1>3 DEF Finish
  <2>2. /\ u \in Stream(P) /\ u.pid = s.pid /\ ~u.collecting /\ u.mem = s.mem
        /\ u.cc = s.cc /\ u.hasCC = s.hasCC
    BY DEF Stream
  <2> HIDE DEF u
  <2> QED
    BY <2>1, <2>2
<1> QED
  BY <1>2, <1>3

(* The piece a packet gives, with or without its PES header.               *)
LEMMA PieceOf ==
  ASSUME NEW p, p.body.au \in Nat, p.body.off \in Nat, p.body.len \in 1..payloadSize,
         NEW skip \in Nat
  PROVE  /\ Piece(p, skip) \in Seq(Chunk) /\ Bounded(Piece(p, skip))
         /\ Piece(p, skip) # << >> => /\ Len(Piece(p, skip)) = 1
                                      /\ Piece(p, skip)[1].au = p.body.au
                                      /\ Piece(p, skip) = <<Piece(p, skip)[1]>>
         /\ skip = 0 => Piece(p, skip) # << >>
<1>1. CASE p.body.len > skip
  <2> DEFINE x == [au |-> p.body.au, off |-> p.body.off + skip, len |-> p.body.len - skip]
  <2>1. Piece(p, skip) = <<x>>
    BY <1>1 DEF Piece
  <2>2. x \in Chunk /\ x.au = p.body.au /\ x.len = p.body.len - skip
    BY <1>1 DEF Chunk, payloadSize, packetSize
  <2>3. x.len \in Nat /\ x.len <= payloadSize
    BY <2>2, <1>1 DEF payloadSize, packetSize
  <2> HIDE DEF x
  <2>4. PieceLen(<<x>>) = x.len
    BY <2>3, PieceLenOne
  <2>5. Bounded(<<x>>)
    BY <2>3, <2>4 DEF Bounded
  <2> QED
    BY <2>1, <2>2, <2>5
<1>2. CASE ~(p.body.len > skip)
  <2>1. Piece(p, skip) = << >> /\ skip # 0
    BY <1>2 DEF Piece
  <2> QED
    BY <2>1, NoneBounded
<1> QED
  BY <1>1, <1>2

LEMMA StartUnitKeeps ==
  ASSUME NEW P, NEW s \in Stream(P), ~s.collecting, NEW p, p.rai \in BOOLEAN,
         p.body.au \in Nat, p.body.off \in Nat, p.body.len \in 1..payloadSize,
         p.body.pes \in PESHeader
  PROVE  LET u == StartUnit(s, p)
         IN /\ u \in Stream(P) /\ u.pid = s.pid /\ u.cur = s.cur
            /\ u.cc = s.cc /\ u.hasCC = s.hasCC
            /\ u.mem[1 - s.cur] = s.mem[1 - s.cur]
            /\ u.collecting => /\ p.body.pes.ptsDTS \in {"pts", "both"}
                               /\ u.rai = p.rai
                               /\ u.mem[s.cur] = Piece(p, p.body.pes.len)
            /\ ~u.collecting => u.mem = s.mem
<1> DEFINE hdr == p.body.pes
           dts33 == IF hdr.ptsDTS = "both" THEN hdr.dts ELSE hdr.pts
           dts == extendTimestamp(s.lastTS, dts33)
           pts == extendTimestamp(dts, hdr.pts)
           m == [s.mem EXCEPT ![s.cur] = Piece(p, hdr.len)]
<1>1. hdr.len \in Nat /\ hdr.pts \in Int /\ dts33 \in Int
  BY DEF PESHeader
<1>2. s.lastTS \in Int /\ s.cur \in {0, 1} /\ s.mem \in [{0, 1} -> Seq(Chunk)]
      /\ 1 - s.cur \in {0, 1} /\ 1 - s.cur # s.cur
  BY DEF Stream
<1> HIDE DEF dts33
<1>3. dts \in Int
  BY <1>1, <1>2, ExtendInt
<1> HIDE DEF dts
<1>4. pts \in Int
  BY <1>1, <1>3, ExtendInt
<1> HIDE DEF pts
<1>5. Piece(p, hdr.len) \in Seq(Chunk)
  BY <1>1, PieceOf
<1>6. /\ m \in [{0, 1} -> Seq(Chunk)] /\ m[s.cur] = Piece(p, hdr.len)
      /\ m[1 - s.cur] = s.mem[1 - s.cur]
  BY <1>2, <1>5
<1>7. CASE hdr.ptsDTS \in {"pts", "both"}
  <2> DEFINE u == [s EXCEPT !.lastTS = dts, !.dts = dts, !.pts = pts, !.rai = p.rai,
                            !.mem = m, !.collecting = TRUE]
  <2>1. StartUnit(s, p) = u
    BY <1>7 DEF StartUnit, dts33, dts, pts, m, Stream
  <2> HIDE DEF m
  <2>2. /\ u \in Stream(P) /\ u.pid = s.pid /\ u.cur = s.cur /\ u.mem = m
        /\ u.cc = s.cc /\ u.hasCC = s.hasCC /\ u.rai = p.rai /\ u.collecting = TRUE
    BY <1>3, <1>4, <1>6 DEF Stream
  <2> HIDE DEF u
  <2> QED
    BY <2>1, <2>2, <1>6, <1>7
<1>8. CASE ~(hdr.ptsDTS \in {"pts", "both"})
  <2> DEFINE u == [s EXCEPT !.collecting = FALSE]
  <2>1. StartUnit(s, p) = u
    BY <1>8 DEF StartUnit
  <2>2. /\ u \in Stream(P) /\ u.pid = s.pid /\ u.cur = s.cur /\ u.mem = s.mem
        /\ u.cc = s.cc /\ u.hasCC = s.hasCC /\ ~u.collecting
    BY DEF Stream
  <2> HIDE DEF u
  <2> QED
    BY <2>1, <2>2
<1> QED
  BY <1>7, <1>8

LEMMA ContinueKeeps ==
  ASSUME NEW P, NEW s \in Stream(P), NEW p,
         p.body.au \in Nat, p.body.off \in Nat, p.body.len \in 1..payloadSize
  PROVE  LET u == Continue(s, p)
         IN /\ u \in Stream(P) /\ u.pid = s.pid /\ u.cur = s.cur
            /\ u.cc = s.cc /\ u.hasCC = s.hasCC /\ u.rai = s.rai
            /\ u.collecting => /\ s.collecting
                               /\ u.mem[s.cur] = s.mem[s.cur] \o Piece(p, 0)
            /\ \A b \in {0, 1} : u.mem[b] = s.mem[b] \/ Bounded(u.mem[b])
<1> DEFINE buf == s.mem[s.cur] \o Piece(p, 0)
           long == ~(PieceLen(buf) <= MaxAUSize)
           m == [s.mem EXCEPT ![s.cur] = IF long THEN << >> ELSE buf]
           u == [s EXCEPT !.mem = m, !.collecting = ~long]
<1>1. s.cur \in {0, 1} /\ s.mem \in [{0, 1} -> Seq(Chunk)] /\ s.mem[s.cur] \in Seq(Chunk)
  BY DEF Stream
<1>2. Piece(p, 0) \in Seq(Chunk)
  BY PieceOf
<1>3. buf \in Seq(Chunk)
  BY <1>1, <1>2
<1> HIDE DEF buf
<1>4. CASE ~s.collecting
  <2>1. Continue(s, p) = s
    BY <1>4 DEF Continue
  <2> QED
    BY <2>1, <1>4
<1>5. CASE s.collecting
  <2>1. Continue(s, p) = u
    BY <1>1, <1>5 DEF Continue, Stream, buf
  <2>2. Bounded(IF long THEN << >> ELSE buf)
    <3>1. CASE long
      BY <3>1, NoneBounded
    <3>2. CASE ~long
      BY <3>2 DEF Bounded
    <3> QED
      BY <3>1, <3>2
  <2>3. /\ m \in [{0, 1} -> Seq(Chunk)] /\ (~long => m[s.cur] = buf)
        /\ \A b \in {0, 1} : m[b] = s.mem[b] \/ Bounded(m[b])
    BY <2>2, <1>1, <1>3
  <2> HIDE DEF m, long
  <2>4. /\ u \in Stream(P) /\ u.pid = s.pid /\ u.cur = s.cur /\ u.mem = m
        /\ u.cc = s.cc /\ u.hasCC = s.hasCC /\ u.rai = s.rai /\ u.collecting = ~long
    BY <2>3 DEF Stream
  <2> HIDE DEF u
  <2> QED
    BY <2>1, <2>3, <2>4, <1>5 DEF buf
<1> QED
  BY <1>4, <1>5

-----------------------------------------------------------------------------
(* A step that keeps the tracks and the packets read so far.               *)
Grows ==
  /\ DOMAIN order' = DOMAIN order
  /\ \A i \in DOMAIN order : order'[i].pid = order[i].pid
  /\ Len(seen) \in Nat /\ Len(seen') \in Nat /\ Len(seen) <= Len(seen')
  /\ DOMAIN seen = 1..Len(seen) /\ DOMAIN seen' = 1..Len(seen')
  /\ \A n \in 1..Len(seen) : seen'[n] = seen[n]

LEMMA SameTracks ==
  ASSUME Grows
  PROVE  /\ \A pid : StreamIndex(pid)' = StreamIndex(pid)
         /\ \A p : Relevant(p)' <=> Relevant(p)
<1>1. ASSUME NEW pid
      PROVE  StreamIndex(pid)' = StreamIndex(pid)
  <2> DEFINE S == {i \in DOMAIN order : order[i].pid = pid}
             T == {i \in DOMAIN order' : order'[i].pid = pid}
             LastIn(A) == IF A = {} THEN 0 ELSE CHOOSE i \in A : \A j \in A : j <= i
  <2>1. S = T
    BY DEF Grows
  <2>2. StreamIndex(pid) = LastIn(S)
    BY DEF StreamIndex
  <2>3. StreamIndex(pid)' = LastIn(T)
    BY DEF StreamIndex
  <2> HIDE DEF S, T, LastIn
  <2> QED
    BY <2>1, <2>2, <2>3
<1> QED
  BY <1>1 DEF Relevant, parsePacketHeader

LEMMA CountedKept ==
  ASSUME Grows, NEW pid
  PROVE  /\ Counted(pid) \subseteq 1..Len(seen)
         /\ Counted(pid)' \subseteq 1..Len(seen')
         /\ \A n \in 1..Len(seen) : n \in Counted(pid)' <=> n \in Counted(pid)
<1>1. ASSUME NEW n \in 1..Len(seen)
      PROVE  n \in Counted(pid)' <=> n \in Counted(pid)
  <2>1. n \in DOMAIN seen /\ n \in DOMAIN seen'
    BY DEF Grows
  <2>2. PICK p : p = seen[n] /\ p = seen'[n]
    BY DEF Grows
  <2>3. Relevant(p)' <=> Relevant(p)
    BY SameTracks
  <2>4. n \in Counted(pid) <=> p.pid = pid /\ Relevant(p)
    BY <2>1, <2>2 DEF Counted
  <2>5. n \in Counted(pid)' <=> p.pid = pid /\ Relevant(p)'
    BY <2>1, <2>2 DEF Counted, Relevant, StreamIndex, parsePacketHeader
  <2> QED
    BY <2>3, <2>4, <2>5
<1> QED
  BY <1>1 DEF Counted, Grows

LEMMA FollowsKept ==
  ASSUME Grows, NEW pid, NEW m \in 1..Len(seen), NEW n, Follows(pid, m, n)
  PROVE  Follows(pid, m, n)'
<1>1. n \in Counted(pid) /\ n \in 1..Len(seen) /\ n \in Counted(pid)'
  BY CountedKept DEF Follows
<1>2. seen'[m] = seen[m] /\ seen'[n] = seen[n]
  BY <1>1 DEF Grows
<1>3. ASSUME NEW j \in Counted(pid)' \cap (m + 1)..(n - 1)
      PROVE  seen'[j].cc = seen'[m].cc /\ ~seen'[j].start
  <2>1. j \in 1..Len(seen)
    <3>1. m \in Nat /\ n \in Nat /\ Len(seen) \in Nat /\ n <= Len(seen) /\ m >= 1
      BY <1>1 DEF Grows
    <3> QED
      BY <3>1
  <2>2. j \in Counted(pid) /\ seen'[j] = seen[j]
    BY <2>1, CountedKept DEF Grows
  <2>3. seen[j].cc = seen[m].cc /\ ~seen[j].start
    BY <2>2 DEF Follows, OnlyRepeats
  <2> QED
    BY <2>2, <2>3, <1>2
<1>4. OnlyRepeats(pid, m, n)'
  BY <1>3 DEF OnlyRepeats
<1> QED
  BY <1>1, <1>2, <1>4 DEF Follows

(* All pieces of a run are packets of its PID.                             *)
LEMMA RunCounted ==
  ASSUME NEW pid, NEW d \in Seq(Chunk), NEW rai, NEW s, Run(pid, d, rai, s)
  PROVE  /\ \A k \in DOMAIN d : d[k].au \in Counted(pid)
         /\ s \in Counted(pid) /\ LastOf(d, s) \in Counted(pid)
<1>1. DOMAIN d = 1..Len(d) /\ Len(d) \in Nat
  OBVIOUS
<1>2. ASSUME NEW k \in 1..Len(d)
      PROVE  d[k].au \in Counted(pid)
  <2>1. CASE k = 1
    <3>1. d # << >>
      BY <1>1
    <3> QED
      BY <2>1, <3>1 DEF Run, Follows
  <2>2. CASE k \in 2..Len(d)
    BY <2>2 DEF Run, Follows
  <2> QED
    BY <2>1, <2>2, <1>1
<1>3. s \in Counted(pid)
  BY DEF Run
<1>4. d # << >> => Len(d) \in 1..Len(d)
  BY <1>1
<1> QED
  BY <1>1, <1>2, <1>3, <1>4 DEF LastOf

LEMMA RunKept ==
  ASSUME Grows, NEW pid, NEW d \in Seq(Chunk), NEW rai, NEW s, Run(pid, d, rai, s)
  PROVE  Run(pid, d, rai, s)'
<1>1. DOMAIN d = 1..Len(d) /\ Len(d) \in Nat
  OBVIOUS
<1>2. \A n \in Counted(pid) : /\ n \in 1..Len(seen) /\ n \in Counted(pid)'
                              /\ seen'[n] = seen[n]
  BY CountedKept DEF Grows
<1>3. /\ \A k \in 1..Len(d) : d[k].au \in Counted(pid)
      /\ s \in Counted(pid)
  BY <1>1, RunCounted
<1>4. /\ s \in Counted(pid)' /\ seen'[s] = seen[s]
      /\ seen'[s].start /\ seen'[s].body.pes.ptsDTS \in {"pts", "both"} /\ rai = seen'[s].rai
  BY <1>2, <1>3 DEF Run
<1>5. Bytes(seen[s])' = Bytes(seen[s])
  BY <1>4 DEF Bytes, Piece
<1>6. d # << >> => d[1].au = s \/ (Bytes(seen[s]) = << >> /\ Follows(pid, s, d[1].au)')
  <2>1. d # << >> /\ Follows(pid, s, d[1].au) => Follows(pid, s, d[1].au)'
    BY <1>2, <1>3, FollowsKept
  <2> QED
    BY <2>1 DEF Run
<1>7. ASSUME NEW k \in 2..Len(d)
      PROVE  Follows(pid, d[k-1].au, d[k].au)'
  <2>1. k - 1 \in 1..Len(d)
    BY <1>1
  <2>2. d[k-1].au \in 1..Len(seen)
    BY <2>1, <1>2, <1>3
  <2>3. Follows(pid, d[k-1].au, d[k].au)
    BY DEF Run
  <2> QED
    BY <2>2, <2>3, FollowsKept
<1>8. ASSUME NEW k \in DOMAIN d
      PROVE  <<d[k]>> = Bytes(seen[d[k].au])'
  <2>1. seen'[d[k].au] = seen[d[k].au]
    BY <1>1, <1>2, <1>3
  <2>2. <<d[k]>> = Bytes(seen[d[k].au])
    BY DEF Run
  <2> QED
    BY <2>1, <2>2 DEF Bytes, Piece
<1>9. d = << >> => Bytes(seen[s]) = << >>
  BY DEF Run
<1> QED
  BY <1>4, <1>5, <1>6, <1>7, <1>8, <1>9 DEF Run

(* A packet read that is not of a run's PID, or only repeats its last one. *)
LEMMA RepeatsKept ==
  ASSUME Grows, NEW pid, NEW m \in 1..Len(seen), OnlyRepeats(pid, m, Len(seen) + 1),
         Len(seen') <= Len(seen) + 1,
         Len(seen') = Len(seen) + 1 /\ Len(seen') \in Counted(pid)' =>
           seen'[Len(seen')].cc = seen[m].cc /\ ~seen'[Len(seen')].start
  PROVE  OnlyRepeats(pid, m, Len(seen) + 1)' /\ seen'[m] = seen[m]
<1>1. /\ seen'[m] = seen[m] /\ Len(seen) \in Nat /\ Len(seen') \in Nat
      /\ m \in Nat /\ Len(seen) <= Len(seen')
  <2>1. Len(seen) \in Nat
    BY DEF Grows
  <2>2. m \in Nat
    BY <2>1
  <2> QED
    BY <2>2, ZenonT(60) DEF Grows
<1>2. ASSUME NEW j \in Counted(pid)' \cap (m + 1)..(Len(seen') + 1 - 1)
      PROVE  seen'[j].cc = seen'[m].cc /\ ~seen'[j].start
  <2>1. j \in Nat /\ j <= Len(seen') /\ j >= m + 1
    BY <1>1
  <2>2. CASE j <= Len(seen)
    <3>1. j \in 1..Len(seen)
      BY <2>1, <2>2, <1>1
    <3>2. j \in Counted(pid) /\ seen'[j] = seen[j]
      BY <3>1, CountedKept DEF Grows
    <3>3. j \in (m + 1)..(Len(seen) + 1 - 1)
      BY <2>1, <2>2, <1>1
    <3>4. seen[j].cc = seen[m].cc /\ ~seen[j].start
      BY <3>2, <3>3 DEF OnlyRepeats
    <3> QED
      BY <3>2, <3>4, <1>1
  <2>3. CASE ~(j <= Len(seen))
    <3>1. j = Len(seen') /\ Len(seen') = Len(seen) + 1
      BY <2>1, <2>3, <1>1
    <3> QED
      BY <3>1, <1>1
  <2> QED
    BY <2>2, <2>3
<1> QED
  BY <1>1, <1>2 DEF OnlyRepeats

-----------------------------------------------------------------------------
(* A run begins with the packet just read.                                 *)
LEMMA RunBegins ==
  ASSUME Grows, NEW n, n = Len(seen'), NEW q, seen'[n] = q,
         n \in Counted(q.pid)', q.start, q.body.pes.ptsDTS \in {"pts", "both"},
         NEW d \in Seq(Chunk), d = Piece(q, q.body.pes.len),
         d # << >> => Len(d) = 1 /\ d[1].au = n /\ d = <<d[1]>>
  PROVE  Run(q.pid, d, q.rai, n)' /\ LastOf(d, n) = n
         /\ OnlyRepeats(q.pid, n, Len(seen) + 1)'
<1>1. Bytes(seen[n])' = d
  BY DEF Bytes, Piece
<1>2. LastOf(d, n) = n
  BY DEF LastOf
<1>3. Len(d) \in {0, 1} /\ DOMAIN d = 1..Len(d) /\ (d = << >> => Len(d) = 0)
  OBVIOUS
<1>4. ~\E k \in 2..Len(d) : TRUE
  <2>1. CASE Len(d) = 0
    BY <2>1
  <2>2. CASE Len(d) = 1
    BY <2>2
  <2> QED
    BY <2>1, <2>2, <1>3
<1>5. ASSUME NEW k \in DOMAIN d
      PROVE  k = 1 /\ d # << >>
  <2>1. k \in 1..Len(d)
    BY <1>3
  <2>2. Len(d) = 1
    BY <2>1, <1>3
  <2> QED
    BY <2>1, <2>2, <1>3
<1>6. Run(q.pid, d, q.rai, n)'
  <2>1. d # << >> => d[1].au = n
    OBVIOUS
  <2>2. ASSUME NEW k \in DOMAIN d
        PROVE  <<d[k]>> = Bytes(seen[d[k].au])'
    <3>1. k = 1 /\ d[1].au = n /\ d = <<d[1]>>
      BY <1>5
    <3> QED
      BY <3>1, <1>1 DEF Bytes, Piece
  <2>3. d = << >> => Bytes(seen[n])' = << >>
    BY <1>1
  <2> QED
    BY <2>1, <2>2, <2>3, <1>4 DEF Run
<1>7. OnlyRepeats(q.pid, n, Len(seen) + 1)'
  <2>1. n \in Nat /\ Len(seen') = n
    BY DEF Grows
  <2>2. ~\E j \in (n + 1)..(n + 1 - 1) : TRUE
    BY <2>1
  <2> QED
    BY <2>1, <2>2 DEF OnlyRepeats
<1> QED
  BY <1>2, <1>6, <1>7

(* The pieces d and what a packet without unit start adds.                 *)
Joined(d, q) == d \o Piece(q, 0)

(* A run goes on with the packet just read.                                *)
LEMMA RunGoesOn ==
  ASSUME Grows, NEW n, n = Len(seen'), n = Len(seen) + 1, NEW q, seen'[n] = q,
         n \in Counted(q.pid)', ~q.start,
         NEW d \in Seq(Chunk), NEW rai, NEW s, Run(q.pid, d, rai, s),
         OnlyRepeats(q.pid, LastOf(d, s), Len(seen) + 1),
         q.cc = NextCC(seen[LastOf(d, s)].cc),
         NEW x \in Chunk, Piece(q, 0) = <<x>>, x.au = n,
         NEW e \in Seq(Chunk), e = Joined(d, q)
  PROVE  Run(q.pid, e, rai, s)' /\ LastOf(e, s) = n
         /\ OnlyRepeats(q.pid, n, Len(seen) + 1)'
<1> DEFINE m == LastOf(d, s)
<1>1. /\ Len(d) \in Nat /\ Len(e) = Len(d) + 1 /\ DOMAIN e = 1..Len(e) /\ DOMAIN d = 1..Len(d)
      /\ \A k \in 1..Len(d) : e[k] = d[k]
      /\ e[Len(d) + 1] = x /\ e # << >>
  <2>1. e = d \o <<x>>
    BY DEF Joined
  <2> QED
    BY <2>1
<1>2. LastOf(e, s) = n
  BY <1>1 DEF LastOf
<1>3. OnlyRepeats(q.pid, n, Len(seen) + 1)'
  <2>1. n \in Nat /\ Len(seen') = n
    BY DEF Grows
  <2>2. ~\E j \in (n + 1)..(n + 1 - 1) : TRUE
    BY <2>1
  <2> QED
    BY <2>1, <2>2 DEF OnlyRepeats
<1>4. Run(q.pid, d, rai, s)'
  BY RunKept
<1>5. m \in Counted(q.pid) /\ m \in 1..Len(seen)
  BY RunCounted, CountedKept
<1> HIDE DEF m
<1>6. Follows(q.pid, m, n)'
  <2>1. m \in Nat /\ m < n /\ Len(seen) \in Nat
    <3>1. Len(seen) \in Nat
      BY DEF Grows
    <3> QED
      BY <3>1, <1>5
  <2>2. seen'[m] = seen[m]
    BY <1>5 DEF Grows
  <2>3. ASSUME NEW j \in Counted(q.pid)' \cap (m + 1)..(n - 1)
        PROVE  seen'[j].cc = seen'[m].cc /\ ~seen'[j].start
    <3>1. j \in 1..Len(seen) /\ j \in (m + 1)..(Len(seen) + 1 - 1)
      BY <2>1
    <3>2. j \in Counted(q.pid) /\ seen'[j] = seen[j]
      BY <3>1, CountedKept DEF Grows
    <3>3. OnlyRepeats(q.pid, m, Len(seen) + 1)
      BY DEF m
    <3> QED
      BY <3>1, <3>2, <3>3, <2>2 DEF OnlyRepeats
  <2>4. OnlyRepeats(q.pid, m, n)'
    BY <2>3 DEF OnlyRepeats
  <2>5. q.cc = NextCC(seen'[m].cc)
    BY <2>2 DEF m
  <2> QED
    BY <2>1, <2>4, <2>5 DEF Follows, NextCC
<1>7. e # << >> => e[1].au = s \/ (Bytes(seen[s])' = << >> /\ Follows(q.pid, s, e[1].au)')
  <2>1. CASE d = << >>
    <3>1. e[1] = x /\ m = s
      BY <2>1, <1>1 DEF m, LastOf
    <3>2. Bytes(seen[s])' = << >>
      BY <2>1, <1>4 DEF Run
    <3> QED
      BY <3>1, <3>2, <1>6
  <2>2. CASE d # << >>
    <3>1. e[1] = d[1]
      BY <2>2, <1>1
    <3> QED
      BY <3>1, <2>2, <1>4 DEF Run
  <2> QED
    BY <2>1, <2>2
<1>8. ASSUME NEW k \in 2..Len(e)
      PROVE  Follows(q.pid, e[k-1].au, e[k].au)'
  <2>1. CASE k <= Len(d)
    <3>1. k \in 2..Len(d) /\ k - 1 \in 1..Len(d) /\ k \in 1..Len(d)
      BY <2>1, <1>1
    <3>2. e[k-1] = d[k-1] /\ e[k] = d[k]
      BY <3>1, <1>1
    <3> QED
      BY <3>1, <3>2, <1>4 DEF Run
  <2>2. CASE ~(k <= Len(d))
    <3>1. k = Len(d) + 1 /\ k - 1 = Len(d) /\ Len(d) \in 1..Len(d) /\ d # << >>
      BY <2>2, <1>1
    <3>2. e[k-1].au = m /\ e[k].au = n
      BY <3>1, <1>1 DEF m, LastOf
    <3> QED
      BY <3>2, <1>6
  <2> QED
    BY <2>1, <2>2
<1>9. ASSUME NEW k \in DOMAIN e
      PROVE  <<e[k]>> = Bytes(seen[e[k].au])'
  <2>1. CASE k <= Len(d)
    <3>1. k \in DOMAIN d /\ e[k] = d[k]
      BY <2>1, <1>1
    <3> QED
      BY <3>1, <1>4 DEF Run
  <2>2. CASE ~(k <= Len(d))
    <3>1. e[k] = x
      BY <2>2, <1>1
    <3>2. Bytes(seen[n])' = Piece(q, 0)
      BY DEF Bytes, Piece
    <3> QED
      BY <3>1, <3>2
  <2> QED
    BY <2>1, <2>2
<1> QED
  BY <1>2, <1>3, <1>4, <1>7, <1>8, <1>9, <1>1 DEF Run

-----------------------------------------------------------------------------
(* What a track s makes of a packet q with payload: it becomes u and gives *)
(* out unit a of track i, or none.                                         *)
Handled(P, i, s, q, u, a) ==
  /\ u \in Stream(P) /\ u.pid = s.pid
  /\ \A b \in {0, 1} : Bounded(u.mem[b])
  /\ Duplicate(s, q) => u = s /\ a = NoAU
  /\ ~Duplicate(s, q) => u.cc = q.cc /\ u.hasCC
  /\ ~Duplicate(s, q) /\ q.start =>
       /\ u.collecting => /\ q.body.pes.ptsDTS \in {"pts", "both"}
                          /\ u.rai = q.rai
                          /\ u.mem[u.cur] = Piece(q, q.body.pes.len)
       /\ a.stream # 0 =>
            /\ s.collecting /\ s.mem[s.cur] # << >>
            /\ a.stream = i /\ a.pid = s.pid /\ a.rai = s.rai /\ a.arr = s.cur
            /\ u.mem[s.cur] = s.mem[s.cur]
  /\ ~Duplicate(s, q) /\ ~q.start =>
       /\ a = NoAU
       /\ u.collecting => /\ s.collecting /\ u.rai = s.rai
                          /\ s.hasCC => q.cc = NextCC(s.cc)
                          /\ u.mem[u.cur] = Joined(s.mem[s.cur], q)

LEMMA HandleESKeeps ==
  ASSUME NEW P, NEW i, i # 0, order[i] \in Stream(P), NEW q,
         q.start \in BOOLEAN, q.cc \in Nat, q.rai \in BOOLEAN,
         q.body.au \in Nat, q.body.off \in Nat, q.body.len \in 1..payloadSize,
         q.body.pes \in PESHeader,
         \A b \in {0, 1} : Bounded(order[i].mem[b])
  PROVE  Handled(P, i, order[i], q, HandleES(i, q).stream, HandleES(i, q).unit)
<1> DEFINE s == order[i]
           t == AfterCC(s, q)
           f == Finish(t)
           h == HandleES(i, q)
           u == h.stream
<1>1. /\ t \in Stream(P) /\ t.pid = s.pid /\ t.cur = s.cur /\ t.rai = s.rai
      /\ t.cc = q.cc /\ t.hasCC
      /\ t.collecting => /\ s.collecting /\ t.mem = s.mem
                         /\ s.hasCC => q.cc = NextCC(s.cc)
      /\ \A b \in {0, 1} : t.mem[b] = s.mem[b] \/ t.mem[b] = << >>
  BY AfterCCKeeps
<1>2. \A b \in {0, 1} : Bounded(t.mem[b])
  <2> SUFFICES ASSUME NEW b \in {0, 1} PROVE Bounded(t.mem[b])
    OBVIOUS
  <2>1. CASE t.mem[b] = s.mem[b]
    BY <2>1
  <2>2. CASE t.mem[b] = << >>
    BY <2>2, NoneBounded
  <2> QED
    BY <2>1, <2>2, <1>1
<1>3. CASE Duplicate(s, q)
  <2>1. h = [stream |-> s, unit |-> NoAU]
    BY <1>3 DEF HandleES
  <2> HIDE DEF h
  <2>2. u = s /\ h.unit = NoAU
    BY <2>1
  <2> HIDE DEF u
  <2> QED
    BY <2>2, <1>1, <1>3 DEF u, h, Handled
<1>4. CASE ~Duplicate(s, q) /\ q.start
  <2> DEFINE v == f.stream
             w == StartUnit(v, q)
             a == Unit(i, t, f)
  <2>1. h = [stream |-> w, unit |-> a]
    BY <1>4 DEF HandleES
  <2>2. /\ v \in Stream(P) /\ v.pid = t.pid /\ ~v.collecting
        /\ v.cc = t.cc /\ v.hasCC = t.hasCC
        /\ \A b \in {0, 1} : v.mem[b] = t.mem[b] \/ v.mem[b] = << >>
        /\ f.au # 0 => /\ t.collecting /\ t.mem[t.cur] # << >>
                       /\ f.au = 1 + t.cur /\ v.cur = 1 - t.cur
                       /\ v.mem[t.cur] = t.mem[t.cur]
    <3>1. t \in Stream(P)
      BY <1>1
    <3> HIDE DEF t
    <3>2. v \in Stream(P) /\ v.pid = t.pid /\ ~v.collecting /\ v.cc = t.cc /\ v.hasCC = t.hasCC
      BY <3>1, FinishKeeps
    <3>3. \A b \in {0, 1} : v.mem[b] = t.mem[b] \/ v.mem[b] = << >>
      BY <3>1, FinishKeeps
    <3>4. f.au # 0 => t.collecting /\ t.mem[t.cur] # << >>
      BY <3>1, FinishKeeps
    <3>5. f.au # 0 => /\ f.au = 1 + t.cur /\ v.cur = 1 - t.cur
                      /\ v.mem[t.cur] = t.mem[t.cur]
      BY <3>1, FinishKeeps
    <3> HIDE DEF v, f
    <3> QED
      BY <3>2, <3>3, <3>4, <3>5
  <2>3. a.stream # 0 => /\ f.au # 0 /\ a.stream = i /\ a.pid = t.pid
                        /\ a.rai = t.rai /\ a.arr = f.au - 1
    <3> HIDE DEF t, f
    <3> QED
      BY DEF Unit, NoAU
  <2>4. \A b \in {0, 1} : Bounded(v.mem[b])
    <3> HIDE DEF v
    <3> SUFFICES ASSUME NEW b \in {0, 1} PROVE Bounded(v.mem[b])
      OBVIOUS
    <3>1. CASE v.mem[b] = t.mem[b]
      BY <3>1, <1>2
    <3>2. CASE v.mem[b] = << >>
      BY <3>2, NoneBounded
    <3> QED
      BY <3>1, <3>2, <2>2
  <2> HIDE DEF v
  <2>5. /\ w \in Stream(P) /\ w.pid = v.pid /\ w.cur = v.cur
        /\ w.cc = v.cc /\ w.hasCC = v.hasCC
        /\ w.mem[1 - v.cur] = v.mem[1 - v.cur]
        /\ w.collecting => /\ q.body.pes.ptsDTS \in {"pts", "both"}
                           /\ w.rai = q.rai
                           /\ w.mem[v.cur] = Piece(q, q.body.pes.len)
        /\ ~w.collecting => w.mem = v.mem
    BY <2>2, StartUnitKeeps
  <2> HIDE DEF w, t, f
  <2>6. v.cur \in {0, 1} /\ t.cur \in {0, 1}
    BY <2>2, <1>1 DEF Stream
  <2>7. f.au # 0 => 1 - v.cur = t.cur /\ f.au - 1 = t.cur
    BY <2>2, <2>6
  <2>8. \A b \in {0, 1} : Bounded(w.mem[b])
    <3>1. CASE ~w.collecting
      BY <3>1, <2>4, <2>5
    <3>2. CASE w.collecting
      <4>1. q.body.pes.len \in Nat
        BY DEF PESHeader
      <4>2. Bounded(w.mem[v.cur])
        BY <3>2, <4>1, <2>5, PieceOf
      <4>3. 1 - v.cur \in {0, 1} /\ \A b \in {0, 1} : b = v.cur \/ b = 1 - v.cur
        BY <2>6
      <4>4. Bounded(w.mem[1 - v.cur])
        BY <4>3, <2>4, <2>5
      <4> QED
        BY <4>2, <4>3, <4>4
    <3> QED
      BY <3>1, <3>2
  <2>9. a.stream # 0 => /\ s.collecting /\ s.mem[s.cur] # << >>
                        /\ a.stream = i /\ a.pid = s.pid /\ a.rai = s.rai /\ a.arr = s.cur
                        /\ w.mem[s.cur] = s.mem[s.cur]
    BY <2>2, <2>3, <2>5, <2>7, <1>1
  <2> HIDE DEF a, h, s
  <2>10. u = w /\ h.unit = a
    BY <2>1
  <2> HIDE DEF u
  <2>11. /\ u \in Stream(P) /\ u.pid = s.pid /\ u.cc = q.cc /\ u.hasCC
         /\ u.collecting => /\ q.body.pes.ptsDTS \in {"pts", "both"}
                            /\ u.rai = q.rai
                            /\ u.mem[u.cur] = Piece(q, q.body.pes.len)
    BY <2>2, <2>5, <2>10, <1>1
  <2> QED
    BY <2>8, <2>9, <2>10, <2>11, <1>4 DEF u, h, s, Handled
<1>5. CASE ~Duplicate(s, q) /\ ~q.start
  <2> DEFINE w == Continue(t, q)
  <2>1. h = [stream |-> w, unit |-> NoAU]
    BY <1>5 DEF HandleES
  <2> HIDE DEF t
  <2>2. /\ w \in Stream(P) /\ w.pid = t.pid /\ w.cur = t.cur
        /\ w.cc = t.cc /\ w.hasCC = t.hasCC /\ w.rai = t.rai
        /\ w.collecting => /\ t.collecting
                           /\ w.mem[t.cur] = Joined(t.mem[t.cur], q)
        /\ \A b \in {0, 1} : w.mem[b] = t.mem[b] \/ Bounded(w.mem[b])
    BY <1>1, ContinueKeeps DEF Joined
  <2> HIDE DEF w
  <2>3. \A b \in {0, 1} : Bounded(w.mem[b])
    <3> SUFFICES ASSUME NEW b \in {0, 1} PROVE Bounded(w.mem[b])
      OBVIOUS
    <3>1. CASE w.mem[b] = t.mem[b]
      BY <3>1, <1>2
    <3> QED
      BY <3>1, <2>2
  <2> HIDE DEF h, s
  <2>4. u = w /\ h.unit = NoAU
    BY <2>1
  <2> HIDE DEF u
  <2>5. /\ u \in Stream(P) /\ u.pid = s.pid /\ u.cc = q.cc /\ u.hasCC
        /\ u.collecting => /\ s.collecting /\ u.rai = s.rai
                           /\ s.hasCC => q.cc = NextCC(s.cc)
                           /\ u.mem[u.cur] = Joined(s.mem[s.cur], q)
    BY <2>2, <2>4, <1>1
  <2> QED
    BY <2>3, <2>4, <2>5, <1>5 DEF u, h, s, Handled
<1> QED
  BY <1>3, <1>4, <1>5

(* A track the packet read, if any, leaves alone or repeats to.            *)
LEMMA HoldsRunKept ==
  ASSUME Grows, NEW i \in DOMAIN order, NEW P, order[i] \in Stream(P),
         order'[i] = order[i], HoldsRun(i), Len(seen') <= Len(seen) + 1,
         Len(seen') = Len(seen) + 1 /\ Len(seen') \in Counted(order[i].pid)' =>
           seen'[Len(seen')].cc = order[i].cc /\ ~seen'[Len(seen')].start
  PROVE  HoldsRun(i)'
<1>1. PICK t : t = order[i]
  OBVIOUS
<1>2. PICK d : d = t.mem[t.cur]
  OBVIOUS
<1>3. d \in Seq(Chunk)
  BY <1>1, <1>2 DEF Stream
<1>4. i = StreamIndex(t.pid) /\ t.hasCC
  BY <1>1 DEF HoldsRun
<1>5. PICK s \in DOMAIN seen :
        /\ Run(t.pid, d, t.rai, s)
        /\ t.cc = seen[LastOf(d, s)].cc
        /\ OnlyRepeats(t.pid, LastOf(d, s), Len(seen) + 1)
  BY <1>1, <1>2 DEF HoldsRun
<1>6. PICK m : m = LastOf(d, s)
  OBVIOUS
<1>7. m \in 1..Len(seen)
  BY <1>3, <1>5, <1>6, RunCounted, CountedKept
<1>8. Run(t.pid, d, t.rai, s)'
  BY <1>3, <1>5, RunKept
<1>9. OnlyRepeats(t.pid, m, Len(seen) + 1)' /\ seen'[m] = seen[m]
  <2>1. Len(seen') = Len(seen) + 1 /\ Len(seen') \in Counted(t.pid)' =>
           seen'[Len(seen')].cc = seen[m].cc /\ ~seen'[Len(seen')].start
    BY <1>1, <1>5, <1>6 DEF Counted, Relevant, StreamIndex
  <2> QED
    BY <2>1, <1>5, <1>6, <1>7, RepeatsKept
<1>10. s \in DOMAIN seen'
  <2>1. /\ Len(seen) \in Nat /\ Len(seen') \in Nat /\ Len(seen) <= Len(seen')
        /\ s \in 1..Len(seen)
    BY <1>5 DEF Grows
  <2>2. s \in 1..Len(seen')
    BY <2>1
  <2> QED
    BY <2>2, ZenonT(60) DEF Grows
<1>11. i = StreamIndex(t.pid)'
  BY <1>4, SameTracks
<1>12. order'[i] = t
  BY <1>1
<1> QED
  BY <1>2, <1>4, <1>5, <1>6, <1>8, <1>9, <1>10, <1>11, <1>12, ZenonT(60) DEF HoldsRun, LastOf

-----------------------------------------------------------------------------
Pids == {order[i].pid : i \in DOMAIN order}

LEMMA Lengths ==
  ASSUME Inv
  PROVE  /\ Len(order) \in Nat /\ DOMAIN order = 1..Len(order)
         /\ order \in Seq(Stream(Pids))
         /\ \A i \in DOMAIN order : order[i] \in Stream(Pids)
         /\ Len(seen) \in Nat /\ DOMAIN seen = 1..Len(seen)
<1> DEFINE A == Stream(Pids)
           B == {At(p, n) : p \in StreamPackets, n \in DOMAIN seen}
<1>1. order \in Seq(A) /\ seen \in Seq(B)
  BY DEF Inv, TypeOK, Pids
<1> HIDE DEF A, B
<1>2. /\ Len(order) \in Nat /\ DOMAIN order = 1..Len(order)
      /\ \A i \in DOMAIN order : order[i] \in A
      /\ Len(seen) \in Nat /\ DOMAIN seen = 1..Len(seen)
  BY <1>1
<1> QED
  BY <1>1, <1>2 DEF A

(* The tracks stay what the tables made them.                              *)
LEMMA TablesKept ==
  ASSUME Inv, phase \in {"read", "flush"}, phase' \in {"read", "flush", "eof"},
         pmtPID' = pmtPID, Grows
  PROVE  Looking' /\ ProgramFound' /\ TracksFromTables'
<1>1. Looking'
  BY DEF Looking
<1>2. ProgramFound'
  BY DEF Inv, ProgramFound
<1>3. TracksFromTables'
  <2>1. PICK p \in TablePackets, q \in TablePackets :
          /\ p.pid = pidPAT /\ p.body.kind = "psi" /\ p.body.sec.table = "pat"
          /\ q.pid = pmtPID /\ q.body.kind = "psi" /\ q.body.sec.table = "pmt"
          /\ Programs(p.body.sec) # << >> /\ pmtPID = Programs(p.body.sec)[1].pid
          /\ LET table == q.body.sec.streams
                 want  == {j \in DOMAIN table : table[j].type \in {27, 36}}
             IN /\ want # {} /\ DOMAIN order = 1..Cardinality(want)
                /\ \A k \in DOMAIN order : order[k].pid = table[Nth(want, k)].pid
    BY DEF Inv, TracksFromTables
  <2> DEFINE table == q.body.sec.streams
             want == {j \in DOMAIN table : table[j].type \in {27, 36}}
  <2>2. /\ want # {} /\ DOMAIN order' = 1..Cardinality(want)
        /\ \A k \in DOMAIN order' : order'[k].pid = table[Nth(want, k)].pid
    BY <2>1 DEF Grows
  <2> QED
    BY <2>1, <2>2, ZenonT(60) DEF TracksFromTables
<1> QED
  BY <1>1, <1>2, <1>3

(* The packet read is put at the end of those seen.                        *)
LEMMA SeenGrows ==
  ASSUME Inv, NEW p \in StreamPackets, seen' = Append(seen, At(p, Len(seen) + 1))
  PROVE  /\ Len(seen') = Len(seen) + 1 /\ DOMAIN seen' = 1..Len(seen')
         /\ \A n \in 1..Len(seen) : seen'[n] = seen[n]
         /\ seen'[Len(seen')] = At(p, Len(seen'))
         /\ seen' \in Seq({At(r, n) : r \in StreamPackets, n \in DOMAIN seen'})
         /\ \A n \in DOMAIN seen' : \E r \in StreamPackets : seen'[n] = At(r, n)
<1> DEFINE B == {At(r, n) : r \in StreamPackets, n \in DOMAIN seen}
           C == {At(r, n) : r \in StreamPackets, n \in DOMAIN seen'}
           x == At(p, Len(seen) + 1)
<1>1. seen \in Seq(B) /\ (\A n \in DOMAIN seen : \E r \in StreamPackets : seen[n] = At(r, n))
  BY DEF Inv, TypeOK
<1> HIDE DEF B, x
<1>2. /\ Len(seen) \in Nat /\ DOMAIN seen = 1..Len(seen)
      /\ Len(seen') = Len(seen) + 1 /\ DOMAIN seen' = 1..Len(seen')
      /\ \A n \in 1..Len(seen) : seen'[n] = seen[n]
      /\ seen'[Len(seen')] = x
      /\ seen' = [n \in 1..Len(seen') |-> seen'[n]]
  BY <1>1 DEF x
<1>3. seen'[Len(seen')] = At(p, Len(seen'))
  BY <1>2 DEF x
<1>4. ASSUME NEW n \in DOMAIN seen'
      PROVE  \E r \in StreamPackets : seen'[n] = At(r, n)
  <2>1. CASE n = Len(seen')
    BY <2>1, <1>3
  <2>2. CASE n # Len(seen')
    <3>1. n \in 1..Len(seen)
      BY <2>2, <1>2
    <3> QED
      BY <3>1, <1>1, <1>2
  <2> QED
    BY <2>1, <2>2
<1>5. \A n \in 1..Len(seen') : seen'[n] \in C
  BY <1>2, <1>4
<1> HIDE DEF C
<1>6. seen' \in Seq(C)
  <2>1. Len(seen') \in Nat
    BY <1>2
  <2>2. seen' \in [1..Len(seen') -> C]
    BY <1>2, <1>5
  <2> QED
    BY <2>1, <2>2, FunctionSeq
<1> QED
  BY <1>2, <1>3, <1>4, <1>6 DEF C

(* One track may change, and keeps its PID.                                *)
LEMMA OneTrack ==
  ASSUME Inv, NEW i \in DOMAIN order, NEW u \in Stream(Pids), u.pid = order[i].pid,
         order' = [order EXCEPT ![i] = u]
  PROVE  /\ DOMAIN order' = DOMAIN order
         /\ order'[i] = u /\ \A j \in DOMAIN order : j # i => order'[j] = order[j]
         /\ \A j \in DOMAIN order : order'[j].pid = order[j].pid
         /\ order' \in Seq(Stream({order'[j].pid : j \in DOMAIN order'}))
<1>1. /\ Len(order) \in Nat /\ DOMAIN order = 1..Len(order)
      /\ \A j \in DOMAIN order : order[j] \in Stream(Pids)
      /\ order \in Seq(Stream(Pids))
  BY Lengths
<1>2. /\ DOMAIN order' = DOMAIN order
      /\ order'[i] = u /\ \A j \in DOMAIN order : j # i => order'[j] = order[j]
  BY <1>1
<1>3. \A j \in DOMAIN order : order'[j].pid = order[j].pid
  BY <1>2
<1>4. {order'[j].pid : j \in DOMAIN order'} = Pids
  BY <1>2, <1>3 DEF Pids
<1> DEFINE A == Stream(Pids)
<1>5. \A j \in 1..Len(order) : order'[j] \in A
  BY <1>1, <1>2
<1> HIDE DEF A
<1>6. order' \in Seq(A)
  <2>1. order' \in [1..Len(order) -> A]
    BY <1>1, <1>5
  <2> QED
    BY <2>1, <1>1, FunctionSeq
<1> QED
  BY <1>2, <1>3, <1>4, <1>6 DEF A

-----------------------------------------------------------------------------
(* A packet that handleES takes.                                           *)
LEMMA ReadESPacketKeeps ==
  ASSUME Inv, NEW p \in StreamPackets, NEW q, q = At(p, Len(seen) + 1),
         ReadESPacket(q), seen' = Append(seen, q)
  PROVE  Inv'
<1>1. PICK n : n = Len(seen')
  OBVIOUS
<1>2. PICK i : i = StreamIndex(q.pid)
  OBVIOUS
<1>3. PICK s : s = order[i]
  OBVIOUS
<1>4. PICK u : u = HandleES(i, q).stream
  OBVIOUS
<1>5. PICK a : a = HandleES(i, q).unit
  OBVIOUS
<1>6. /\ Len(order) \in Nat /\ DOMAIN order = 1..Len(order)
      /\ \A j \in DOMAIN order : order[j] \in Stream(Pids)
      /\ Len(seen) \in Nat /\ DOMAIN seen = 1..Len(seen)
  BY Lengths
<1>7. /\ n = Len(seen) + 1 /\ DOMAIN seen' = 1..n
      /\ \A k \in 1..Len(seen) : seen'[k] = seen[k]
      /\ seen'[n] = q
      /\ seen' \in Seq({At(r, k) : r \in StreamPackets, k \in DOMAIN seen'})
      /\ \A k \in DOMAIN seen' : \E r \in StreamPackets : seen'[k] = At(r, k)
  BY <1>1, SeenGrows
<1>8. /\ phase = "read" /\ phase' = "read" /\ pmtPID' = pmtPID /\ flushIdx' = flushIdx
      /\ Relevant(q) /\ order' = [order EXCEPT ![i] = u] /\ returned' = a
  BY <1>2, <1>4, <1>5 DEF ReadESPacket
<1>9. i # 0 /\ q.body.kind = "es"
  BY <1>2, <1>8 DEF Relevant
<1>10. i \in DOMAIN order /\ order[i].pid = q.pid
  BY <1>2, <1>6, <1>9, StreamOf
<1>11. n \in Nat /\ n \in 1..n
  BY <1>6, <1>7
<1>12. /\ q.start \in BOOLEAN /\ q.cc \in Nat /\ q.rai \in BOOLEAN
       /\ q.body.au = n /\ q.body.off \in Nat /\ q.body.len \in 1..payloadSize
       /\ q.body.pes \in PESHeader
  BY <1>7, <1>9, <1>11, Numbered
<1>13. s \in Stream(Pids) /\ \A b \in {0, 1} : Bounded(s.mem[b])
  BY <1>3, <1>6, <1>10 DEF Inv, BufferBounded
<1>14. Handled(Pids, i, s, q, u, a)
  <2>1. /\ order[i] \in Stream(Pids) /\ \A b \in {0, 1} : Bounded(order[i].mem[b])
        /\ q.body.au \in Nat
    BY <1>3, <1>11, <1>12, <1>13
  <2>2. Handled(Pids, i, order[i], q, HandleES(i, q).stream, HandleES(i, q).unit)
    BY <2>1, <1>9, <1>12, HandleESKeeps
  <2> QED
    BY <2>2, <1>3, <1>4, <1>5
<1>15. /\ DOMAIN order' = DOMAIN order
       /\ order'[i] = u /\ \A j \in DOMAIN order : j # i => order'[j] = order[j]
       /\ \A j \in DOMAIN order : order'[j].pid = order[j].pid
       /\ order' \in Seq(Stream({order'[j].pid : j \in DOMAIN order'}))
  BY <1>3, <1>8, <1>10, <1>14, OneTrack DEF Handled
<1>16. Grows
  BY <1>1, <1>6, <1>7, <1>11, <1>15 DEF Grows
<1>17. TypeOK'
  BY <1>7, <1>8, <1>15 DEF Inv, TypeOK
<1>18. Looking' /\ ProgramFound' /\ TracksFromTables'
  BY <1>8, <1>16, TablesKept
<1>19. BufferBounded'
  <2> SUFFICES ASSUME NEW j \in DOMAIN order', NEW b \in {0, 1}
               PROVE  Bounded(order'[j].mem[b])
    BY DEF BufferBounded
  <2>1. CASE j = i
    BY <2>1, <1>14, <1>15 DEF Handled
  <2>2. CASE j # i
    BY <2>2, <1>15 DEF Inv, BufferBounded
  <2> QED
    BY <2>1, <2>2
<1>20. n \in Counted(q.pid)'
  <2>1. Relevant(q)'
    BY <1>8, <1>16, SameTracks
  <2> QED
    BY <2>1, <1>7, <1>11 DEF Counted, Relevant, StreamIndex, parsePacketHeader
<1>21. \A pid : n \in Counted(pid)' => pid = q.pid
  BY <1>7 DEF Counted
<1>22. s.collecting => s.hasCC /\ i = StreamIndex(s.pid) /\ HoldsRun(i)
  BY <1>3, <1>10 DEF Inv, Collects, HoldsRun
<1>23. Collects'
  <2> SUFFICES ASSUME NEW j \in DOMAIN order', order'[j].collecting
               PROVE  HoldsRun(j)'
    BY DEF Collects
  <2>1. CASE j # i
    <3>1. order'[j] = order[j] /\ j \in DOMAIN order /\ HoldsRun(j)
      BY <2>1, <1>15 DEF Inv, Collects
    <3>2. order[j].pid # q.pid
      BY <2>1, <3>1, <1>2 DEF HoldsRun
    <3>3. ~(Len(seen') \in Counted(order[j].pid)')
      <4>1. PICK pid : pid = order[j].pid /\ pid = order'[j].pid
        BY <3>1
      <4>2. ~(n \in Counted(pid)')
        BY <4>1, <3>2, <1>21
      <4> QED
        BY <4>1, <4>2, <1>1 DEF Counted, Relevant, StreamIndex
    <3> QED
      BY <3>1, <3>3, <1>1, <1>6, <1>7, <1>16, HoldsRunKept
  <2>2. CASE j = i /\ Duplicate(s, q)
    <3>1. order'[i] = order[i] /\ HoldsRun(i)
      BY <2>2, <1>3, <1>14, <1>15, <1>22 DEF Handled
    <3>2. seen'[Len(seen')].cc = order[i].cc /\ ~seen'[Len(seen')].start
      BY <2>2, <1>1, <1>3, <1>7 DEF Duplicate
    <3> QED
      BY <2>2, <3>1, <3>2, <1>1, <1>6, <1>7, <1>10, <1>16, HoldsRunKept
  <2>3. CASE j = i /\ ~Duplicate(s, q)
    <3>1. u.collecting /\ u.cc = q.cc /\ u.hasCC
      BY <2>3, <1>14, <1>15 DEF Handled
    <3>2. PICK d : d = u.mem[u.cur]
      OBVIOUS
    <3>3. d \in Seq(Chunk)
      BY <3>2, <1>14 DEF Stream, Handled
    <3>4. \E r \in 1..n : /\ Run(q.pid, d, u.rai, r)' /\ LastOf(d, r) = n
                          /\ OnlyRepeats(q.pid, n, Len(seen) + 1)'
      <4>1. CASE q.start
        <5>1. /\ q.body.pes.ptsDTS \in {"pts", "both"} /\ u.rai = q.rai
              /\ d = Piece(q, q.body.pes.len)
          BY <4>1, <2>3, <3>1, <3>2, <1>14 DEF Handled
        <5>2. q.body.pes.len \in Nat
          BY <1>12 DEF PESHeader
        <5>3. d # << >> => Len(d) = 1 /\ d[1].au = n /\ d = <<d[1]>>
          BY <5>1, <5>2, <1>11, <1>12, PieceOf
        <5> QED
          BY <4>1, <5>1, <5>3, <3>3, <1>1, <1>7, <1>11, <1>16, <1>20, RunBegins, ZenonT(60)
      <4>2. CASE ~q.start
        <5> DEFINE c == s.mem[s.cur]
        <5>1. /\ s.collecting /\ u.rai = s.rai /\ q.cc = NextCC(s.cc)
              /\ d = Joined(c, q)
          BY <4>2, <2>3, <3>1, <3>2, <1>14, <1>22 DEF Handled
        <5>2. PICK x : Piece(q, 0) = <<x>> /\ x.au = n /\ x \in Chunk
          <6> DEFINE y == Piece(q, 0)
          <6>1. q.body.au \in Nat /\ 0 \in Nat
            BY <1>11, <1>12
          <6>2. y \in Seq(Chunk) /\ y # << >>
            BY <6>1, <1>12, PieceOf
          <6>3. Len(y) = 1 /\ y[1].au = q.body.au /\ y = <<y[1]>>
            BY <6>1, <6>2, <1>12, PieceOf
          <6> HIDE DEF y
          <6>4. y[1] \in Chunk
            BY <6>2, <6>3
          <6> QED
            BY <6>3, <6>4, <1>12 DEF y
        <5>3. c \in Seq(Chunk)
          BY <1>13 DEF Stream
        <5>4. PICK r \in DOMAIN seen :
                /\ Run(q.pid, c, s.rai, r)
                /\ s.cc = seen[LastOf(c, r)].cc
                /\ OnlyRepeats(q.pid, LastOf(c, r), Len(seen) + 1)
          BY <5>1, <1>3, <1>10, <1>22 DEF HoldsRun
        <5> HIDE DEF c
        <5>5. r \in 1..n
          <6>1. r \in 1..Len(seen)
            BY <5>4, <1>6
          <6> QED
            BY <6>1, <1>6, <1>7
        <5>6. /\ Run(q.pid, d, s.rai, r)' /\ LastOf(d, r) = n
              /\ OnlyRepeats(q.pid, n, Len(seen) + 1)'
          <6>1. q.cc = NextCC(seen[LastOf(c, r)].cc)
            BY <5>1, <5>4
          <6>2. d = Joined(c, q)
            BY <5>1
          <6>3. n = Len(seen) + 1 /\ seen'[n] = q
            BY <1>7
          <6>4. Run(q.pid, c, s.rai, r) /\ OnlyRepeats(q.pid, LastOf(c, r), Len(seen) + 1)
            BY <5>4
          <6> QED
            BY <4>2, <5>2, <5>3, <6>1, <6>2, <6>3, <6>4, <3>3, <1>1, <1>16, <1>20, RunGoesOn
        <5> QED
          BY <5>1, <5>5, <5>6
      <4> QED
        BY <4>1, <4>2, <1>12
    <3>5. PICK r \in 1..n : /\ Run(q.pid, d, u.rai, r)' /\ LastOf(d, r) = n
                            /\ OnlyRepeats(q.pid, n, Len(seen) + 1)'
      BY <3>4
    <3>6. order'[i] = u /\ u.pid = q.pid /\ i = StreamIndex(q.pid)'
      BY <1>2, <1>3, <1>10, <1>14, <1>15, <1>16, SameTracks DEF Handled
    <3>7. u.cc = seen'[LastOf(d, r)].cc /\ r \in DOMAIN seen'
      BY <3>1, <3>5, <1>7
    <3>8. OnlyRepeats(q.pid, LastOf(d, r), Len(seen) + 1)'
      BY <3>5 DEF LastOf
    <3>9. HoldsRun(i)'
      BY <3>1, <3>2, <3>5, <3>6, <3>7, <3>8, ZenonT(60) DEF HoldsRun, LastOf
    <3> QED
      BY <2>3, <3>9
  <2> QED
    BY <2>1, <2>2, <2>3
<1>24. DataIsOneRun'
  <2> SUFFICES ASSUME a.stream # 0
               PROVE  /\ Data(returned)' # << >>
                      /\ \E r \in DOMAIN seen' :
                           Run(returned.pid, Data(returned), returned.rai, r)'
    BY <1>8 DEF DataIsOneRun
  <2> DEFINE c == s.mem[s.cur]
  <2>1. /\ s.collecting /\ c # << >>
        /\ a.stream = i /\ a.pid = s.pid /\ a.rai = s.rai /\ a.arr = s.cur
        /\ u.mem[s.cur] = c
    <3>1. NoAU.stream = 0
      BY DEF NoAU
    <3>2. ~Duplicate(s, q) /\ q.start
      BY <3>1, <1>12, <1>14 DEF Handled
    <3> QED
      BY <3>2, <1>14 DEF Handled
  <2>2. Data(returned)' = c
    BY <2>1, <1>8, <1>15 DEF Data
  <2>3. c \in Seq(Chunk)
    BY <1>13 DEF Stream
  <2>4. PICK r \in DOMAIN seen : Run(s.pid, c, s.rai, r)
    BY <2>1, <1>3, <1>10, <1>22 DEF HoldsRun
  <2> HIDE DEF c
  <2>5. Run(s.pid, c, s.rai, r)'
    BY <2>3, <2>4, <1>16, RunKept
  <2>6. r \in DOMAIN seen'
    <3>1. r \in 1..Len(seen)
      BY <2>4, <1>6
    <3>2. r \in 1..n
      BY <3>1, <1>6, <1>7
    <3> QED
      BY <3>2, <1>7
  <2>7. returned'.pid = s.pid /\ returned'.rai = s.rai
    BY <2>1, <1>8
  <2> QED
    BY <2>1, <2>2, <2>5, <2>6, <2>7
<1> QED
  BY <1>17, <1>18, <1>19, <1>23, <1>24 DEF Inv

(* A packet that is passed over.                                           *)
LEMMA SkipPacketKeeps ==
  ASSUME Inv, NEW p \in StreamPackets, NEW q, q = At(p, Len(seen) + 1),
         SkipPacket(q), seen' = Append(seen, q)
  PROVE  Inv'
<1>1. /\ Len(order) \in Nat /\ DOMAIN order = 1..Len(order)
      /\ \A j \in DOMAIN order : order[j] \in Stream(Pids)
      /\ Len(seen) \in Nat /\ DOMAIN seen = 1..Len(seen)
  BY Lengths
<1>2. /\ Len(seen') = Len(seen) + 1 /\ DOMAIN seen' = 1..Len(seen')
      /\ \A k \in 1..Len(seen) : seen'[k] = seen[k]
      /\ seen'[Len(seen')] = q
      /\ seen' \in Seq({At(r, k) : r \in StreamPackets, k \in DOMAIN seen'})
      /\ \A k \in DOMAIN seen' : \E r \in StreamPackets : seen'[k] = At(r, k)
  BY SeenGrows
<1>3. /\ phase = "read" /\ phase' = "read" /\ pmtPID' = pmtPID /\ flushIdx' = flushIdx
      /\ ~Relevant(q) /\ order' = order /\ returned' = NoAU
  BY DEF SkipPacket
<1>4. Grows
  BY <1>1, <1>2, <1>3 DEF Grows
<1>5. TypeOK'
  BY <1>2, <1>3 DEF Inv, TypeOK
<1>6. Looking' /\ ProgramFound' /\ TracksFromTables'
  BY <1>3, <1>4, TablesKept
<1>7. BufferBounded'
  BY <1>3 DEF Inv, BufferBounded
<1>8. DataIsOneRun'
  BY <1>3 DEF DataIsOneRun, NoAU
<1>9. ~Relevant(q)'
  BY <1>3, <1>4, SameTracks
<1>10. \A pid : ~(Len(seen') \in Counted(pid)')
  BY <1>2, <1>9 DEF Counted, Relevant, StreamIndex, parsePacketHeader
<1>11. Collects'
  <2> SUFFICES ASSUME NEW j \in DOMAIN order', order'[j].collecting
               PROVE  HoldsRun(j)'
    BY DEF Collects
  <2>1. order'[j] = order[j] /\ j \in DOMAIN order /\ HoldsRun(j)
    BY <1>3 DEF Inv, Collects
  <2>2. ~(Len(seen') \in Counted(order[j].pid)')
    <3>1. PICK pid : pid = order[j].pid /\ pid = order'[j].pid
      BY <2>1
    <3>2. ~(Len(seen') \in Counted(pid)')
      BY <1>10
    <3> QED
      BY <3>1, <3>2 DEF Counted, Relevant, StreamIndex
  <2> QED
    BY <2>1, <2>2, <1>1, <1>2, <1>4, HoldsRunKept
<1> QED
  BY <1>5, <1>6, <1>7, <1>8, <1>11 DEF Inv

(* Reading and flushing is over, or begins to be.                          *)
LEMMA NothingCollected ==
  ASSUME Inv, phase \in {"read", "flush"}, phase' \in {"read", "flush", "eof"},
         pmtPID' = pmtPID, flushIdx' = flushIdx, order' = order, returned' = NoAU,
         UNCHANGED seen
  PROVE  Inv'
<1>1. /\ Len(order) \in Nat /\ DOMAIN order = 1..Len(order)
      /\ \A j \in DOMAIN order : order[j] \in Stream(Pids)
      /\ Len(seen) \in Nat /\ DOMAIN seen = 1..Len(seen)
  BY Lengths
<1>2. Grows
  BY <1>1 DEF Grows
<1>3. TypeOK'
  BY DEF Inv, TypeOK
<1>4. Looking' /\ ProgramFound' /\ TracksFromTables'
  BY <1>2, TablesKept
<1>5. BufferBounded'
  BY DEF Inv, BufferBounded
<1>6. DataIsOneRun'
  BY DEF DataIsOneRun, NoAU
<1>7. Collects'
  <2> SUFFICES ASSUME NEW j \in DOMAIN order', order'[j].collecting
               PROVE  HoldsRun(j)'
    BY DEF Collects
  <2>1. order'[j] = order[j] /\ j \in DOMAIN order /\ HoldsRun(j)
    BY DEF Inv, Collects
  <2>2. Len(seen') # Len(seen) + 1 /\ Len(seen') <= Len(seen) + 1
    <3>1. PICK n \in Nat : n = Len(seen)
      BY <1>1
    <3>2. Len(seen') = n
      BY <3>1
    <3>3. n # n + 1 /\ n <= n + 1
      OBVIOUS
    <3> QED
      BY <3>1, <3>2, <3>3
  <2> QED
    BY <2>1, <2>2, <1>1, <1>2, HoldsRunKept
<1> QED
  BY <1>3, <1>4, <1>5, <1>6, <1>7 DEF Inv

(* Nothing was found when the input ended in the tables.                   *)
LEMMA ReadEOFKeeps ==
  ASSUME Inv, ReadEOF, UNCHANGED seen
  PROVE  Inv'
<1>1. CASE phase = "read"
  BY <1>1, NothingCollected DEF ReadEOF
<1>2. CASE phase \in {"pat", "pmt"}
  <2>1. phase' = "failed" /\ order = << >> /\ order' = << >> /\ seen' = << >> /\ returned' = NoAU
    BY <1>2 DEF ReadEOF, Inv, Looking
  <2>2. TypeOK'
    BY <2>1 DEF Inv, TypeOK, ReadEOF
  <2>3. Looking' /\ ProgramFound' /\ TracksFromTables'
    BY <2>1 DEF Looking, ProgramFound, TracksFromTables
  <2>4. Collects' /\ BufferBounded'
    BY <2>1 DEF Collects, BufferBounded
  <2>5. DataIsOneRun'
    BY <2>1 DEF DataIsOneRun, NoAU
  <2> QED
    BY <2>2, <2>3, <2>4, <2>5 DEF Inv
<1> QED
  BY <1>1, <1>2 DEF ReadEOF

LEMMA ReportEOFKeeps ==
  ASSUME Inv, ReportEOF, UNCHANGED seen
  PROVE  Inv'
BY NothingCollected DEF ReportEOF

(* One track is flushed.                                                   *)
LEMMA FlushKeeps ==
  ASSUME Inv, Flush, UNCHANGED seen
  PROVE  Inv'
<1>1. PICK i : i = flushIdx + 1
  OBVIOUS
<1>2. PICK s : s = order[i]
  OBVIOUS
<1>3. PICK f : f = Finish(s)
  OBVIOUS
<1>4. PICK u : u = f.stream
  OBVIOUS
<1>5. PICK a : a = Unit(i, s, f)
  OBVIOUS
<1>6. /\ Len(order) \in Nat /\ DOMAIN order = 1..Len(order)
      /\ \A j \in DOMAIN order : order[j] \in Stream(Pids)
      /\ Len(seen) \in Nat /\ DOMAIN seen = 1..Len(seen)
  BY Lengths
<1>7. /\ phase = "flush" /\ phase' = "flush" /\ pmtPID' = pmtPID /\ flushIdx' = i
      /\ flushIdx < Len(order) /\ order' = [order EXCEPT ![i] = u] /\ returned' = a
  BY <1>1, <1>2, <1>3, <1>4, <1>5 DEF Flush
<1>8. i \in Nat /\ i \in DOMAIN order
  <2>1. flushIdx \in Nat
    BY DEF Inv, TypeOK
  <2>2. i \in 1..Len(order) /\ i \in Nat
    BY <2>1, <1>1, <1>6, <1>7
  <2> QED
    BY <2>2, <1>6
<1>9. s \in Stream(Pids) /\ \A b \in {0, 1} : Bounded(s.mem[b])
  BY <1>2, <1>6, <1>8 DEF Inv, BufferBounded
<1>10. /\ u \in Stream(Pids) /\ u.pid = s.pid /\ ~u.collecting
       /\ \A b \in {0, 1} : u.mem[b] = s.mem[b] \/ u.mem[b] = << >>
  BY <1>3, <1>4, <1>9, FinishKeeps
<1>11. f.au # 0 => /\ s.collecting /\ s.mem[s.cur] # << >>
                   /\ f.au = 1 + s.cur /\ u.mem[s.cur] = s.mem[s.cur]
  BY <1>3, <1>4, <1>9, FinishKeeps
<1>12. /\ DOMAIN order' = DOMAIN order
       /\ order'[i] = u /\ \A j \in DOMAIN order : j # i => order'[j] = order[j]
       /\ \A j \in DOMAIN order : order'[j].pid = order[j].pid
       /\ order' \in Seq(Stream({order'[j].pid : j \in DOMAIN order'}))
  BY <1>2, <1>7, <1>8, <1>10, OneTrack
<1>13. Grows
  BY <1>6, <1>12 DEF Grows
<1>14. TypeOK'
  BY <1>7, <1>8, <1>12 DEF Inv, TypeOK
<1>15. Looking' /\ ProgramFound' /\ TracksFromTables'
  BY <1>7, <1>13, TablesKept
<1>16. BufferBounded'
  <2> SUFFICES ASSUME NEW j \in DOMAIN order', NEW b \in {0, 1}
               PROVE  Bounded(order'[j].mem[b])
    BY DEF BufferBounded
  <2>1. CASE j = i /\ u.mem[b] = s.mem[b]
    BY <2>1, <1>9, <1>12
  <2>2. CASE j = i /\ u.mem[b] = << >>
    BY <2>2, <1>12, NoneBounded
  <2>3. CASE j # i
    BY <2>3, <1>12 DEF Inv, BufferBounded
  <2> QED
    BY <2>1, <2>2, <2>3, <1>10
<1>17. Collects'
  <2> SUFFICES ASSUME NEW j \in DOMAIN order', order'[j].collecting
               PROVE  HoldsRun(j)'
    BY DEF Collects
  <2>1. j # i
    BY <1>10, <1>12
  <2>2. order'[j] = order[j] /\ j \in DOMAIN order /\ HoldsRun(j)
    BY <2>1, <1>12 DEF Inv, Collects
  <2>3. Len(seen') # Len(seen) + 1 /\ Len(seen') <= Len(seen) + 1
    <3>1. PICK n \in Nat : n = Len(seen)
      BY <1>6
    <3>2. Len(seen') = n
      BY <3>1
    <3>3. n # n + 1 /\ n <= n + 1
      OBVIOUS
    <3> QED
      BY <3>1, <3>2, <3>3
  <2> QED
    BY <2>2, <2>3, <1>6, <1>13, HoldsRunKept
<1>18. DataIsOneRun'
  <2> SUFFICES ASSUME a.stream # 0
               PROVE  /\ Data(returned)' # << >>
                      /\ \E r \in DOMAIN seen' :
                           Run(returned.pid, Data(returned), returned.rai, r)'
    BY <1>7 DEF DataIsOneRun
  <2> DEFINE c == s.mem[s.cur]
  <2>1. f.au # 0 /\ a.stream = i /\ a.pid = s.pid /\ a.rai = s.rai /\ a.arr = f.au - 1
    BY <1>5 DEF Unit, NoAU
  <2>2. s.cur \in {0, 1}
    BY <1>9 DEF Stream
  <2>3. s.collecting /\ c # << >> /\ a.arr = s.cur /\ u.mem[s.cur] = c
    BY <2>1, <2>2, <1>11
  <2>4. Data(returned)' = c
    BY <2>1, <2>3, <1>7, <1>12 DEF Data
  <2>5. c \in Seq(Chunk)
    BY <1>9 DEF Stream
  <2>6. PICK r \in DOMAIN seen : Run(s.pid, c, s.rai, r)
    BY <2>3, <1>2, <1>8 DEF Inv, Collects, HoldsRun
  <2> HIDE DEF c
  <2>7. Run(s.pid, c, s.rai, r)'
    BY <2>5, <2>6, <1>13, RunKept
  <2>8. r \in DOMAIN seen'
    BY <2>6
  <2>9. returned'.pid = s.pid /\ returned'.rai = s.rai
    BY <2>1, <1>7
  <2> QED
    BY <2>3, <2>4, <2>7, <2>8, <2>9
<1> QED
  BY <1>14, <1>15, <1>16, <1>17, <1>18 DEF Inv

-----------------------------------------------------------------------------
(* The section assembler.                                                  *)
LEMMA FeedKeeps ==
  ASSUME NEW S, NEW a \in [active : BOOLEAN, got : Seq(S)],
         a.active => a.got # << >>, NEW start, NEW piece \in S
  PROVE  LET r == Feed(a, start, piece)
         IN /\ r.asm \in [active : BOOLEAN, got : Seq(S)]
            /\ r.asm.active => r.asm.got # << >>
            /\ r.section \in Seq(S)
<1> DEFINE fed == IF start THEN piece.ptr ELSE a.active
           got == IF start THEN <<piece>> ELSE Append(a.got, piece)
           done == fed /\ PieceLen(got) >= got[1].total
           r == Feed(a, start, piece)
<1>1. got \in Seq(S) /\ got # << >>
  OBVIOUS
<1>2. /\ r.asm = IF fed /\ ~done THEN [active |-> TRUE, got |-> got] ELSE NoSection
      /\ r.section = IF done THEN got ELSE << >>
  BY DEF Feed
<1> HIDE DEF got, done, fed, r
<1>3. /\ r.asm \in [active : BOOLEAN, got : Seq(S)]
      /\ r.asm.active => r.asm.got # << >>
  BY <1>1, <1>2 DEF NoSection
<1>4. r.section \in Seq(S)
  BY <1>1, <1>2
<1> QED
  BY <1>3, <1>4 DEF r

(* The first piece of a section found came from a packet of its PID.       *)
LEMMA SectionFrom ==
  ASSUME NEW pid, NEW got \in Seq(Sections(pid)), NEW table, SectionValid(got, table)
  PROVE  \E p \in TablePackets : /\ p.pid = pid /\ p.body.kind = "psi"
                                 /\ p.body = got[1] /\ p.body.sec.table = table
<1> DEFINE S == Sections(pid)
<1>1. got \in Seq(S) /\ got # << >> /\ got[1].sec.table = table
  BY DEF SectionValid
<1> HIDE DEF S
<1>2. got[1] \in S
  BY <1>1
<1> QED
  BY <1>1, <1>2 DEF S, Sections

LEMMA ReadPATPacketKeeps ==
  ASSUME Inv, NEW p \in TablePackets, ReadPATPacket(p), UNCHANGED seen
  PROVE  Inv'
<1> DEFINE S == Sections(pidPAT)
<1>1. PICK fed : fed = Feed(asm, p.start, p.body)
  OBVIOUS
<1>2. PICK found \in BOOLEAN : found <=> /\ SectionValid(fed.section, "pat")
                                         /\ Programs(fed.section[1].sec) # << >>
  OBVIOUS
<1>3. /\ phase = "pat" /\ TablePacket(p, pidPAT)
      /\ phase' = IF found THEN "pmt" ELSE "pat"
      /\ pmtPID' = IF found THEN Programs(fed.section[1].sec)[1].pid ELSE pmtPID
      /\ asm' = IF found THEN NoSection ELSE fed.asm
      /\ order' = order /\ flushIdx' = flushIdx /\ returned' = returned
  BY <1>1, <1>2 DEF ReadPATPacket
<1>4. /\ asm \in [active : BOOLEAN, got : Seq(S)] /\ (asm.active => asm.got # << >>)
      /\ order = << >> /\ seen = << >> /\ returned = NoAU
  BY <1>3 DEF Inv, Looking
<1>5. p.body \in S
  BY <1>3 DEF TablePacket, Sections
<1> HIDE DEF S
<1>6. /\ fed.asm \in [active : BOOLEAN, got : Seq(S)]
      /\ fed.asm.active => fed.asm.got # << >>
      /\ fed.section \in Seq(S)
  BY <1>1, <1>4, <1>5, FeedKeeps
<1>7. TypeOK'
  BY <1>3 DEF Inv, TypeOK
<1>8. Looking'
  <2>1. CASE found
    <3>1. << >> \in Seq(Sections(pmtPID'))
      OBVIOUS
    <3>2. asm' \in [active : BOOLEAN, got : Seq(Sections(pmtPID'))] /\ ~asm'.active
      BY <2>1, <3>1, <1>3 DEF NoSection
    <3> QED
      BY <2>1, <3>2, <1>3, <1>4 DEF Looking
  <2>2. CASE ~found
    BY <2>2, <1>3, <1>4, <1>6 DEF Looking, S
  <2> QED
    BY <2>1, <2>2
<1>9. ProgramFound'
  <2> SUFFICES ASSUME found
               PROVE  \E x \in TablePackets :
                        /\ x.pid = pidPAT /\ x.body.kind = "psi" /\ x.body.sec.table = "pat"
                        /\ Programs(x.body.sec) # << >>
                        /\ pmtPID' = Programs(x.body.sec)[1].pid
    BY <1>3 DEF ProgramFound
  <2>1. PICK x \in TablePackets :
          /\ x.pid = pidPAT /\ x.body.kind = "psi" /\ x.body = fed.section[1]
          /\ x.body.sec.table = "pat"
    BY <1>2, <1>6, SectionFrom DEF S
  <2> QED
    BY <2>1, <1>2, <1>3
<1>10. TracksFromTables'
  BY <1>3 DEF TracksFromTables
<1>11. Collects' /\ BufferBounded'
  BY <1>3, <1>4 DEF Collects, BufferBounded
<1>12. DataIsOneRun'
  BY <1>3, <1>4 DEF DataIsOneRun, NoAU
<1> QED
  BY <1>7, <1>8, <1>9, <1>10, <1>11, <1>12 DEF Inv

(* The entries of a PMT with a supported codec, and the tracks they make.  *)
Wanted(table) == {j \in DOMAIN table : table[j].type \in {27, 36}}

LEMMA StreamsOfTable ==
  ASSUME NEW sec, sec.streams \in Seq([type : Nat, pid : Nat]),
         NEW o, o = StreamsOf(sec),
         NEW want, want = Wanted(sec.streams)
  PROVE  /\ Cardinality(want) \in Nat /\ DOMAIN o = 1..Cardinality(want)
         /\ Cardinality(want) = 0 <=> want = {}
         /\ \A k \in DOMAIN o : o[k] = NewStream(sec.streams[Nth(want, k)].pid)
<1> DEFINE table == sec.streams
           known == {j \in DOMAIN table : codecFromStreamType(table[j].type) # "unknown"}
<1>1. known = want
  BY DEF codecFromStreamType, Wanted
<1>2. o = [k \in 1..Cardinality(known) |-> NewStream(table[Nth(known, k)].pid)]
  BY DEF StreamsOf
<1>3. IsFiniteSet(want)
  <2>1. want \subseteq 1..Len(table) /\ Len(table) \in Nat
    BY DEF Wanted
  <2>2. IsFiniteSet(1..Len(table))
    BY <2>1, FS_Interval
  <2> QED
    BY <2>1, <2>2, FS_Subset
<1> HIDE DEF known
<1>4. Cardinality(want) \in Nat /\ (Cardinality(want) = 0 <=> want = {})
  BY <1>3, FS_CardinalityType, FS_EmptySet
<1>5. o = [k \in 1..Cardinality(want) |-> NewStream(table[Nth(want, k)].pid)]
  BY <1>1, <1>2
<1>6. DOMAIN o = 1..Cardinality(want)
  BY <1>5
<1>7. \A k \in DOMAIN o : o[k] = NewStream(table[Nth(want, k)].pid)
  BY <1>5
<1> QED
  BY <1>4, <1>6, <1>7 DEF table

LEMMA ReadPMTPacketKeeps ==
  ASSUME Inv, NEW p \in TablePackets, ReadPMTPacket(p), UNCHANGED seen
  PROVE  Inv'
<1> DEFINE S == Sections(pmtPID)
<1>1. PICK fed : fed = Feed(asm, p.start, p.body)
  OBVIOUS
<1>2. PICK found \in BOOLEAN : found <=> SectionValid(fed.section, "pmt")
  OBVIOUS
<1>3. /\ phase = "pmt" /\ TablePacket(p, pmtPID)
      /\ order' = IF found THEN StreamsOf(fed.section[1].sec) ELSE order
      /\ ~found => phase' = "pmt"
      /\ found => phase' = IF order' = << >> THEN "failed" ELSE "read"
      /\ asm' = fed.asm
      /\ pmtPID' = pmtPID /\ flushIdx' = flushIdx /\ returned' = returned
  BY <1>1, <1>2 DEF ReadPMTPacket
<1>4. /\ asm \in [active : BOOLEAN, got : Seq(S)] /\ (asm.active => asm.got # << >>)
      /\ order = << >> /\ seen = << >> /\ returned = NoAU
  BY <1>3 DEF Inv, Looking
<1>5. p.body \in S
  BY <1>3 DEF TablePacket, Sections
<1> HIDE DEF S
<1>6. /\ fed.asm \in [active : BOOLEAN, got : Seq(S)]
      /\ fed.asm.active => fed.asm.got # << >>
      /\ fed.section \in Seq(S)
  BY <1>1, <1>4, <1>5, FeedKeeps
<1>7. DataIsOneRun'
  BY <1>3, <1>4 DEF DataIsOneRun, NoAU
<1>8. CASE ~found
  <2>1. TypeOK'
    BY <1>3, <1>8 DEF Inv, TypeOK
  <2>2. Looking'
    BY <1>3, <1>4, <1>6, <1>8 DEF Looking, S
  <2>3. ProgramFound' /\ TracksFromTables'
    BY <1>3, <1>8 DEF Inv, ProgramFound, TracksFromTables
  <2>4. Collects' /\ BufferBounded'
    BY <1>3, <1>4, <1>8 DEF Collects, BufferBounded
  <2> QED
    BY <2>1, <2>2, <2>3, <2>4, <1>7 DEF Inv
<1>9. CASE found
  <2>1. PICK x \in TablePackets :
          /\ x.pid = pmtPID /\ x.body.kind = "psi" /\ x.body = fed.section[1]
          /\ x.body.sec.table = "pmt"
    BY <1>2, <1>6, <1>9, SectionFrom DEF S
  <2>2. PICK sec : sec = x.body.sec
    OBVIOUS
  <2>3. sec.streams \in Seq([type : Nat, pid : Nat])
    BY <2>1, <2>2, TablePacketsAssumption
  <2>4. PICK o : o = StreamsOf(sec)
    OBVIOUS
  <2>5. PICK want : want = Wanted(sec.streams)
    OBVIOUS
  <2>6. /\ Cardinality(want) \in Nat /\ DOMAIN o = 1..Cardinality(want)
        /\ Cardinality(want) = 0 <=> want = {}
        /\ \A k \in DOMAIN o : o[k] = NewStream(sec.streams[Nth(want, k)].pid)
        /\ o = [k \in DOMAIN o |-> o[k]]
    <3>1. /\ Cardinality(want) \in Nat /\ DOMAIN o = 1..Cardinality(want)
          /\ Cardinality(want) = 0 <=> want = {}
      BY <2>3, <2>4, <2>5, StreamsOfTable
    <3>2. \A k \in DOMAIN o : o[k] = NewStream(sec.streams[Nth(want, k)].pid)
      BY <2>3, <2>4, <2>5, StreamsOfTable
    <3>3. o = [k \in DOMAIN o |-> o[k]]
      BY <2>4 DEF StreamsOf
    <3> QED
      BY <3>1, <3>2, <3>3
  <2>7. order' = o
    BY <2>1, <2>2, <2>4, <1>3, <1>9
  <2>8. \A k \in DOMAIN o : /\ o[k].pid = sec.streams[Nth(want, k)].pid
                            /\ ~o[k].collecting
                            /\ \A b \in {0, 1} : o[k].mem[b] = << >>
    BY <2>6 DEF NewStream
  <2>9. TypeOK'
    <3> DEFINE Q == {o[k].pid : k \in DOMAIN o}
               A == Stream(Q)
    <3>1. ASSUME NEW k \in DOMAIN o
          PROVE  o[k] \in A
      <4>1. o[k].pid \in Q
        OBVIOUS
      <4>2. PICK pid : o[k] = NewStream(pid)
        BY <2>6
      <4>3. pid \in Q
        BY <4>1, <4>2 DEF NewStream
      <4> HIDE DEF Q
      <4>4. << >> \in Seq(Chunk)
        OBVIOUS
      <4>5. [b \in {0, 1} |-> << >>] \in [{0, 1} -> Seq(Chunk)]
        BY <4>4
      <4> QED
        BY <4>2, <4>3, <4>5 DEF NewStream, Stream
    <3> HIDE DEF A
    <3>2. o \in [1..Cardinality(want) -> A]
      BY <3>1, <2>6
    <3>3. o \in Seq(A)
      BY <3>2, <2>6, FunctionSeq
    <3>4. order' \in Seq(Stream({order'[k].pid : k \in DOMAIN order'}))
      BY <3>3, <2>7 DEF A
    <3>5. phase' \in {"failed", "read"} /\ seen' = seen /\ flushIdx' = flushIdx
      BY <1>3, <1>9
    <3> QED
      BY <3>4, <3>5 DEF Inv, TypeOK
  <2>10. Looking'
    BY <1>3, <1>9 DEF Looking
  <2>11. ProgramFound'
    BY <1>3, <1>9 DEF Inv, ProgramFound
  <2>12. TracksFromTables'
    <3> SUFFICES ASSUME phase' = "read"
                 PROVE  TracksFromTables'
      BY <1>3, <1>9 DEF TracksFromTables
    <3>1. PICK y \in TablePackets :
            /\ y.pid = pidPAT /\ y.body.kind = "psi" /\ y.body.sec.table = "pat"
            /\ Programs(y.body.sec) # << >> /\ pmtPID = Programs(y.body.sec)[1].pid
      BY <1>3 DEF Inv, ProgramFound
    <3>2. want # {}
      <4>1. o # << >>
        BY <2>7, <1>3, <1>9
      <4>2. Cardinality(want) # 0
        <5>1. CASE Cardinality(want) = 0
          <6>1. DOMAIN o = {}
            BY <5>1, <2>6
          <6>2. o = << >>
            BY <6>1, <2>6
          <6> QED
            BY <6>2, <4>1
        <5> QED
          BY <5>1
      <4> QED
        BY <4>2, <2>6
    <3>3. /\ DOMAIN order' = 1..Cardinality(want)
          /\ \A k \in DOMAIN order' : order'[k].pid = sec.streams[Nth(want, k)].pid
      BY <2>6, <2>7, <2>8
    <3>4. /\ x.pid = pmtPID' /\ x.body.kind = "psi" /\ x.body.sec.table = "pmt"
          /\ pmtPID' = Programs(y.body.sec)[1].pid
      BY <3>1, <2>1, <1>3
    <3>5. LET table == x.body.sec.streams
              keep  == {j \in DOMAIN table : table[j].type \in {27, 36}}
          IN /\ keep # {} /\ DOMAIN order' = 1..Cardinality(keep)
             /\ \A k \in DOMAIN order' : order'[k].pid = table[Nth(keep, k)].pid
      BY <3>2, <3>3, <2>2, <2>5 DEF Wanted
    <3> QED
      BY <3>1, <3>4, <3>5, ZenonT(60) DEF TracksFromTables
  <2>13. Collects'
    BY <2>7, <2>8 DEF Collects
  <2>14. BufferBounded'
    <3> SUFFICES ASSUME NEW k \in DOMAIN order', NEW b \in {0, 1}
                 PROVE  Bounded(order'[k].mem[b])
      BY DEF BufferBounded
    <3>1. order'[k].mem[b] = << >>
      BY <2>7, <2>8
    <3> QED
      BY <3>1, NoneBounded
  <2> QED
    BY <2>9, <2>10, <2>11, <2>12, <2>13, <2>14, <1>7 DEF Inv
<1> QED
  BY <1>8, <1>9

-----------------------------------------------------------------------------
LEMMA InitInv == Init => Inv
<1> SUFFICES ASSUME Init PROVE Inv
  OBVIOUS
<1>1. /\ phase = "pat" /\ asm = NoSection /\ order = << >> /\ flushIdx = 0
      /\ returned = NoAU /\ seen = << >>
  BY DEF Init, ReaderInit
<1>2. TypeOK
  BY <1>1 DEF TypeOK
<1>3. Looking
  <2> DEFINE S == Sections(pidPAT)
  <2> HIDE DEF S
  <2>1. NoSection \in [active : BOOLEAN, got : Seq(S)] /\ ~NoSection.active
    BY DEF NoSection
  <2> QED
    BY <2>1, <1>1 DEF Looking, S
<1>4. ProgramFound /\ TracksFromTables
  BY <1>1 DEF ProgramFound, TracksFromTables
<1>5. Collects /\ BufferBounded
  BY <1>1 DEF Collects, BufferBounded
<1>6. DataIsOneRun
  BY <1>1 DEF DataIsOneRun, NoAU
<1> QED
  BY <1>2, <1>3, <1>4, <1>5, <1>6 DEF Inv

(* Nothing but the number of table packets changes.                        *)
LEMMA StutterKeeps ==
  ASSUME Inv, UNCHANGED <<rvars, seen>>
  PROVE  Inv'
<1>1. /\ phase' = phase /\ pmtPID' = pmtPID /\ asm' = asm /\ order' = order
      /\ flushIdx' = flushIdx /\ returned' = returned /\ seen' = seen
  BY DEF rvars
<1>2. TypeOK'
  BY <1>1 DEF Inv, TypeOK
<1>3. Looking'
  BY <1>1 DEF Inv, Looking
<1>4. ProgramFound'
  BY <1>1 DEF Inv, ProgramFound
<1>5. TracksFromTables'
  BY <1>1, ZenonT(60) DEF Inv, TracksFromTables
<1>6. BufferBounded'
  BY <1>1 DEF Inv, BufferBounded
<1>7. /\ Len(order) \in Nat /\ DOMAIN order = 1..Len(order)
      /\ Len(seen) \in Nat /\ DOMAIN seen = 1..Len(seen)
  BY Lengths
<1>8. Grows
  BY <1>1, <1>7 DEF Grows
<1>9. \A pid : Counted(pid)' = Counted(pid)
  <2> SUFFICES ASSUME NEW pid PROVE Counted(pid)' = Counted(pid)
    OBVIOUS
  <2>1. Len(seen') = Len(seen)
    BY <1>1
  <2> QED
    BY <2>1, <1>8, CountedKept
<1>10. ASSUME NEW pid, NEW m, NEW n
       PROVE  OnlyRepeats(pid, m, n)' <=> OnlyRepeats(pid, m, n)
  BY <1>1, <1>9 DEF OnlyRepeats
<1>11. ASSUME NEW pid, NEW m, NEW n
       PROVE  Follows(pid, m, n)' <=> Follows(pid, m, n)
  BY <1>1, <1>9, <1>10 DEF Follows
<1>12. ASSUME NEW pid, NEW d, NEW rai, NEW s
       PROVE  Run(pid, d, rai, s)' <=> Run(pid, d, rai, s)
  BY <1>1, <1>9, <1>11 DEF Run
<1>13. Collects'
  <2> SUFFICES ASSUME NEW j \in DOMAIN order', order'[j].collecting
               PROVE  HoldsRun(j)'
    BY DEF Collects
  <2>1. j \in DOMAIN order /\ HoldsRun(j)
    BY <1>1 DEF Inv, Collects
  <2>2. \A pid : StreamIndex(pid)' = StreamIndex(pid)
    BY <1>8, SameTracks
  <2> QED
    BY <2>1, <2>2, <1>1, <1>10, <1>12 DEF HoldsRun, LastOf
<1>14. DataIsOneRun'
  BY <1>1, <1>12 DEF Inv, DataIsOneRun, Data
<1> QED
  BY <1>2, <1>3, <1>4, <1>5, <1>6, <1>13, <1>14 DEF Inv

LEMMA NextInv == Inv /\ [Next]_vars => Inv'
<1> SUFFICES ASSUME Inv, [Next]_vars PROVE Inv'
  OBVIOUS
<1>1. CASE ReadForTables
  <2>1. PICK p \in TablePackets :
          /\ ReadPATPacket(p) \/ ReadPMTPacket(p) \/ SkipPacketInTables(p)
          /\ UNCHANGED seen
    BY <1>1 DEF ReadForTables
  <2>2. CASE ReadPATPacket(p)
    BY <2>1, <2>2, ReadPATPacketKeeps
  <2>3. CASE ReadPMTPacket(p)
    BY <2>1, <2>3, ReadPMTPacketKeeps
  <2>4. CASE SkipPacketInTables(p)
    BY <2>1, <2>4, StutterKeeps DEF SkipPacketInTables
  <2> QED
    BY <2>1, <2>2, <2>3, <2>4
<1>2. CASE ReadForUnits
  <2>1. PICK p \in StreamPackets :
          LET q == At(p, Len(seen) + 1)
          IN (ReadESPacket(q) \/ SkipPacket(q)) /\ seen' = Append(seen, q)
    BY <1>2 DEF ReadForUnits
  <2>2. PICK q : q = At(p, Len(seen) + 1)
    OBVIOUS
  <2>3. (ReadESPacket(q) \/ SkipPacket(q)) /\ seen' = Append(seen, q)
    BY <2>1, <2>2
  <2> QED
    BY <2>2, <2>3, ReadESPacketKeeps, SkipPacketKeeps
<1>3. CASE AtEnd
  BY <1>3, ReadEOFKeeps, FlushKeeps, ReportEOFKeeps DEF AtEnd
<1>4. CASE UNCHANGED vars
  BY <1>4, StutterKeeps DEF vars
<1> QED
  BY <1>1, <1>2, <1>3, <1>4 DEF Next

(* What is collected for a track of mpegts.Reader is at all times one run  *)
(* of packets of its PID, whatever the input holds.                        *)
THEOREM InvHolds == Spec => []Inv
<1>1. Init => Inv
  BY InitInv
<1>2. Inv /\ [Next]_vars => Inv'
  BY NextInv
<1> QED
  BY <1>1, <1>2, PTL DEF Spec

(* NextAccessUnit returns the bytes of one unit, from the packet with its  *)
(* PES header on, with no packet missing, repeated or foreign, and the     *)
(* next unit does not overwrite them (handleES, finish, startUnit).        *)
THEOREM DataHolds == Spec => []DataIsOneRun
BY InvHolds, PTL DEF Inv

(* No buffer grows past WithMaxAccessUnitSize, or one payload (handleES).  *)
THEOREM BuffersHold == Spec => []BufferBounded
BY InvHolds, PTL DEF Inv

(* The tracks are those of the first program's PMT (readPAT, readPMT).     *)
THEOREM TracksHold == Spec => []TracksFromTables
BY InvHolds, PTL DEF Inv
=============================================================================
