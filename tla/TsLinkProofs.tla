---------------------------- MODULE TsLinkProofs ----------------------------
(* Proofs about TsWriter, and about TsLink: writer, transport and reader   *)
(* together.  They hold for every list of options, every number of calls   *)
(* with units of any length, any time stamps within TimeAssumption, any    *)
(* number of losses, repetitions and failing calls of dst.Write.           *)
EXTENDS TsLink, SequenceTheorems, FiniteSetTheorems, WellFoundedInduction, TLAPS

(* A counter stays in its cycle.                                           *)
LEMMA NextCCInRange == ASSUME NEW c \in CC PROVE NextCC(c) \in CC
<1>1. c + 1 \in Int /\ CCMod \in Nat /\ CCMod > 0
  BY CCModAssumption DEF CC
<1>2. (c + 1) % CCMod \in 0..(CCMod - 1)
  BY <1>1
<1> QED BY <1>2 DEF NextCC, CC

(* A PES header and its length.                                            *)
LEMMA HeaderMade ==
  ASSUME NEW pts \in Int, NEW dts \in Int
  PROVE  appendPESHeader(pts, dts) \in Header
<1>1. pts % Wrap \in Int /\ dts % Wrap \in Int
  BY WrapAssumption
<1> QED BY <1>1 DEF appendPESHeader, Header

(* One turn of the loop of writePES: what goes into a packet and what the  *)
(* adaptation field has room for.                                          *)
LEMMA TurnFits ==
  ASSUME job \in Job, 0 < job.remaining
  PROVE  /\ afTotal \in Nat /\ Copied \in Nat
         /\ 0 < Copied /\ Copied <= job.remaining
         /\ 4 + afTotal + Copied = packetSize
         /\ Copied < job.remaining => Copied >= 176
         /\ LET rai == job.rai /\ job.first
                pcr == job.withPCR /\ job.first
            IN /\ afTotal = 1 => ~rai /\ ~pcr
               /\ rai \/ pcr => afTotal >= encodedLen(pcr)
<1>t. /\ job.remaining \in Nat /\ job.first \in BOOLEAN /\ job.rai \in BOOLEAN
      /\ job.withPCR \in BOOLEAN
  BY DEF Job
<1>1. minAF \in {0, 2, 8}
  BY <1>t DEF minAF, encodedLen
<1>2. LET rai == job.rai /\ job.first
          pcr == job.withPCR /\ job.first
      IN IF rai \/ pcr THEN minAF = encodedLen(pcr) ELSE minAF = 0
  BY <1>t DEF minAF, encodedLen
<1>3. encodedLen(job.withPCR /\ job.first) \in {2, 8}
  BY DEF encodedLen
<1>4. payloadSize = 184 /\ packetSize = 188
  BY DEF payloadSize, packetSize
<1> HIDE DEF minAF
<1>5. CASE job.remaining < 184 - minAF
  <2>1. afTotal = 184 - job.remaining /\ Copied = job.remaining
    BY <1>1, <1>4, <1>5, <1>t DEF afTotal, Copied
  <2>2. afTotal > minAF
    BY <1>1, <1>5, <1>t, <2>1
  <2> QED BY <2>1, <2>2, <1>1, <1>2, <1>3, <1>4, <1>5, <1>t
<1>6. CASE ~(job.remaining < 184 - minAF)
  <2>1. afTotal = minAF /\ Copied = 184 - minAF
    BY <1>1, <1>4, <1>6, <1>t DEF afTotal, Copied
  <2> QED BY <2>1, <1>1, <1>2, <1>3, <1>4, <1>6, <1>t
<1> QED BY <1>5, <1>6

-----------------------------------------------------------------------------
(* What one more packet on the wire leaves as it was.                      *)
LEMMA OneMore ==
  ASSUME wire \in Seq(Packet), NEW p \in Packet, wire' = Append(wire, p)
  PROVE  /\ wire' \in Seq(Packet)
         /\ Len(wire) \in Nat /\ Len(wire') = Len(wire) + 1
         /\ DOMAIN wire = 1..Len(wire) /\ DOMAIN wire' = 1..(Len(wire) + 1)
         /\ \A k \in 1..Len(wire) : wire'[k] = wire[k]
         /\ wire'[Len(wire) + 1] = p
OBVIOUS

(* Every packet takes the counter that is due on its PID.                  *)
LEMMA CountersKept ==
  ASSUME wire \in Seq(Packet), NEW p \in Packet, wire' = Append(wire, p),
         CountersDue, CountersCountAttempts,
         p.pid \in DOMAIN cc, p.cc = cc[p.pid], BumpCC(p.pid),
         cc \in [DOMAIN cc -> CC]
  PROVE  CountersDue' /\ CountersCountAttempts' /\ DOMAIN cc' = DOMAIN cc
         /\ cc' \in [DOMAIN cc -> CC]
<1> DEFINE n == Len(wire)
           q == p.pid
<1>1. /\ n \in Nat /\ Len(wire') = n + 1
      /\ DOMAIN wire = 1..n /\ DOMAIN wire' = 1..(n + 1)
      /\ \A k \in 1..n : wire'[k] = wire[k]
      /\ wire'[n + 1] = p
  BY OneMore
<1>2. cc' = [cc EXCEPT ![q] = (cc[q] + 1) % CCMod]
  BY DEF BumpCC, NextCC
<1>3. DOMAIN cc' = DOMAIN cc /\ cc' \in [DOMAIN cc -> CC]
  <2>1. (cc[q] + 1) % CCMod \in CC
    BY NextCCInRange DEF NextCC
  <2> QED BY <1>2, <2>1
<1>d. /\ \A x \in DOMAIN cc : DueCC(wire, cc[x], x, n)
      /\ \A k \in 1..n : DueCC(wire, wire[k].cc, wire[k].pid, k - 1)
      /\ p.cc = cc[q]
  BY <1>1 DEF CountersDue, CountersCountAttempts
<1> DEFINE w == wire'
<1>w. (\A x \in DOMAIN cc : DueCC(w, cc'[x], x, n + 1)) => CountersDue'
  BY <1>1, <1>3 DEF CountersDue
<1>v. (\A k \in 1..(n + 1) : DueCC(w, w[k].cc, w[k].pid, k - 1))
      => CountersCountAttempts'
  BY <1>1 DEF CountersCountAttempts
<1>1w. /\ n \in Nat
       /\ \A k \in 1..n : w[k] = wire[k]
       /\ w[n + 1] = p
  BY <1>1
<1> HIDE DEF n, q, w
<1>4. ASSUME NEW c, NEW x, NEW m \in 0..n, DueCC(wire, c, x, m)
      PROVE  DueCC(w, c, x, m)
  <2>1. \A k \in 1..m : w[k] = wire[k]
    BY <1>1w
  <2>2. CASE c = 0 /\ \A k \in 1..m : wire[k].pid # x
    BY <2>1, <2>2 DEF DueCC
  <2>3. CASE \E k \in 1..m : /\ wire[k].pid = x
                             /\ c = (wire[k].cc + 1) % CCMod
                             /\ \A i \in (k + 1)..m : wire[i].pid # x
    <3>1. PICK k \in 1..m : /\ wire[k].pid = x
                            /\ c = (wire[k].cc + 1) % CCMod
                            /\ \A i \in (k + 1)..m : wire[i].pid # x
      BY <2>3
    <3>2. \A i \in (k + 1)..m : i \in 1..m
      BY <1>1w
    <3>3. \A i \in (k + 1)..m : w[i].pid # x
      BY <3>1, <3>2, <2>1
    <3>4. w[k].pid = x /\ c = (w[k].cc + 1) % CCMod
      BY <3>1, <2>1
    <3> QED BY <3>3, <3>4 DEF DueCC
  <2> QED BY <1>4, <2>2, <2>3 DEF DueCC
<1>5. ASSUME NEW k \in 1..(n + 1)
      PROVE  DueCC(w, w[k].cc, w[k].pid, k - 1)
  <2>1. CASE k \in 1..n
    <3>1. DueCC(wire, wire[k].cc, wire[k].pid, k - 1)
      BY <2>1, <1>d
    <3>2. k - 1 \in 0..n /\ w[k] = wire[k]
      BY <2>1, <1>1w
    <3> QED BY <3>1, <3>2, <1>4
  <2>2. CASE k = n + 1
    <3>1. DueCC(wire, cc[q], q, n)
      BY <1>d DEF q
    <3>2. k - 1 = n /\ w[k].cc = cc[q] /\ w[k].pid = q
      BY <2>2, <1>1w, <1>d DEF q
    <3>3. n \in 0..n
      BY <1>1w
    <3> QED BY <3>1, <3>2, <3>3, <1>4
  <2> QED BY <2>1, <2>2, <1>1w
<1>6. ASSUME NEW x \in DOMAIN cc
      PROVE  DueCC(w, cc'[x], x, n + 1)
  <2>1. CASE x = q
    <3>1. cc'[x] = (w[n + 1].cc + 1) % CCMod /\ w[n + 1].pid = x
      BY <2>1, <1>1w, <1>2, <1>d DEF q
    <3>2. n + 1 \in 1..(n + 1) /\ \A i \in ((n + 1) + 1)..(n + 1) : FALSE
      BY <1>1w
    <3> QED BY <3>1, <3>2 DEF DueCC
  <2>2. CASE x # q
    <3>1. cc'[x] = cc[x] /\ w[n + 1].pid # x
      BY <2>2, <1>1w, <1>2 DEF q
    <3>2. \A i \in 1..(n + 1) : i \notin 1..n => w[i].pid # x
      BY <3>1, <1>1w
    <3>3. DueCC(wire, cc[x], x, n)
      BY <1>d
    <3>4. CASE cc[x] = 0 /\ \A k \in 1..n : wire[k].pid # x
      BY <3>4, <3>1, <3>2, <1>1w DEF DueCC
    <3>5. CASE \E k \in 1..n : /\ wire[k].pid = x
                               /\ cc[x] = (wire[k].cc + 1) % CCMod
                               /\ \A i \in (k + 1)..n : wire[i].pid # x
      <4>1. PICK k \in 1..n : /\ wire[k].pid = x
                              /\ cc[x] = (wire[k].cc + 1) % CCMod
                              /\ \A i \in (k + 1)..n : wire[i].pid # x
        BY <3>5
      <4>2. \A i \in (k + 1)..(n + 1) : w[i].pid # x
        BY <4>1, <3>2, <1>1w
      <4>3. k \in 1..(n + 1) /\ w[k] = wire[k]
        BY <1>1w
      <4> QED BY <4>1, <4>2, <4>3, <3>1 DEF DueCC
    <3> QED BY <3>3, <3>4, <3>5 DEF DueCC
  <2> QED BY <2>1, <2>2
<1> QED BY <1>3, <1>5, <1>6, <1>v, <1>w

-----------------------------------------------------------------------------
(* The packets of a unit stay what they are when another unit's or table's *)
(* packet follows,                                                         *)
LEMMA RunKept ==
  ASSUME wire \in Seq(Packet), NEW p \in Packet, wire' = Append(wire, p),
         NEW a, ~Carries(p, a),
         NEW b \in DOMAIN wire, NEW e \in DOMAIN wire, Run(wire, a, b, e)
  PROVE  Run(wire', a, b, e)
<1> DEFINE n == Len(wire)
           w == wire'
<1>1. /\ n \in Nat /\ DOMAIN wire = 1..n /\ DOMAIN w = 1..(n + 1)
      /\ \A k \in 1..n : w[k] = wire[k]
      /\ w[n + 1] = p
  BY OneMore
<1> HIDE DEF n, w
<1>2. b \in 1..n /\ e \in 1..n
  BY <1>1
<1>3. \A k \in DOMAIN w : Carries(w[k], a) <=> k \in b..e
  <2>1. ASSUME NEW k \in 1..(n + 1) PROVE Carries(w[k], a) <=> k \in b..e
    <3>1. CASE k \in 1..n
      BY <3>1, <1>1 DEF Run
    <3>2. CASE k = n + 1
      <4>1. ~Carries(w[k], a)
        BY <3>2, <1>1
      <4> QED BY <4>1, <3>2, <1>1, <1>2
    <3> QED BY <3>1, <3>2, <1>1
  <2> QED BY <2>1, <1>1
<1>4. w[b].body.off = 0
  BY <1>1, <1>2 DEF Run
<1>5. ASSUME NEW k \in b..e
      PROVE  /\ w[k].ok
             /\ w[k].start <=> k = b
             /\ k > b => w[k].body.off = w[k-1].body.off + w[k-1].body.len
  <2>1. w[k] = wire[k]
    BY <1>1, <1>2
  <2>2. k > b => w[k-1] = wire[k-1]
    BY <1>1, <1>2
  <2> QED BY <2>1, <2>2 DEF Run
<1> QED BY <1>3, <1>4, <1>5 DEF Run, w

(* grow by a packet that carries on where they end,                        *)
LEMMA RunGrows ==
  ASSUME wire \in Seq(Packet), NEW p \in Packet, wire' = Append(wire, p),
         NEW a, Carries(p, a), p.ok, ~p.start,
         NEW b \in DOMAIN wire, Run(wire, a, b, Len(wire)),
         p.body.off = RunEnd(wire[Len(wire)])
  PROVE  Run(wire', a, b, Len(wire'))
<1> DEFINE n == Len(wire)
           w == wire'
<1>1. /\ n \in Nat /\ DOMAIN wire = 1..n /\ DOMAIN w = 1..(n + 1)
      /\ \A k \in 1..n : w[k] = wire[k]
      /\ w[n + 1] = p /\ Len(wire') = n + 1
  BY OneMore
<1>r. Run(wire, a, b, n) /\ p.body.off = RunEnd(wire[n])
  OBVIOUS
<1> HIDE DEF n, w
<1>2. b \in 1..n
  BY <1>1
<1>3. \A k \in DOMAIN w : Carries(w[k], a) <=> k \in b..(n + 1)
  <2>1. ASSUME NEW k \in 1..(n + 1)
        PROVE  Carries(w[k], a) <=> k \in b..(n + 1)
    <3>1. CASE k \in 1..n
      <4>1. Carries(w[k], a) <=> k \in b..n
        BY <3>1, <1>1, <1>r DEF Run
      <4> QED BY <4>1, <3>1, <1>1, <1>2
    <3>2. CASE k = n + 1
      <4>1. Carries(w[k], a)
        BY <3>2, <1>1
      <4> QED BY <4>1, <3>2, <1>1, <1>2
    <3> QED BY <3>1, <3>2, <1>1
  <2> QED BY <2>1, <1>1
<1>4. w[b].body.off = 0
  BY <1>1, <1>2, <1>r DEF Run
<1>5. ASSUME NEW k \in b..(n + 1)
      PROVE  /\ w[k].ok
             /\ w[k].start <=> k = b
             /\ k > b => w[k].body.off = w[k-1].body.off + w[k-1].body.len
  <2>1. CASE k \in b..n
    <3>1. w[k] = wire[k]
      BY <1>1, <1>2, <2>1
    <3>2. k > b => w[k-1] = wire[k-1]
      BY <1>1, <1>2, <2>1
    <3> QED BY <3>1, <3>2, <2>1, <1>r DEF Run
  <2>2. CASE k = n + 1
    <3>1. w[k] = p /\ k # b /\ k - 1 = n
      BY <2>2, <1>1, <1>2
    <3>2. w[n] = wire[n]
      BY <1>1, <1>2
    <3> QED BY <3>1, <3>2, <1>r DEF RunEnd
  <2> QED BY <2>1, <2>2, <1>1, <1>2
<1>6. Run(w, a, b, n + 1)
  BY <1>3, <1>4, <1>5 DEF Run
<1> QED BY <1>1, <1>6 DEF w

(* and begin with the first packet of the unit.                            *)
LEMMA RunStarts ==
  ASSUME wire \in Seq(Packet), NEW p \in Packet, wire' = Append(wire, p),
         NEW a, Carries(p, a), p.ok, p.start, p.body.off = 0,
         \A k \in DOMAIN wire : ~Carries(wire[k], a)
  PROVE  Run(wire', a, Len(wire'), Len(wire'))
<1> DEFINE n == Len(wire)
           w == wire'
<1>1. /\ n \in Nat /\ DOMAIN wire = 1..n /\ DOMAIN w = 1..(n + 1)
      /\ \A k \in 1..n : w[k] = wire[k]
      /\ w[n + 1] = p /\ Len(wire') = n + 1
  BY OneMore
<1> HIDE DEF n, w
<1>2. ASSUME NEW k \in 1..(n + 1)
      PROVE  Carries(w[k], a) <=> k \in (n + 1)..(n + 1)
  <2>1. CASE k \in 1..n
    <3>1. ~Carries(w[k], a)
      BY <2>1, <1>1
    <3> QED BY <3>1, <2>1, <1>1
  <2>2. CASE k = n + 1
    BY <2>2, <1>1
  <2> QED BY <2>1, <2>2, <1>1
<1>3. ASSUME NEW k \in (n + 1)..(n + 1)
      PROVE  /\ w[k].ok
             /\ w[k].start <=> k = n + 1
             /\ ~(k > n + 1)
  BY <1>1
<1>4. Run(w, a, n + 1, n + 1)
  BY <1>1, <1>2, <1>3 DEF Run
<1> QED BY <1>1, <1>4 DEF w

(* A unit that is whole on the wire stays whole when packets are appended. *)
LEMMA WholeKept ==
  ASSUME wire \in Seq(Packet), NEW p \in Packet, wire' = Append(wire, p),
         NEW a, NEW u, NEW v, u.hdr = v.hdr, u.total = v.total,
         ~Carries(p, a), Whole(wire, a, u)
  PROVE  Whole(wire', a, v)
<1>1. PICK b, e \in DOMAIN wire :
         /\ b <= e
         /\ Run(wire, a, b, e)
         /\ wire[b].body.len > u.hdr
         /\ RunEnd(wire[e]) = u.total
  BY DEF Whole
<1>2. Run(wire', a, b, e)
  BY <1>1, RunKept
<1>3. /\ b \in DOMAIN wire' /\ e \in DOMAIN wire'
      /\ wire'[b] = wire[b] /\ wire'[e] = wire[e]
  BY OneMore
<1> QED BY <1>1, <1>2, <1>3 DEF Whole

(* Tables that were in force stay so; a packet that starts a unit needs    *)
(* tables that are on the wire.                                            *)
LEMMA TablesKept ==
  ASSUME wire \in Seq(Packet), NEW p \in Packet, wire' = Append(wire, p),
         TablesInForce, Progress, log \in Seq(WrittenUnit),
         \A a \in DOMAIN log : log'[a].dts = log[a].dts,
         (p.ok /\ p.body.kind = "es" /\ p.start) =>
            \E j \in 2..Len(wire) :
              /\ TablesAt(wire, j)
              /\ log'[p.body.au].dts - wire[j].body.at \in 0..(psiIntervalTicks - 1)
  PROVE  TablesInForce'
<1> DEFINE n == Len(wire)
           w == wire'
<1>1. /\ n \in Nat /\ DOMAIN wire = 1..n /\ DOMAIN w = 1..(n + 1)
      /\ \A k \in 1..n : w[k] = wire[k]
      /\ w[n + 1] = p /\ Len(wire') = n + 1
  BY OneMore
<1>p. (p.ok /\ p.body.kind = "es" /\ p.start) =>
         \E j \in 2..n :
           /\ TablesAt(wire, j)
           /\ log'[p.body.au].dts - wire[j].body.at \in 0..(psiIntervalTicks - 1)
  OBVIOUS
<1>v. (\A k \in 1..(n + 1) :
         (w[k].ok /\ w[k].body.kind = "es" /\ w[k].start) =>
           \E j \in 2..(k - 1) :
             /\ TablesAt(w, j)
             /\ log'[w[k].body.au].dts - w[j].body.at \in 0..(psiIntervalTicks - 1))
      => TablesInForce'
  BY <1>1 DEF TablesInForce
<1> HIDE DEF n, w
<1>2. ASSUME NEW j \in 2..n, TablesAt(wire, j)
      PROVE  TablesAt(w, j) /\ w[j] = wire[j]
  <2>1. w[j] = wire[j] /\ w[j - 1] = wire[j - 1]
    BY <1>1
  <2> QED BY <1>2, <2>1 DEF TablesAt
<1>3. ASSUME NEW k \in 1..(n + 1), w[k].ok, w[k].body.kind = "es", w[k].start
      PROVE  \E j \in 2..(k - 1) :
               /\ TablesAt(w, j)
               /\ log'[w[k].body.au].dts - w[j].body.at
                    \in 0..(psiIntervalTicks - 1)
  <2>1. CASE k \in 1..n
    <3>1. w[k] = wire[k] /\ k \in DOMAIN wire
      BY <2>1, <1>1
    <3>2. PICK j \in 2..(k - 1) :
             /\ TablesAt(wire, j)
             /\ log[wire[k].body.au].dts - wire[j].body.at
                  \in 0..(psiIntervalTicks - 1)
      BY <3>1, <1>3 DEF TablesInForce
    <3>3. log'[wire[k].body.au].dts = log[wire[k].body.au].dts
      BY <3>1, <1>3 DEF Progress
    <3>4. j \in 2..n
      BY <2>1, <1>1
    <3> QED BY <3>1, <3>2, <3>3, <3>4, <1>2
  <2>2. CASE k = n + 1
    <3>1. w[k] = p /\ k - 1 = n
      BY <2>2, <1>1
    <3>2. PICK j \in 2..n :
             /\ TablesAt(wire, j)
             /\ log'[p.body.au].dts - wire[j].body.at \in 0..(psiIntervalTicks - 1)
      BY <3>1, <1>3, <1>p
    <3> QED BY <3>1, <3>2, <1>2
  <2> QED BY <2>1, <2>2, <1>1
<1> QED BY <1>3, <1>v

(* A packet that is exact stays exact when packets are appended.           *)
LEMMA ExactKept ==
  ASSUME wire \in Seq(Packet), NEW p \in Packet, wire' = Append(wire, p),
         PacketsExact, Exact(p)
  PROVE  PacketsExact'
<1>1. \A k \in DOMAIN wire' : wire'[k] = p \/ (k \in DOMAIN wire /\ wire'[k] = wire[k])
  BY OneMore
<1> QED BY <1>1 DEF PacketsExact

-----------------------------------------------------------------------------
(* The fate of the unit under way is noted in the log.                     *)
LEMMA LogKept ==
  ASSUME TypeOK, JobIsLast, Writing, NEW s \in {"ok", "failed"},
         log' = [log EXCEPT ![job.au].status = s]
  PROVE  /\ log' \in Seq(WrittenUnit) /\ Len(log') = Len(log)
         /\ DOMAIN log' = DOMAIN log
         /\ job.au \in DOMAIN log /\ log'[job.au].status = s
         /\ \A a \in DOMAIN log :
              /\ log'[a].dts = log[a].dts /\ log'[a].hdr = log[a].hdr
              /\ log'[a].total = log[a].total
              /\ a # job.au => log'[a] = log[a]
<1>1. log \in Seq(WrittenUnit) /\ Len(log) \in Nat
  BY DEF TypeOK
<1>2. job.au \in DOMAIN log /\ job.au \in 1..Len(log)
  BY <1>1 DEF JobIsLast
<1>3. log[job.au] \in WrittenUnit
  BY <1>1, <1>2
<1>4. [log[job.au] EXCEPT !.status = s] \in WrittenUnit
  BY <1>3 DEF WrittenUnit
<1>5. log' = [log EXCEPT ![job.au] = [log[job.au] EXCEPT !.status = s]]
  OBVIOUS
<1> HIDE DEF WrittenUnit
<1>6. log' \in Seq(WrittenUnit) /\ Len(log') = Len(log) /\ DOMAIN log' = DOMAIN log
  BY <1>1, <1>2, <1>4, <1>5
<1>7. /\ log'[job.au] = [log[job.au] EXCEPT !.status = s]
      /\ \A a \in DOMAIN log : a # job.au => log'[a] = log[a]
  BY <1>1, <1>2, <1>5
<1>8. /\ log'[job.au].status = s
      /\ log'[job.au].dts = log[job.au].dts
      /\ log'[job.au].hdr = log[job.au].hdr
      /\ log'[job.au].total = log[job.au].total
  BY <1>7, <1>3 DEF WrittenUnit
<1> QED BY <1>2, <1>6, <1>7, <1>8

(* The tables maybeWritePSI remembers stay on the wire.                    *)
LEMMA KnownKept ==
  ASSUME wire \in Seq(Packet), NEW p \in Packet, wire' = Append(wire, p), NEW t,
         \E j \in 2..Len(wire) : TablesAt(wire, j) /\ wire[j].body.at = t
  PROVE  \E j \in 2..Len(wire') : TablesAt(wire', j) /\ wire'[j].body.at = t
<1> DEFINE n == Len(wire)
           w == wire'
<1>1. /\ n \in Nat /\ \A k \in 1..n : w[k] = wire[k]
      /\ Len(wire') = n + 1
  BY OneMore
<1>2. PICK j \in 2..n : TablesAt(wire, j) /\ wire[j].body.at = t
  OBVIOUS
<1> HIDE DEF n, w
<1>3. w[j] = wire[j] /\ w[j - 1] = wire[j - 1] /\ j \in 2..(n + 1)
  BY <1>1
<1>4. TablesAt(w, j) /\ w[j].body.at = t
  BY <1>2, <1>3 DEF TablesAt
<1> QED BY <1>1, <1>3, <1>4 DEF w

(* What makes a packet fit for the stream of this writer.                  *)
Fits(p) ==
  /\ p \in Packet /\ Exact(p)
  /\ p.pid \in DOMAIN cc /\ p.cc = cc[p.pid]
  /\ p.body.kind = "es" => p.body.au = job.au

(* PAT and PMT fit.                                                        *)
LEMMA SectionFits ==
  ASSUME TypeOK, Made, Writing, NEW ok \in BOOLEAN,
         NEW p, \/ p = SectionPacket(pidPAT, PATBody, ok)
                \/ p = SectionPacket(writerPMTPID, PMTBody, ok)
  PROVE  Fits(p) /\ p.body.kind = "psi" /\ p.body.at = job.dts /\ p.ok = ok
<1>1. /\ job.dts \in Int
      /\ cc \in [DOMAIN cc -> CC] /\ tracks \in Seq(Track)
      /\ pidPAT \in DOMAIN cc /\ writerPMTPID \in DOMAIN cc
      /\ pmtRawLen(Len(tracks)) <= 184
  <2>1. job \in Job /\ pc # "new"
    BY DEF TypeOK, Writing
  <2>2. ValidOptions(tracks) /\ {pidPAT, writerPMTPID} \subseteq DOMAIN cc
    BY <2>1 DEF Made
  <2> QED BY <2>1, <2>2 DEF TypeOK, Job, ValidOptions, packetSize
<1>2. CASE p = SectionPacket(pidPAT, PATBody, ok)
  <2>1. PATBody \in Body /\ PATBody.kind = "psi" /\ PATBody.at = job.dts
        /\ PATBody.len = 16
    <3>1. <<[number |-> 1, pid |-> 4096]>> \in Seq([number : Nat, pid : Nat])
      OBVIOUS
    <3> QED BY <3>1, <1>1 DEF PATBody, PATSection, SectionBody, Body, Section, patRawLen,
                             writerPMTPID
  <2>2. cc[pidPAT] \in CC
    BY <1>1
  <2>3. p \in Packet
    BY <1>2, <2>1, <2>2 DEF SectionPacket, Packet, pidPAT
  <2>4. /\ p.pid = pidPAT /\ p.cc = cc[pidPAT] /\ p.body = PATBody /\ p.ok = ok
    BY <1>2 DEF SectionPacket
  <2>5. Exact(p)
    BY <2>1, <2>4 DEF Exact, packetSize
  <2> QED BY <2>1, <2>3, <2>4, <2>5, <1>1 DEF Fits
<1>3. CASE p = SectionPacket(writerPMTPID, PMTBody, ok)
  <2> DEFINE ss == [i \in DOMAIN tracks |->
                      [type |-> streamTypeFromCodec(tracks[i].codec),
                       pid  |-> tracks[i].pid]]
             l == pmtRawLen(Len(tracks))
  <2>1. ss \in Seq([type : Nat, pid : Nat])
    <3>1. Len(tracks) \in Nat /\ DOMAIN tracks = 1..Len(tracks)
      BY <1>1
    <3>2. ASSUME NEW i \in DOMAIN tracks
          PROVE  ss[i] \in [type : Nat, pid : Nat]
      <4>1. tracks[i] \in Track
        BY <1>1
      <4>2. tracks[i].codec \in {"H264", "H265"} /\ tracks[i].pid \in Nat
        BY <4>1 DEF Track
      <4>3. streamTypeFromCodec(tracks[i].codec) \in {27, 36}
        BY <4>2 DEF streamTypeFromCodec
      <4> QED BY <4>2, <4>3
    <3>3. ss \in [1..Len(tracks) -> [type : Nat, pid : Nat]]
      BY <3>1, <3>2
    <3> HIDE DEF ss
    <3> DEFINE n == Len(tracks)
               S == [type : Nat, pid : Nat]
    <3>4. n \in Nat /\ ss \in [1..n -> S]
      BY <3>1, <3>3
    <3> HIDE DEF n, S
    <3>5. ss \in UNION {[1..m -> S] : m \in Nat}
      BY <3>4
    <3>6. ss \in Seq(S)
      BY <3>5, SeqDef
    <3> QED BY <3>6 DEF S
  <2>2. l \in Nat /\ l >= 17 /\ l <= 184
    <3>1. Len(tracks) \in Nat
      BY <1>1
    <3> QED BY <3>1, <1>1 DEF pmtRawLen
  <2>3. PMTBody = [kind |-> "psi", sec |-> [table |-> "pmt", streams |-> ss],
                   off |-> 0, len |-> l - 1, total |-> l - 1,
                   ptr |-> TRUE, at |-> job.dts]
    BY DEF PMTBody, PMTSection, SectionBody
  <2> HIDE DEF ss, l
  <2>4. [table |-> "pmt", streams |-> ss] \in Section
    BY <2>1 DEF Section
  <2>5. PMTBody \in Body /\ PMTBody.kind = "psi" /\ PMTBody.at = job.dts
        /\ PMTBody.len = l - 1
    <3>1. l - 1 \in Nat
      BY <2>2
    <3> QED BY <2>3, <2>4, <3>1, <1>1 DEF Body
  <2>6. cc[writerPMTPID] \in CC
    BY <1>1
  <2>7. p \in Packet
    BY <1>3, <2>5, <2>6 DEF SectionPacket, Packet, writerPMTPID
  <2>8. /\ p.pid = writerPMTPID /\ p.cc = cc[writerPMTPID] /\ p.body = PMTBody
        /\ p.ok = ok
    BY <1>3 DEF SectionPacket
  <2>9. Exact(p)
    BY <2>2, <2>5, <2>8 DEF Exact, packetSize
  <2> QED BY <2>5, <2>7, <2>8, <2>9, <1>1 DEF Fits
<1> QED BY <1>2, <1>3

(* So does every packet of a unit.                                         *)
LEMMA PESFits ==
  ASSUME TypeOK, Made, JobIsLast, Writing, NEW ok \in BOOLEAN,
         NEW p, p = PESPacket(ok)
  PROVE  /\ Fits(p) /\ Carries(p, job.au)
         /\ p.ok = ok /\ p.start = job.first /\ p.pid = job.pid
         /\ p.body.off = job.total - job.remaining /\ p.body.len = Copied
<1>1. /\ job \in Job /\ 0 < job.remaining /\ job.remaining <= job.total
      /\ cc \in [DOMAIN cc -> CC] /\ job.pid \in DOMAIN cc
  BY DEF TypeOK, Made, JobIsLast, Writing
<1>2. /\ job.au \in Nat /\ job.pid \in Nat /\ job.rai \in BOOLEAN
      /\ job.withPCR \in BOOLEAN /\ job.hdr \in Header /\ job.first \in BOOLEAN
      /\ job.total \in Nat /\ job.remaining \in Nat
  BY <1>1 DEF Job
<1>3. /\ afTotal \in Nat /\ Copied \in Nat /\ 0 < Copied
      /\ 4 + afTotal + Copied = packetSize
      /\ LET rai == job.rai /\ job.first
             pcr == job.withPCR /\ job.first
         IN /\ afTotal = 1 => ~rai /\ ~pcr
            /\ rai \/ pcr => afTotal >= encodedLen(pcr)
  BY <1>1, TurnFits
<1> DEFINE d == [kind |-> "es", au |-> job.au, off |-> job.total - job.remaining,
                 len |-> Copied,
                 pes |-> IF job.first THEN job.hdr ELSE [ptsDTS |-> "none"]]
<1>4. p = [pid |-> job.pid, start |-> job.first, cc |-> cc[job.pid],
           af |-> afTotal, rai |-> job.rai /\ job.first,
           pcr |-> job.withPCR /\ job.first, fault |-> "none", body |-> d,
           ok |-> ok]
  BY DEF PESPacket
<1>5. d \in Body
  <2>1. job.total - job.remaining \in Nat
    BY <1>1, <1>2
  <2>2. (IF job.first THEN job.hdr ELSE [ptsDTS |-> "none"])
          \in Header \cup {[ptsDTS |-> "none"]}
    BY <1>2
  <2> QED BY <2>1, <2>2, <1>2, <1>3 DEF Body
<1>6. /\ d.kind = "es" /\ d.au = job.au /\ d.off = job.total - job.remaining
      /\ d.len = Copied
  OBVIOUS
<1> HIDE DEF d
<1>7. cc[job.pid] \in CC
  BY <1>1
<1>8. p \in Packet
  BY <1>2, <1>3, <1>4, <1>5, <1>7 DEF Packet
<1>9. /\ p.ok = ok /\ p.start = job.first /\ p.pid = job.pid /\ p.body = d
      /\ p.cc = cc[job.pid] /\ p.af = afTotal /\ p.rai = (job.rai /\ job.first)
      /\ p.pcr = (job.withPCR /\ job.first)
  BY <1>4
<1>10. Exact(p)
  BY <1>3, <1>6, <1>9 DEF Exact
<1> QED BY <1>1, <1>6, <1>8, <1>9, <1>10 DEF Fits, Carries

-----------------------------------------------------------------------------
(* What every packet keeps, written or refused.                            *)
LEMMA PacketKeeps ==
  ASSUME Inv, NEW p, Fits(p), wire' = Append(wire, p), BumpCC(p.pid),
         tracks' = tracks, pc # "new", pc' # "new",
         DOMAIN log' = DOMAIN log, job.au \in DOMAIN log
  PROVE  /\ wire' \in Seq(Packet) /\ cc' \in [DOMAIN cc' -> CC]
         /\ Made' /\ CountersDue' /\ CountersCountAttempts' /\ PacketsExact'
         /\ \A k \in DOMAIN wire' :
              wire'[k].body.kind = "es" => wire'[k].body.au \in DOMAIN log'
<1>1. p \in Packet /\ wire \in Seq(Packet)
  BY DEF Inv, TypeOK, Fits
<1>2. CountersDue' /\ CountersCountAttempts' /\ DOMAIN cc' = DOMAIN cc
      /\ cc' \in [DOMAIN cc -> CC]
  BY <1>1, CountersKept DEF Inv, TypeOK, Fits
<1>3. PacketsExact'
  BY <1>1, ExactKept DEF Inv, Fits
<1>4. Made'
  BY <1>2 DEF Inv, Made, ValidOptions
<1>5. wire' \in Seq(Packet)
      /\ \A k \in DOMAIN wire' :
           wire'[k] = p \/ (k \in DOMAIN wire /\ wire'[k] = wire[k])
  BY <1>1, OneMore
<1>6. \A k \in DOMAIN wire' :
        wire'[k].body.kind = "es" => wire'[k].body.au \in DOMAIN log'
  BY <1>5 DEF Inv, Progress, Fits
<1> QED BY <1>2, <1>3, <1>4, <1>5, <1>6

(* A refused packet ends the call; the unit it was for is noted as failed. *)
LEMMA FailKeeps ==
  ASSUME Inv, Writing, NEW p, Fits(p), ~p.ok,
         wire' = Append(wire, p), BumpCC(p.pid), Fail,
         UNCHANGED <<tracks, psiWritten, lastPSIDTS>>
  PROVE  Inv'
<1>t. p \in Packet /\ wire \in Seq(Packet) /\ log \in Seq(WrittenUnit)
  BY DEF Inv, TypeOK, Fits
<1>f. /\ pc' = "idle" /\ job' = NoJob /\ failures' \in 0..MaxFailures
      /\ log' = [log EXCEPT ![job.au].status = "failed"] /\ ~Writing'
  <2>1. failures' \in 0..MaxFailures
    BY MaxFailuresAssumption DEF Inv, TypeOK, Fail
  <2> QED BY <2>1 DEF Fail, Writing
<1>l. /\ log' \in Seq(WrittenUnit) /\ Len(log') = Len(log)
      /\ DOMAIN log' = DOMAIN log
      /\ job.au \in DOMAIN log /\ log'[job.au].status = "failed"
      /\ \A a \in DOMAIN log :
           /\ log'[a].dts = log[a].dts /\ log'[a].hdr = log[a].hdr
           /\ log'[a].total = log[a].total
           /\ a # job.au => log'[a] = log[a]
  BY <1>f, LogKept DEF Inv
<1>k. /\ wire' \in Seq(Packet) /\ cc' \in [DOMAIN cc' -> CC]
      /\ Made' /\ CountersDue' /\ CountersCountAttempts' /\ PacketsExact'
      /\ \A k \in DOMAIN wire' :
           wire'[k].body.kind = "es" => wire'[k].body.au \in DOMAIN log'
  BY <1>f, <1>l, PacketKeeps DEF Writing
<1>1. TypeOK'
  BY <1>f, <1>l, <1>k DEF Inv, TypeOK, Writing
<1>2. JobIsLast'
  BY <1>f, <1>l DEF Inv, JobIsLast
<1>3. Progress'
  BY <1>f, <1>k DEF Progress
<1>4. UnitsWhole'
  <2>1. SUFFICES ASSUME NEW a \in DOMAIN log, log'[a].status = "ok"
                 PROVE  Whole(wire', a, log'[a])
    BY <1>l DEF UnitsWhole
  <2>2. a # job.au /\ log'[a] = log[a]
    BY <2>1, <1>l
  <2>3. Whole(wire, a, log[a]) /\ ~Carries(p, a)
    BY <2>1, <2>2 DEF Inv, UnitsWhole, Fits, Carries
  <2> QED BY <2>2, <2>3, <1>t, WholeKept
<1>5. TablesKnown'
  <2>1. psiWritten' =>
          \E j \in 2..Len(wire') : /\ TablesAt(wire', j)
                                   /\ wire'[j].body.at = lastPSIDTS'
    BY <1>t, KnownKept DEF Inv, TablesKnown
  <2> QED BY <2>1, <1>f DEF TablesKnown
<1>6. TablesInForce'
  BY <1>t, <1>l, TablesKept DEF Inv
<1> QED BY <1>1, <1>2, <1>3, <1>4, <1>5, <1>6, <1>k DEF Inv

(* A table that was written: the call goes on, its unit is still to start. *)
LEMMA TableKeeps ==
  ASSUME Inv, pc \in {"pat", "pmt"}, NEW p, Fits(p), p.ok, p.body.kind = "psi",
         wire' = Append(wire, p), BumpCC(p.pid),
         pc' \in {"pmt", "pes"}, UNCHANGED <<tracks, job, log, failures>>,
         psiWritten' \in BOOLEAN, lastPSIDTS' \in Int, TablesKnown'
  PROVE  Inv'
<1>t. p \in Packet /\ wire \in Seq(Packet) /\ log \in Seq(WrittenUnit)
  BY DEF Inv, TypeOK, Fits
<1>w. Writing /\ Writing'
  BY DEF Writing
<1>a. job.au \in DOMAIN log
  <2>1. job.au = Len(log) /\ job.au > 0 /\ Len(log) \in Nat
    BY <1>t, <1>w DEF Inv, JobIsLast
  <2> QED BY <2>1, <1>t
<1>k. /\ wire' \in Seq(Packet) /\ cc' \in [DOMAIN cc' -> CC]
      /\ Made' /\ CountersDue' /\ CountersCountAttempts' /\ PacketsExact'
      /\ \A k \in DOMAIN wire' :
           wire'[k].body.kind = "es" => wire'[k].body.au \in DOMAIN log'
  BY <1>a, PacketKeeps
<1>1. TypeOK'
  BY <1>k, <1>w DEF Inv, TypeOK
<1>2. JobIsLast'
  BY <1>w DEF Inv, JobIsLast
<1>3. Progress'
  <2>1. job.first /\ \A k \in DOMAIN wire : ~Carries(wire[k], job.au)
    BY <1>w DEF Inv, Progress
  <2>2. \A k \in DOMAIN wire' :
          wire'[k] = p \/ (k \in DOMAIN wire /\ wire'[k] = wire[k])
    BY <1>t, OneMore
  <2>3. \A k \in DOMAIN wire' : ~Carries(wire'[k], job.au)
    BY <2>1, <2>2 DEF Carries
  <2> QED BY <2>1, <2>3, <1>k, <1>w DEF Inv, Progress
<1>4. UnitsWhole'
  <2>1. SUFFICES ASSUME NEW a \in DOMAIN log, log[a].status = "ok"
                 PROVE  Whole(wire', a, log[a])
    BY DEF UnitsWhole
  <2>2. Whole(wire, a, log[a]) /\ ~Carries(p, a)
    BY <2>1 DEF Inv, UnitsWhole, Carries
  <2> QED BY <2>2, <1>t, WholeKept
<1>5. TablesInForce'
  BY <1>t, TablesKept DEF Inv
<1> QED BY <1>1, <1>2, <1>3, <1>4, <1>5, <1>k DEF Inv

(* writePATPMT's first packet.                                             *)
LEMMA WritePATKeeps ==
  ASSUME Inv, NEW ok \in BOOLEAN, WritePAT(ok) PROVE Inv'
<1> DEFINE p == SectionPacket(pidPAT, PATBody, ok)
<1>w. Writing /\ pc = "pat"
  BY DEF Writing, WritePAT
<1>1. Fits(p) /\ p.body.kind = "psi" /\ p.ok = ok
  BY <1>w, SectionFits DEF Inv
<1>2. p.pid = pidPAT
  BY DEF SectionPacket
<1>3. /\ wire' = Append(wire, p) /\ BumpCC(p.pid)
      /\ UNCHANGED <<tracks, psiWritten, lastPSIDTS>>
  BY <1>2 DEF WritePAT
<1> HIDE DEF p
<1>4. CASE ~ok
  BY <1>1, <1>3, <1>4, <1>w, FailKeeps DEF WritePAT
<1>5. CASE ok
  <2>1. pc' = "pmt" /\ UNCHANGED <<job, log, failures>>
    BY <1>5 DEF WritePAT
  <2>2. TablesKnown'
    <3>1. p \in Packet /\ wire \in Seq(Packet)
      BY <1>1 DEF Inv, TypeOK, Fits
    <3>2. psiWritten' =>
            \E j \in 2..Len(wire') : /\ TablesAt(wire', j)
                                     /\ wire'[j].body.at = lastPSIDTS'
      BY <1>3, <3>1, KnownKept DEF Inv, TablesKnown
    <3>3. wire' # << >> /\ wire'[Len(wire')] = p
      BY <1>3, <3>1
    <3> QED BY <3>2, <3>3, <2>1, <1>1, <1>2, <1>5 DEF TablesKnown
  <2>3. psiWritten' \in BOOLEAN /\ lastPSIDTS' \in Int
    BY <1>3 DEF Inv, TypeOK
  <2> QED BY <1>1, <1>3, <1>5, <1>w, <2>1, <2>2, <2>3, TableKeeps
<1> QED BY <1>4, <1>5

(* The PMT completes the tables: they are fresh for the unit that made     *)
(* them due.                                                               *)
LEMMA WritePMTKeeps ==
  ASSUME Inv, NEW ok \in BOOLEAN, WritePMT(ok) PROVE Inv'
<1> DEFINE p == SectionPacket(writerPMTPID, PMTBody, ok)
<1>w. Writing /\ pc = "pmt"
  BY DEF Writing, WritePMT
<1>1. Fits(p) /\ p.body.kind = "psi" /\ p.ok = ok /\ p.body.at = job.dts
  BY <1>w, SectionFits DEF Inv
<1>2. p.pid = writerPMTPID
  BY DEF SectionPacket
<1>3. wire' = Append(wire, p) /\ BumpCC(p.pid) /\ tracks' = tracks
  BY <1>2 DEF WritePMT
<1> HIDE DEF p
<1>4. CASE ~ok
  <2>1. Fail /\ UNCHANGED <<psiWritten, lastPSIDTS>>
    BY <1>4 DEF WritePMT
  <2> QED BY <2>1, <1>1, <1>3, <1>4, <1>w, FailKeeps
<1>5. CASE ok
  <2>1. /\ pc' = "pes" /\ UNCHANGED <<job, log, failures>>
        /\ psiWritten' = TRUE /\ lastPSIDTS' = job.dts
    BY <1>5 DEF WritePMT
  <2>2. p \in Packet /\ wire \in Seq(Packet) /\ job.dts \in Int
    BY <1>1, <1>w DEF Inv, TypeOK, Fits, Job
  <2>3. TablesKnown'
    <3> DEFINE n == Len(wire)
               w == wire'
    <3>1. /\ n \in Nat /\ Len(wire') = n + 1
          /\ \A k \in 1..n : w[k] = wire[k]
          /\ w[n + 1] = p
      BY <1>3, <2>2, OneMore
    <3>2. n > 0 /\ wire[n].ok /\ wire[n].pid = pidPAT
      BY <1>w, <2>2 DEF Inv, TablesKnown
    <3>3. TablesAt(w, n + 1) /\ n + 1 \in 2..(n + 1) /\ w[n + 1].body.at = job.dts
      <4> HIDE DEF n, w
      <4>1. (n + 1) - 1 = n /\ w[n] = wire[n]
        BY <3>1, <3>2
      <4> QED BY <4>1, <3>1, <3>2, <1>1, <1>2, <1>5 DEF TablesAt
    <3>4. PSIFresh(job.dts)'
      BY <2>1, <2>2 DEF PSIFresh, psiIntervalTicks
    <3> QED BY <3>1, <3>3, <3>4, <2>1 DEF TablesKnown, PSIFresh
  <2> QED BY <1>1, <1>3, <1>5, <1>w, <2>1, <2>2, <2>3, TableKeeps
<1> QED BY <1>4, <1>5

(* A packet of the unit that was written continues its run.                *)
LEMMA PESRun ==
  ASSUME Inv, pc = "pes", NEW p, p = PESPacket(TRUE), wire' = Append(wire, p)
  PROVE  \E b \in DOMAIN wire' :
           /\ Run(wire', job.au, b, Len(wire'))
           /\ wire'[b].body.len > job.hdr.len
           /\ RunEnd(wire'[Len(wire')]) = job.total - (job.remaining - Copied)
           /\ b <= Len(wire') /\ Len(wire') \in DOMAIN wire'
<1>w. Writing
  BY DEF Writing
<1>1. /\ Fits(p) /\ Carries(p, job.au)
      /\ p.ok = TRUE /\ p.start = job.first
      /\ p.body.off = job.total - job.remaining /\ p.body.len = Copied
  BY <1>w, PESFits DEF Inv
<1>2. p \in Packet /\ wire \in Seq(Packet)
  BY <1>1 DEF Fits, Inv, TypeOK
<1>3. /\ job \in Job /\ 0 < job.remaining /\ job.remaining <= job.total
      /\ job.hdr.len < job.total
  BY <1>w DEF Inv, TypeOK, JobIsLast
<1>4. /\ job.total \in Nat /\ job.remaining \in Nat /\ job.hdr.len \in {14, 19}
      /\ job.first \in BOOLEAN
  BY <1>3 DEF Job, Header
<1>5. /\ Copied \in Nat /\ 0 < Copied /\ Copied <= job.remaining
      /\ Copied < job.remaining => Copied >= 176
  BY <1>3, TurnFits
<1> DEFINE n == Len(wire)
           w == wire'
<1>6. /\ n \in Nat /\ DOMAIN wire = 1..n /\ DOMAIN w = 1..(n + 1)
      /\ \A k \in 1..n : w[k] = wire[k]
      /\ w[n + 1] = p /\ Len(wire') = n + 1
  BY <1>2, OneMore
<1>7. RunEnd(w[n + 1]) = job.total - (job.remaining - Copied)
  <2>1. RunEnd(p) = (job.total - job.remaining) + Copied
    BY <1>1 DEF RunEnd
  <2>2. (job.total - job.remaining) + Copied = job.total - (job.remaining - Copied)
    BY <1>4, <1>5
  <2> HIDE DEF n, w
  <2> QED BY <2>1, <2>2, <1>6
<1>8. CASE job.first
  <2>1. p.body.off = 0 /\ \A k \in DOMAIN wire : ~Carries(wire[k], job.au)
    <3>1. job.remaining = job.total
          /\ \A k \in DOMAIN wire : ~Carries(wire[k], job.au)
      BY <1>8, <1>w DEF Inv, Progress
    <3>2. job.total - job.total = 0
      BY <1>4
    <3> QED BY <3>1, <3>2, <1>1
  <2>2. Run(w, job.au, n + 1, n + 1)
    BY <2>1, <1>1, <1>2, <1>6, <1>8, RunStarts
  <2>3. Copied > job.hdr.len
    <3>1. job.remaining = job.total
      BY <1>8, <1>w DEF Inv, Progress
    <3> QED BY <3>1, <1>3, <1>4, <1>5
  <2> HIDE DEF n, w
  <2>4. n + 1 \in DOMAIN w /\ w[n + 1].body.len > job.hdr.len /\ n + 1 <= n + 1
    <3>1. w[n + 1].body.len = Copied
      BY <1>1, <1>6
    <3>2. n + 1 \in DOMAIN w /\ n + 1 <= n + 1
      BY <1>6
    <3> QED BY <2>3, <3>1, <3>2
  <2> QED BY <2>2, <2>4, <1>6, <1>7 DEF w
<1>9. CASE ~job.first
  <2>1. PICK b \in DOMAIN wire :
           /\ Run(wire, job.au, b, Len(wire))
           /\ wire[b].body.len > job.hdr.len
           /\ RunEnd(wire[Len(wire)]) = job.total - job.remaining
    BY <1>9, <1>w DEF Inv, Progress
  <2>2. Run(w, job.au, b, n + 1)
    BY <2>1, <1>1, <1>2, <1>6, <1>9, RunGrows
  <2>3. wire[b].body.len > job.hdr.len
    BY <2>1
  <2> HIDE DEF n, w
  <2>4. b \in DOMAIN w /\ w[b].body.len > job.hdr.len /\ b <= n + 1
        /\ n + 1 \in DOMAIN w
    BY <2>3, <1>6
  <2> QED BY <2>2, <2>4, <1>6, <1>7 DEF w
<1> QED BY <1>4, <1>8, <1>9

(* A packet of a unit, written or refused.                                 *)
LEMMA WritePESKeeps ==
  ASSUME Inv, NEW ok \in BOOLEAN, WritePESPacket(ok) PROVE Inv'
<1> DEFINE p == PESPacket(ok)
<1>w. Writing /\ pc = "pes"
  BY DEF Writing, WritePESPacket
<1>1. /\ Fits(p) /\ Carries(p, job.au) /\ p.ok = ok /\ p.start = job.first
      /\ p.pid = job.pid
  BY <1>w, PESFits DEF Inv
<1>2. /\ wire' = Append(wire, p) /\ BumpCC(p.pid)
      /\ UNCHANGED <<tracks, psiWritten, lastPSIDTS>>
  BY <1>1 DEF WritePESPacket
<1>r. ok => \E b \in DOMAIN wire' :
        /\ Run(wire', job.au, b, Len(wire'))
        /\ wire'[b].body.len > job.hdr.len
        /\ RunEnd(wire'[Len(wire')]) = job.total - (job.remaining - Copied)
        /\ b <= Len(wire') /\ Len(wire') \in DOMAIN wire'
  BY <1>2, <1>w, PESRun
<1> HIDE DEF p
<1>t. /\ p \in Packet /\ wire \in Seq(Packet) /\ log \in Seq(WrittenUnit)
      /\ job \in Job
  BY <1>1, <1>w DEF Fits, Inv, TypeOK
<1>j. /\ job.total \in Nat /\ job.remaining \in Nat /\ 0 < job.remaining
      /\ job.remaining <= job.total /\ job.dts \in Int
      /\ job.au = Len(log) /\ job.au > 0 /\ job.au \in DOMAIN log
      /\ job.dts = log[job.au].dts /\ job.hdr.len = log[job.au].hdr
      /\ job.total = log[job.au].total
  <2>1. /\ job.au = Len(log) /\ job.au > 0 /\ Len(log) \in Nat
        /\ job.dts = log[job.au].dts /\ job.hdr.len = log[job.au].hdr
        /\ job.total = log[job.au].total
        /\ 0 < job.remaining /\ job.remaining <= job.total
    BY <1>w, <1>t DEF Inv, JobIsLast
  <2>2. job.au \in DOMAIN log
    BY <2>1, <1>t
  <2> QED BY <2>1, <2>2, <1>t DEF Job
<1>c. Copied \in Nat /\ 0 < Copied /\ Copied <= job.remaining
  BY <1>t, <1>j, TurnFits
<1>f. job.first =>
        \E j \in 2..Len(wire) :
          /\ TablesAt(wire, j)
          /\ job.dts - wire[j].body.at \in 0..(psiIntervalTicks - 1)
  <2>1. SUFFICES ASSUME job.first
                 PROVE  \E j \in 2..Len(wire) :
                          /\ TablesAt(wire, j)
                          /\ job.dts - wire[j].body.at
                               \in 0..(psiIntervalTicks - 1)
    OBVIOUS
  <2>2. psiWritten /\ job.dts >= lastPSIDTS
        /\ job.dts - lastPSIDTS < psiIntervalTicks
    BY <2>1, <1>w DEF Inv, TablesKnown, PSIFresh
  <2>3. PICK j \in 2..Len(wire) : TablesAt(wire, j) /\ wire[j].body.at = lastPSIDTS
    BY <2>2 DEF Inv, TablesKnown
  <2>4. job.dts - lastPSIDTS \in 0..(psiIntervalTicks - 1)
    <3>1. lastPSIDTS \in Int
      BY DEF Inv, TypeOK
    <3>2. psiIntervalTicks \in Int
      BY DEF psiIntervalTicks
    <3>3. \A x, y, m \in Int : x >= y /\ x - y < m => x - y \in 0..(m - 1)
      OBVIOUS
    <3> QED BY <2>2, <3>1, <3>2, <3>3, <1>j
  <2> QED BY <2>3, <2>4
<1>k. ASSUME DOMAIN log' = DOMAIN log, pc' # "new"
      PROVE  /\ wire' \in Seq(Packet) /\ cc' \in [DOMAIN cc' -> CC]
             /\ Made' /\ CountersDue' /\ CountersCountAttempts' /\ PacketsExact'
             /\ \A k \in DOMAIN wire' :
                  wire'[k].body.kind = "es" => wire'[k].body.au \in DOMAIN log'
  BY <1>1, <1>2, <1>j, <1>k, <1>w, PacketKeeps
<1>n. psiWritten' =>
        \E j \in 2..Len(wire') : /\ TablesAt(wire', j)
                                 /\ wire'[j].body.at = lastPSIDTS'
  BY <1>2, <1>t, KnownKept DEF Inv, TablesKnown
<1>3. CASE ~ok
  BY <1>1, <1>2, <1>3, <1>w, FailKeeps DEF WritePESPacket
<1>4. CASE ok /\ job.remaining > Copied
  <2>1. /\ job' = [job EXCEPT !.remaining = @ - Copied, !.first = FALSE]
        /\ UNCHANGED <<pc, log, failures>>
    BY <1>4, <1>c, <1>j DEF WritePESPacket
  <2>2. /\ wire' \in Seq(Packet) /\ cc' \in [DOMAIN cc' -> CC]
        /\ Made' /\ CountersDue' /\ CountersCountAttempts' /\ PacketsExact'
        /\ \A k \in DOMAIN wire' :
             wire'[k].body.kind = "es" => wire'[k].body.au \in DOMAIN log'
    BY <2>1, <1>k, <1>w
  <2>3. /\ job' \in Job /\ job'.remaining = job.remaining - Copied
        /\ ~job'.first /\ job'.au = job.au /\ job'.pid = job.pid
        /\ job'.dts = job.dts /\ job'.total = job.total /\ job'.hdr = job.hdr
    <3>1. job.remaining - Copied \in Nat
      BY <1>c, <1>j
    <3> QED BY <3>1, <2>1, <1>t DEF Job
  <2>4. Writing' /\ pc' = "pes"
    BY <2>1, <1>w DEF Writing
  <2>5. TypeOK'
    BY <2>1, <2>2, <2>3, <2>4, <1>2 DEF Inv, TypeOK
  <2>6. JobIsLast'
    <3>1. 0 < job'.remaining /\ job'.remaining <= job'.total
      BY <2>3, <1>4, <1>c, <1>j
    <3> QED BY <3>1, <2>1, <2>3, <2>4, <1>2, <1>w DEF Inv, JobIsLast
  <2>7. Progress'
    <3>1. \E b \in DOMAIN wire' :
            /\ Run(wire', job'.au, b, Len(wire'))
            /\ wire'[b].body.len > job'.hdr.len
            /\ RunEnd(wire'[Len(wire')]) = job'.total - job'.remaining
      BY <1>4, <1>r, <2>3
    <3> QED BY <3>1, <2>2, <2>3, <2>4 DEF Progress
  <2>8. UnitsWhole'
    <3>1. SUFFICES ASSUME NEW a \in DOMAIN log, log[a].status = "ok"
                   PROVE  Whole(wire', a, log[a])
      BY <2>1 DEF UnitsWhole
    <3>2. a # job.au
      BY <3>1, <1>w DEF Inv, JobIsLast
    <3>3. Whole(wire, a, log[a]) /\ ~Carries(p, a)
      BY <3>1, <3>2, <1>1 DEF Inv, UnitsWhole, Carries
    <3> QED BY <3>3, <1>2, <1>t, WholeKept
  <2>9. TablesKnown'
    BY <2>3, <2>4, <1>n DEF TablesKnown
  <2>10. TablesInForce'
    <3>1. (p.ok /\ p.body.kind = "es" /\ p.start) =>
            \E j \in 2..Len(wire) :
              /\ TablesAt(wire, j)
              /\ log'[p.body.au].dts - wire[j].body.at
                   \in 0..(psiIntervalTicks - 1)
      BY <2>1, <1>1, <1>f, <1>j DEF Carries
    <3> QED BY <3>1, <2>1, <1>2, <1>t, TablesKept DEF Inv
  <2> QED BY <2>2, <2>5, <2>6, <2>7, <2>8, <2>9, <2>10 DEF Inv
<1>5. CASE ok /\ job.remaining = Copied
  <2>1. /\ job' = NoJob /\ pc' = "idle" /\ UNCHANGED failures
        /\ log' = [log EXCEPT ![job.au].status = "ok"]
    BY <1>5, <1>c, <1>j DEF WritePESPacket
  <2>l. /\ log' \in Seq(WrittenUnit) /\ Len(log') = Len(log)
        /\ DOMAIN log' = DOMAIN log
        /\ job.au \in DOMAIN log /\ log'[job.au].status = "ok"
        /\ \A a \in DOMAIN log :
             /\ log'[a].dts = log[a].dts /\ log'[a].hdr = log[a].hdr
             /\ log'[a].total = log[a].total
             /\ a # job.au => log'[a] = log[a]
    BY <2>1, <1>w, LogKept DEF Inv
  <2>2. /\ wire' \in Seq(Packet) /\ cc' \in [DOMAIN cc' -> CC]
        /\ Made' /\ CountersDue' /\ CountersCountAttempts' /\ PacketsExact'
        /\ \A k \in DOMAIN wire' :
             wire'[k].body.kind = "es" => wire'[k].body.au \in DOMAIN log'
    BY <2>1, <2>l, <1>k
  <2>3. ~Writing'
    BY <2>1 DEF Writing
  <2>4. TypeOK'
    BY <2>1, <2>2, <2>3, <2>l, <1>2 DEF Inv, TypeOK
  <2>5. JobIsLast'
    BY <2>3, <2>l, <1>j DEF Inv, JobIsLast
  <2>6. Progress'
    BY <2>1, <2>2, <2>3 DEF Progress
  <2>7. UnitsWhole'
    <3>1. SUFFICES ASSUME NEW a \in DOMAIN log, log'[a].status = "ok"
                   PROVE  Whole(wire', a, log'[a])
      BY <2>l DEF UnitsWhole
    <3>2. CASE a # job.au
      <4>1. Whole(wire, a, log[a]) /\ ~Carries(p, a) /\ log'[a] = log[a]
        BY <3>1, <3>2, <2>l, <1>1 DEF Inv, UnitsWhole, Carries
      <4> QED BY <4>1, <1>2, <1>t, WholeKept
    <3>3. CASE a = job.au
      <4>1. PICK b \in DOMAIN wire' :
              /\ Run(wire', job.au, b, Len(wire'))
              /\ wire'[b].body.len > job.hdr.len
              /\ RunEnd(wire'[Len(wire')]) = job.total - (job.remaining - Copied)
              /\ b <= Len(wire') /\ Len(wire') \in DOMAIN wire'
        BY <1>5, <1>r
      <4>2. job.total - (job.remaining - Copied) = job.total
        BY <1>5, <1>j, <1>c
      <4>3. log'[a].hdr = job.hdr.len /\ log'[a].total = job.total
        BY <3>3, <2>l, <1>j
      <4> QED BY <4>1, <4>2, <4>3, <3>3 DEF Whole
    <3> QED BY <3>2, <3>3
  <2>8. TablesKnown'
    BY <2>1, <1>n DEF TablesKnown
  <2>9. TablesInForce'
    <3>1. (p.ok /\ p.body.kind = "es" /\ p.start) =>
            \E j \in 2..Len(wire) :
              /\ TablesAt(wire, j)
              /\ log'[p.body.au].dts - wire[j].body.at
                   \in 0..(psiIntervalTicks - 1)
      <4>1. p.body.au = job.au /\ log'[job.au].dts = job.dts
        BY <2>l, <1>1, <1>j DEF Carries
      <4> QED BY <4>1, <1>1, <1>f
    <3> QED BY <3>1, <2>l, <1>2, <1>t, TablesKept DEF Inv
  <2> QED BY <2>2, <2>4, <2>5, <2>6, <2>7, <2>8, <2>9 DEF Inv
<1> QED BY <1>3, <1>4, <1>5, <1>c, <1>j

-----------------------------------------------------------------------------
(* NewWriter: the counters and nothing on the wire yet.                    *)
LEMMA NewWriterKeeps ==
  ASSUME Inv, NEW opts \in Options, NewWriter(opts) PROVE Inv'
<1>1. /\ pc = "new" /\ pc' = "idle" /\ tracks' = opts /\ ValidOptions(opts)
      /\ UNCHANGED <<psiWritten, lastPSIDTS, job, log, wire, failures>>
      /\ cc' = [p \in {opts[i].pid : i \in DOMAIN opts}
                        \cup {pidPAT, writerPMTPID} |-> 0]
  BY DEF NewWriter
<1>2. log = << >> /\ wire = << >> /\ ~psiWritten /\ ~Writing /\ ~Writing'
  BY <1>1 DEF Inv, Made, Writing
<1>3. 0 \in CC
  BY CCModAssumption DEF CC
<1>4. opts \in Seq(Track)
  BY OptionsAssumption
<1>5. TypeOK'
  BY <1>1, <1>2, <1>3, <1>4 DEF Inv, TypeOK
<1>6. Made'
  BY <1>1 DEF Made, ValidOptions
<1>7. JobIsLast' /\ Progress' /\ UnitsWhole' /\ TablesKnown' /\ TablesInForce'
      /\ CountersCountAttempts' /\ PacketsExact'
  BY <1>1, <1>2 DEF JobIsLast, Progress, UnitsWhole, TablesKnown, TablesInForce,
                    CountersCountAttempts, PacketsExact
<1>8. CountersDue'
  <2>1. \A pid : DueCC(wire', 0, pid, Len(wire'))
    BY <1>1, <1>2 DEF DueCC
  <2>2. \A pid \in DOMAIN cc' : cc'[pid] = 0
    BY <1>1
  <2> QED BY <2>1, <2>2 DEF CountersDue
<1> QED BY <1>5, <1>6, <1>7, <1>8 DEF Inv

(* The tables maybeWritePSI finds fresh are fresh.                         *)
LEMMA AccessUnitKeeps ==
  ASSUME Inv, NEW i \in DOMAIN tracks, NEW len \in Nat, NEW dts \in Int,
         NEW pts \in Int, NEW hasAUD \in BOOLEAN, NEW rai \in BOOLEAN,
         WriteAccessUnit(i, len, dts, pts, hasAUD, rai)
  PROVE  Inv'
<1> DEFINE track == tracks[i]
           hdr   == appendPESHeader(pts, dts)
           total == hdr.len + AUDLen(track.codec, hasAUD) + len
           id    == Len(log) + 1
           u     == [pid |-> track.pid, pts |-> pts, dts |-> dts,
                     rai |-> rai, hdr |-> hdr.len, total |-> total,
                     status |-> "writing"]
           jb    == [au |-> id, pid |-> track.pid, dts |-> dts, rai |-> rai,
                     withPCR |-> track.pid = pcrPID, hdr |-> hdr,
                     remaining |-> total, total |-> total, first |-> TRUE]
<1>1. /\ pc = "idle" /\ len > 0
      /\ log' = Append(log, u) /\ job' = jb
      /\ pc' = (IF PSIFresh(dts) THEN "pes" ELSE "pat")
      /\ UNCHANGED <<tracks, cc, psiWritten, lastPSIDTS, wire, failures>>
  BY DEF WriteAccessUnit
<1>2. ~Writing /\ Writing'
  BY <1>1 DEF Writing
<1>3. hdr \in Header /\ hdr.len \in {14, 19}
  BY HeaderMade DEF Header
<1>4. track.pid \in Nat /\ track.codec \in {"H264", "H265"}
  <2>1. tracks \in Seq(Track)
    BY DEF Inv, TypeOK
  <2>2. track \in Track
    BY <2>1
  <2> QED BY <2>2 DEF Track
<1>5. AUDLen(track.codec, hasAUD) \in {0, 6, 7}
  BY <1>4 DEF AUDLen
<1>6. total \in Nat /\ total > hdr.len
  <2>1. \A h \in {14, 19}, a \in {0, 6, 7}, l \in Nat :
          l > 0 => h + a + l \in Nat /\ h + a + l > h
    OBVIOUS
  <2> QED BY <2>1, <1>1, <1>3, <1>5
<1>7. log \in Seq(WrittenUnit) /\ Len(log) \in Nat /\ DOMAIN log = 1..Len(log)
  BY DEF Inv, TypeOK
<1> HIDE DEF total, hdr, track
<1>8. u \in WrittenUnit
  BY <1>3, <1>4, <1>6 DEF WrittenUnit
<1>9. jb \in Job
  BY <1>3, <1>4, <1>6, <1>7 DEF Job
<1>10. /\ log' \in Seq(WrittenUnit) /\ Len(log') = id /\ DOMAIN log' = 1..id
       /\ \A a \in DOMAIN log : a \in DOMAIN log' /\ log'[a] = log[a]
       /\ log'[id] = u /\ id \in Nat /\ id > 0 /\ id \notin DOMAIN log
  BY <1>1, <1>7, <1>8
<1>11. TypeOK'
  BY <1>1, <1>2, <1>9, <1>10 DEF Inv, TypeOK
<1>12. Made'
  BY <1>1 DEF Inv, Made, ValidOptions
<1>13. JobIsLast'
  <2>1. \A a \in DOMAIN log' : log'[a].status = "writing" => a = id
    BY <1>2, <1>7, <1>10 DEF Inv, JobIsLast
  <2>2. track.pid \in {tracks[k].pid : k \in DOMAIN tracks}
    BY DEF track
  <2>3. /\ job'.au = id /\ job'.pid = track.pid /\ job'.dts = dts
        /\ job'.total = total /\ job'.hdr = hdr /\ job'.remaining = total
    BY <1>1
  <2>4. /\ u.status = "writing" /\ u.pid = track.pid /\ u.dts = dts
        /\ u.total = total /\ u.hdr = hdr.len
    OBVIOUS
  <2>5. 0 < total /\ total <= total
    BY <1>3, <1>6
  <2> HIDE DEF u, id
  <2> QED BY <2>1, <2>2, <2>3, <2>4, <2>5, <1>1, <1>2, <1>6, <1>10 DEF JobIsLast
<1>14. Progress'
  <2>1. \A k \in DOMAIN wire : ~Carries(wire[k], id)
    BY <1>10 DEF Inv, Progress, Carries
  <2>2. job'.first /\ job'.au = id /\ job'.remaining = job'.total
    BY <1>1
  <2> HIDE DEF id
  <2> QED BY <2>1, <2>2, <1>1, <1>10 DEF Inv, Progress
<1>15. UnitsWhole'
  <2>1. SUFFICES ASSUME NEW a \in DOMAIN log', log'[a].status = "ok"
                 PROVE  Whole(wire, a, log'[a])
    BY <1>1 DEF UnitsWhole
  <2>2. a \in DOMAIN log
    BY <2>1, <1>7, <1>10
  <2> QED BY <2>1, <2>2, <1>10 DEF Inv, UnitsWhole
<1>16. CountersDue' /\ CountersCountAttempts' /\ PacketsExact'
  BY <1>1 DEF Inv, CountersDue, CountersCountAttempts, PacketsExact
<1>17. TablesKnown'
  <2>1. job'.dts = dts
    BY <1>1
  <2>2. pc' = "pes" => PSIFresh(dts)
    BY <1>1
  <2>3. pc' # "pmt"
    BY <1>1
  <2> QED BY <2>1, <2>2, <2>3, <1>1 DEF Inv, TablesKnown, PSIFresh
<1>18. TablesInForce'
  <2>1. \A k \in DOMAIN wire : wire[k].body.kind = "es" =>
          log'[wire[k].body.au] = log[wire[k].body.au]
    BY <1>10 DEF Inv, Progress
  <2> QED BY <2>1, <1>1 DEF Inv, TablesInForce
<1> QED BY <1>11, <1>12, <1>13, <1>14, <1>15, <1>16, <1>17, <1>18 DEF Inv

(* The writer's invariant holds before NewWriter.                          *)
LEMMA InitInv == WriterInit => Inv
<1> SUFFICES ASSUME WriterInit PROVE Inv
  OBVIOUS
<1>1. /\ tracks = << >> /\ cc = [p \in {} |-> 0] /\ psiWritten = FALSE
      /\ lastPSIDTS = 0 /\ pc = "new" /\ job = NoJob /\ log = << >>
      /\ wire = << >> /\ failures = 0 /\ ~Writing
  BY DEF WriterInit, Writing
<1>2. TypeOK
  <2>1. cc \in [DOMAIN cc -> CC]
    BY <1>1
  <2>2. failures \in 0..MaxFailures
    BY <1>1, MaxFailuresAssumption
  <2>3. /\ tracks \in Seq(Track) /\ log \in Seq(WrittenUnit)
        /\ wire \in Seq(Packet)
    BY <1>1
  <2>4. psiWritten \in BOOLEAN
    BY <1>1, Zenon
  <2>5. lastPSIDTS \in Int /\ pc \in {"new", "idle", "pat", "pmt", "pes", "closed"}
    BY <1>1
  <2> QED BY <1>1, <2>1, <2>2, <2>3, <2>4, <2>5, Zenon DEF TypeOK
<1>3. Made
  BY <1>1 DEF Made
<1>4. JobIsLast /\ Progress /\ UnitsWhole /\ CountersCountAttempts
      /\ TablesKnown /\ TablesInForce /\ PacketsExact /\ CountersDue
  BY <1>1 DEF JobIsLast, Progress, UnitsWhole, CountersCountAttempts,
              TablesKnown, TablesInForce, PacketsExact, CountersDue
<1> QED BY <1>2, <1>3, <1>4 DEF Inv

(* Every step of the writer keeps its invariant.                           *)
LEMMA NextInv == Inv /\ [WriterNext]_wvars => Inv'
<1> SUFFICES ASSUME Inv, [WriterNext]_wvars PROVE Inv'
  OBVIOUS
<1>1. CASE \E opts \in Options : NewWriter(opts)
  BY <1>1, NewWriterKeeps
<1>2. CASE \E i \in DOMAIN tracks :
             /\ Len(log) < Len(Calls[tracks])
             /\ \E in \in Calls[tracks][Len(log) + 1] :
                  LET dts == LastDTS + in.step
                  IN WriteAccessUnit(i, in.len, dts, dts + in.reorder,
                                     in.aud, in.rai)
  <2>1. PICK i \in DOMAIN tracks, in \in Calls[tracks][Len(log) + 1] :
          /\ Len(log) < Len(Calls[tracks])
          /\ WriteAccessUnit(i, in.len, LastDTS + in.step,
                             (LastDTS + in.step) + in.reorder, in.aud, in.rai)
    BY <1>2
  <2>2. pc # "new"
    BY <2>1 DEF WriteAccessUnit
  <2>3. Calls[tracks] \in Seq(SUBSET Input)
    BY <2>2, CallsAssumption DEF Inv, Made
  <2>4. log \in Seq(WrittenUnit) /\ Len(log) \in Nat
    BY DEF Inv, TypeOK
  <2>5. Len(log) + 1 \in 1..Len(Calls[tracks])
    BY <2>1, <2>3, <2>4
  <2>6. in \in Input
    BY <2>1, <2>3, <2>5
  <2>7. LastDTS \in Int
    <3>1. CASE log = << >>
      BY <3>1, FirstDTSAssumption DEF LastDTS
    <3>2. CASE log # << >>
      <4>1. log[Len(log)] \in WrittenUnit
        BY <3>2, <2>4
      <4> QED BY <3>2, <4>1 DEF LastDTS, WrittenUnit
    <3> QED BY <3>1, <3>2
  <2>8. /\ in.len \in Nat /\ in.step \in Int /\ in.reorder \in Int
        /\ in.aud \in BOOLEAN /\ in.rai \in BOOLEAN
    BY <2>6 DEF Input
  <2>9. LastDTS + in.step \in Int /\ (LastDTS + in.step) + in.reorder \in Int
    BY <2>7, <2>8
  <2> QED BY <2>1, <2>8, <2>9, AccessUnitKeeps
<1>3. CASE \E ok \in BOOLEAN : WritePAT(ok) \/ WritePMT(ok) \/ WritePESPacket(ok)
  BY <1>3, WritePATKeeps, WritePMTKeeps, WritePESKeeps
<1>4. CASE Close \/ UNCHANGED wvars
  <2>1. /\ UNCHANGED <<tracks, cc, psiWritten, lastPSIDTS, job, log, wire, failures>>
        /\ pc' = pc \/ (pc = "idle" /\ pc' = "closed")
    BY <1>4 DEF Close, wvars
  <2>2. Writing' = Writing /\ (pc = "new" <=> pc' = "new")
        /\ (pc = "pmt" <=> pc' = "pmt") /\ (pc = "pes" <=> pc' = "pes")
        /\ (pc = "pat" <=> pc' = "pat")
    BY <2>1 DEF Writing
  <2>3. TypeOK'
    BY <2>1, <2>2 DEF Inv, TypeOK
  <2>4. Made'
    BY <2>1, <2>2 DEF Inv, Made, ValidOptions
  <2>5. JobIsLast'
    BY <2>1, <2>2 DEF Inv, JobIsLast
  <2>6. Progress'
    BY <2>1, <2>2 DEF Inv, Progress
  <2>7. UnitsWhole' /\ CountersDue' /\ CountersCountAttempts' /\ PacketsExact'
    BY <2>1 DEF Inv, UnitsWhole, CountersDue, CountersCountAttempts, PacketsExact
  <2>8. TablesKnown' /\ TablesInForce'
    BY <2>1, <2>2 DEF Inv, TablesKnown, TablesInForce, PSIFresh
  <2> QED BY <2>3, <2>4, <2>5, <2>6, <2>7, <2>8 DEF Inv
<1> QED BY <1>1, <1>2, <1>3, <1>4 DEF WriterNext

(* So it always holds.                                                     *)
LEMMA InvHolds == WriterSpec => []Inv
BY InitInv, NextInv, PTL DEF WriterSpec

(* Every packet handed to dst.Write is 188 bytes long, whatever the length *)
(* of the unit, and its adaptation field can be marshalled (writePES).     *)
THEOREM PacketsExactHolds == WriterSpec => []PacketsExact
<1>1. Inv => PacketsExact
  BY DEF Inv
<1> QED BY <1>1, InvHolds, PTL

(* A unit whose call returned no error is on the wire as a whole, and no   *)
(* stray packet claims to be of it (writeAccessUnit).                      *)
THEOREM UnitsWholeHolds == WriterSpec => []UnitsWhole
<1>1. Inv => UnitsWhole
  BY DEF Inv
<1> QED BY <1>1, InvHolds, PTL

(* Counters count attempts, for a counter of any width (nextCC).           *)
THEOREM CountersHold == WriterSpec => []CountersCountAttempts
<1>1. Inv => CountersCountAttempts
  BY DEF Inv
<1> QED BY <1>1, InvHolds, PTL

(* No unit starts without PAT and PMT in force, whatever failed and        *)
(* however the DTS moved (maybeWritePSI).                                  *)
THEOREM TablesHold == WriterSpec => []TablesInForce
<1>1. Inv => TablesInForce
  BY DEF Inv
<1> QED BY <1>1, InvHolds, PTL

-----------------------------------------------------------------------------
(* The log and the wire grow, and say of what is there what they said.     *)
SameUnit(u, v) ==
  /\ v.pid = u.pid /\ v.pts = u.pts /\ v.dts = u.dts /\ v.rai = u.rai
  /\ v.hdr = u.hdr /\ v.total = u.total
  /\ u.status = "ok" => v.status = "ok"

LogGrows ==
  /\ log \in Seq(WrittenUnit) /\ log' \in Seq(WrittenUnit) /\ Len(log) <= Len(log')
  /\ \A a \in DOMAIN log : a \in DOMAIN log' /\ SameUnit(log[a], log'[a])

WireGrows ==
  /\ wire \in Seq(Packet) /\ wire' \in Seq(Packet) /\ Len(wire) <= Len(wire')
  /\ \A k \in 1..Len(wire) : wire'[k] = wire[k]

(* A step that leaves the log alone.                                       *)
LEMMA LogSame ==
  ASSUME log \in Seq(WrittenUnit), log' = log
  PROVE  LogGrows
BY DEF LogGrows, SameUnit

(* WriteAccessUnit opens a unit.                                           *)
LEMMA LogAppended ==
  ASSUME log \in Seq(WrittenUnit), NEW u \in WrittenUnit, log' = Append(log, u)
  PROVE  LogGrows /\ Len(log') = Len(log) + 1 /\ log'[Len(log) + 1] = u
         /\ \A a \in DOMAIN log : log'[a] = log[a]
<1>1. /\ log' \in Seq(WrittenUnit) /\ Len(log') = Len(log) + 1 /\ Len(log) \in Nat
      /\ \A a \in DOMAIN log : a \in DOMAIN log' /\ log'[a] = log[a]
      /\ log'[Len(log) + 1] = u
  OBVIOUS
<1> QED BY <1>1 DEF LogGrows, SameUnit

(* WriteAccessUnit returns, with or without an error.                      *)
LEMMA LogMarked ==
  ASSUME TypeOK, JobIsLast, Writing, NEW s \in {"ok", "failed"},
         log' = [log EXCEPT ![job.au].status = s]
  PROVE  LogGrows /\ Len(log') = Len(log) /\ job.au \in DOMAIN log
         /\ log'[job.au].status = s
<1>1. log \in Seq(WrittenUnit) /\ Len(log) \in Nat
  BY DEF TypeOK
<1>2. job.au \in DOMAIN log /\ job.au \in 1..Len(log) /\ log[job.au].status = "writing"
  BY <1>1 DEF JobIsLast
<1>3. log[job.au] \in WrittenUnit
  BY <1>1, <1>2
<1>4. [log[job.au] EXCEPT !.status = s] \in WrittenUnit
  BY <1>3 DEF WrittenUnit
<1>5. log' = [log EXCEPT ![job.au] = [log[job.au] EXCEPT !.status = s]]
  OBVIOUS
<1> HIDE DEF WrittenUnit
<1>6. log' \in Seq(WrittenUnit) /\ Len(log') = Len(log) /\ DOMAIN log' = DOMAIN log
  BY <1>1, <1>2, <1>4, <1>5
<1>7. /\ log'[job.au] = [log[job.au] EXCEPT !.status = s]
      /\ \A a \in DOMAIN log : a # job.au => log'[a] = log[a]
  BY <1>1, <1>2, <1>5
<1>8. SameUnit(log[job.au], log'[job.au]) /\ log'[job.au].status = s
  BY <1>2, <1>3, <1>7 DEF WrittenUnit, SameUnit
<1>9. \A a \in DOMAIN log : SameUnit(log[a], log'[a])
  BY <1>7, <1>8 DEF SameUnit
<1> QED BY <1>1, <1>2, <1>6, <1>8, <1>9 DEF LogGrows

(* A step that writes nothing.                                             *)
LEMMA WireSame ==
  ASSUME wire \in Seq(Packet), wire' = wire
  PROVE  WireGrows
BY DEF WireGrows

(* A step that calls dst.Write once.                                       *)
LEMMA WireAppended ==
  ASSUME wire \in Seq(Packet), NEW p \in Packet, wire' = Append(wire, p)
  PROVE  WireGrows
BY OneMore DEF WireGrows

(* Packets that are there keep what they say.                              *)
LEMMA TellsKept ==
  ASSUME LogGrows, WireGrows, tracks' = tracks, NEW k \in DOMAIN wire,
         IF IsES(wire[k]) THEN UnitPacket(k) ELSE TablePiece(wire[k])
  PROVE  (IF IsES(wire[k]) THEN UnitPacket(k) ELSE TablePiece(wire[k]))'
<1>1. /\ Len(wire) \in Nat /\ DOMAIN wire = 1..Len(wire) /\ k \in 1..Len(wire)
      /\ wire'[k] = wire[k] /\ k \in Nat
  BY DEF WireGrows
<1>2. CASE ~IsES(wire[k])
  <2>1. TablePiece(wire[k]) /\ PMTSection' = PMTSection
    BY <1>2 DEF PMTSection
  <2>2. TablePiece(wire[k])'
    BY <1>1, <2>1 DEF TablePiece
  <2> QED BY <1>1, <1>2, <2>2 DEF IsES
<1>3. CASE IsES(wire[k])
  <2> DEFINE p == wire[k]
             u == log[p.body.au]
             v == log'[p.body.au]
  <2>1. UnitPacket(k)
    BY <1>3
  <2>2. /\ p.body.au \in DOMAIN log
        /\ p.pid = u.pid /\ p.body.len > 0 /\ RunEnd(p) <= u.total
        /\ p.start => /\ p.body.off = 0 /\ p.body.len > u.hdr /\ p.rai = u.rai
                      /\ p.body.pes = appendPESHeader(u.pts, u.dts)
                      /\ p.body.pes.len = u.hdr
                      /\ \A j \in 1..(k - 1) :
                           IsES(wire[j]) => wire[j].body.au < p.body.au
        /\ ~p.start => /\ k > 1 /\ IsES(wire[k - 1]) /\ wire[k - 1].ok
                       /\ GoesOn(wire[k - 1], p)
    BY <2>1 DEF UnitPacket
  <2>3. /\ p.body.au \in DOMAIN log' /\ v.pid = u.pid /\ v.pts = u.pts
        /\ v.dts = u.dts /\ v.rai = u.rai /\ v.hdr = u.hdr /\ v.total = u.total
    BY <2>2 DEF LogGrows, SameUnit
  <2>4. \A j \in 1..(k - 1) : wire'[j] = wire[j]
    <3>1. \A j \in 1..(k - 1) : j \in 1..Len(wire)
      BY <1>1
    <3> QED BY <3>1 DEF WireGrows
  <2>5. k > 1 => k - 1 \in 1..(k - 1)
    BY <1>1
  <2>6. k > 1 => wire'[k - 1] = wire[k - 1]
    BY <2>4, <2>5
  <2>7. UnitPacket(k)'
    BY <1>1, <2>2, <2>3, <2>4, <2>6, Zenon DEF UnitPacket
  <2> QED BY <1>1, <1>3, <2>7 DEF IsES
<1> QED BY <1>2, <1>3

(* So do the packets after which their unit is complete or goes on.        *)
LEMMA FlowsKept ==
  ASSUME LogGrows, WireGrows, WireTells, NEW k \in DOMAIN wire,
         LET p == wire[k]
         IN IsES(p) /\ p.ok =>
              \/ RunEnd(p) = log[p.body.au].total /\ log[p.body.au].status = "ok"
              \/ k < Len(wire) /\ GoesOn(p, wire[k + 1])
  PROVE  LET p == wire'[k]
         IN IsES(p) /\ p.ok =>
              \/ RunEnd(p) = log'[p.body.au].total /\ log'[p.body.au].status = "ok"
              \/ k < Len(wire') /\ GoesOn(p, wire'[k + 1])
<1>1. /\ Len(wire) \in Nat /\ DOMAIN wire = 1..Len(wire) /\ k \in 1..Len(wire)
      /\ wire'[k] = wire[k] /\ k \in Nat /\ Len(wire') \in Nat
      /\ Len(wire) <= Len(wire')
  BY DEF WireGrows
<1>2. IsES(wire[k]) => wire[k].body.au \in DOMAIN log
  BY DEF WireTells, UnitPacket
<1>3. CASE k < Len(wire) /\ GoesOn(wire[k], wire[k + 1])
  <2>1. k + 1 \in 1..Len(wire) /\ k < Len(wire')
    BY <1>1, <1>3
  <2>2. wire'[k + 1] = wire[k + 1]
    BY <2>1 DEF WireGrows
  <2> QED BY <1>1, <1>3, <2>1, <2>2
<1>4. CASE IsES(wire[k]) /\ RunEnd(wire[k]) = log[wire[k].body.au].total
           /\ log[wire[k].body.au].status = "ok"
  <2>1. SameUnit(log[wire[k].body.au], log'[wire[k].body.au])
    BY <1>2, <1>4 DEF LogGrows
  <2> QED BY <1>1, <1>4, <2>1 DEF SameUnit
<1> QED BY <1>1, <1>3, <1>4

(* Units that are there keep their times.                                  *)
LEMMA TimesKept ==
  ASSUME LogGrows, LogTimes, Len(log') = Len(log), tracks' = tracks
  PROVE  LogTimes'
<1>1. DOMAIN log = 1..Len(log) /\ DOMAIN log' = 1..Len(log) /\ Len(log) \in Nat
  BY DEF LogGrows
<1>2. \A a \in DOMAIN log : log'[a].dts = log[a].dts /\ log'[a].pts = log[a].pts
  BY DEF LogGrows, SameUnit
<1>3. log' # << >> => log # << >>
  BY <1>1
<1>4. log' # << >> => tracks' \in Options /\ Len(log') <= Len(Calls[tracks'])
  BY <1>3 DEF LogTimes
<1>5. \A a, b \in DOMAIN log' :
        a < b => /\ log'[a].dts <= log'[b].dts
                 /\ (log'[b].dts - log'[a].dts) * Len(Calls[tracks'])
                      <= (b - a) * (Half - 1)
  BY <1>1, <1>2, Zenon DEF LogTimes
<1>6. \A a \in DOMAIN log' : /\ -Half < log'[a].pts - log'[a].dts
                             /\ log'[a].pts - log'[a].dts < Half
  BY <1>1, <1>2, Zenon DEF LogTimes
<1> QED BY <1>4, <1>5, <1>6 DEF LogTimes

(* One more packet, when it says what it has to and the one before it is   *)
(* complete or goes on.                                                    *)
LEMMA OneMoreTells ==
  ASSUME WireTells, LogGrows, wire \in Seq(Packet), NEW p \in Packet,
         wire' = Append(wire, p), tracks' = tracks,
         (IF IsES(wire[Len(wire)]) THEN UnitPacket(Len(wire))
          ELSE TablePiece(wire[Len(wire)]))'
  PROVE  WireTells'
<1>1. /\ Len(wire) \in Nat /\ Len(wire') = Len(wire) + 1
      /\ DOMAIN wire = 1..Len(wire) /\ DOMAIN wire' = 1..(Len(wire) + 1)
  BY OneMore
<1>2. WireGrows
  BY WireAppended
<1>3. \A k \in DOMAIN wire :
        (IF IsES(wire[k]) THEN UnitPacket(k) ELSE TablePiece(wire[k]))'
  BY <1>2, TellsKept DEF WireTells
<1>4. \A k \in DOMAIN wire' : k \in DOMAIN wire \/ k = Len(wire')
  BY <1>1
<1> QED BY <1>3, <1>4 DEF WireTells

(* A new packet of a unit continues the one before it, or starts.          *)
LEMMA OneMoreFlows ==
  ASSUME WireTells, WireFlows, LogGrows, wire \in Seq(Packet), NEW p \in Packet,
         wire' = Append(wire, p),
         (wire # << >> /\ pc = "pes" /\ ~job.first
          /\ Carries(wire[Len(wire)], job.au)
          /\ RunEnd(wire[Len(wire)]) = job.total - job.remaining)
            => GoesOn(wire[Len(wire)], p),
         IsES(p) /\ p.ok =>
           \/ RunEnd(p) = log'[p.body.au].total /\ log'[p.body.au].status = "ok"
           \/ /\ pc' = "pes" /\ ~job'.first /\ job'.au = p.body.au
              /\ job'.total - job'.remaining = RunEnd(p)
  PROVE  WireFlows'
<1> DEFINE n == Len(wire)
<1>1. /\ n \in Nat /\ Len(wire') = n + 1 /\ DOMAIN wire = 1..n
      /\ DOMAIN wire' = 1..(n + 1) /\ wire'[n + 1] = p
      /\ \A k \in 1..n : wire'[k] = wire[k]
  BY OneMore
<1>2. WireGrows
  BY WireAppended
<1> SUFFICES ASSUME NEW k \in DOMAIN wire', IsES(wire'[k]), wire'[k].ok
             PROVE  \/ RunEnd(wire'[k]) = log'[wire'[k].body.au].total
                       /\ log'[wire'[k].body.au].status = "ok"
                    \/ k < Len(wire') /\ GoesOn(wire'[k], wire'[k + 1])
                    \/ /\ k = Len(wire') /\ pc' = "pes" /\ ~job'.first
                       /\ job'.au = wire'[k].body.au
                       /\ job'.total - job'.remaining = RunEnd(wire'[k])
  BY DEF WireFlows, IsES, RunEnd, GoesOn
<1> HIDE DEF n
<1>3. CASE k = n + 1
  BY <1>1, <1>3
<1>4. CASE k \in 1..n
  <2>1. wire'[k] = wire[k] /\ k \in DOMAIN wire /\ k < Len(wire') /\ k \in Nat
    BY <1>1, <1>4
  <2>2. CASE \/ RunEnd(wire[k]) = log[wire[k].body.au].total
                /\ log[wire[k].body.au].status = "ok"
             \/ k < Len(wire) /\ GoesOn(wire[k], wire[k + 1])
    BY <1>2, <2>1, <2>2, FlowsKept
  <2>3. CASE /\ k = Len(wire) /\ pc = "pes" /\ ~job.first /\ job.au = wire[k].body.au
             /\ job.total - job.remaining = RunEnd(wire[k])
    <3>1. Carries(wire[k], job.au) /\ wire # << >>
      BY <2>1, <2>3, <1>1 DEF Carries, IsES
    <3>2. GoesOn(wire[k], p)
      BY <2>3, <3>1
    <3>3. wire'[k + 1] = p
      BY <2>3, <1>1 DEF n
    <3> QED BY <2>1, <3>2, <3>3
  <2> QED BY <2>1, <2>2, <2>3 DEF WireFlows, IsES
<1> QED BY <1>1, <1>3, <1>4

(* A table on the wire, written or refused.                                *)
LEMMA TableTells ==
  ASSUME WireInv, Writing, pc \in {"pat", "pmt"}, NEW ok \in BOOLEAN,
         NEW p, \/ p = SectionPacket(pidPAT, PATBody, ok)
                \/ p = SectionPacket(writerPMTPID, PMTBody, ok),
         wire' = Append(wire, p), tracks' = tracks, LogGrows
  PROVE  WireTells' /\ WireFlows'
<1>1. Fits(p) /\ p.body.kind = "psi"
  BY SectionFits DEF WireInv, Inv
<1>2. p \in Packet /\ wire \in Seq(Packet)
  BY <1>1 DEF Fits, WireInv, Inv, TypeOK
<1>3. Len(wire') = Len(wire) + 1 /\ wire'[Len(wire')] = p
  BY <1>2, OneMore
<1>4. PMTSection' = PMTSection
  BY DEF PMTSection
<1>5. /\ p.start /\ p.body.off = 0 /\ p.body.ptr /\ p.body.len = p.body.total
      /\ \/ p.pid = pidPAT /\ p.body.sec = PATSection
         \/ p.pid = writerPMTPID /\ p.body.sec = PMTSection
  <2>1. CASE p = SectionPacket(pidPAT, PATBody, ok)
    BY <2>1 DEF SectionPacket, PATBody, SectionBody
  <2>2. CASE p = SectionPacket(writerPMTPID, PMTBody, ok)
    BY <2>2 DEF SectionPacket, PMTBody, SectionBody
  <2> QED BY <2>1, <2>2
<1>6. (IF IsES(wire[Len(wire)]) THEN UnitPacket(Len(wire))
       ELSE TablePiece(wire[Len(wire)]))'
  BY <1>1, <1>3, <1>4, <1>5 DEF IsES, TablePiece
<1>7. WireTells'
  BY <1>2, <1>6, OneMoreTells DEF WireInv
<1>8. WireFlows'
  BY <1>1, <1>2, OneMoreFlows DEF WireInv, IsES
<1> QED BY <1>7, <1>8

(* A packet of the unit under way, written or refused.                     *)
LEMMA UnitTells ==
  ASSUME WireInv, pc = "pes", NEW ok \in BOOLEAN, NEW p, p = PESPacket(ok),
         wire' = Append(wire, p), tracks' = tracks, LogGrows,
         ok => \/ Copied = job.remaining /\ log'[job.au].status = "ok"
               \/ /\ pc' = "pes" /\ ~job'.first /\ job'.au = job.au
                  /\ job'.total = job.total
                  /\ job'.remaining = job.remaining - Copied
  PROVE  WireTells' /\ WireFlows'
<1>w. Writing
  BY DEF Writing
<1>1. /\ Fits(p) /\ Carries(p, job.au)
      /\ p.ok = ok /\ p.start = job.first /\ p.pid = job.pid
      /\ p.body.off = job.total - job.remaining /\ p.body.len = Copied
  BY <1>w, PESFits DEF WireInv, Inv
<1>2. p \in Packet /\ wire \in Seq(Packet) /\ log \in Seq(WrittenUnit)
  BY <1>1 DEF Fits, WireInv, Inv, TypeOK
<1>3. /\ job \in Job /\ job.au = Len(log) /\ job.au > 0
      /\ job.pid = log[job.au].pid /\ job.total = log[job.au].total
      /\ job.hdr.len = log[job.au].hdr /\ job.hdr.len < job.total
      /\ 0 < job.remaining /\ job.remaining <= job.total
      /\ job.hdr = appendPESHeader(log[job.au].pts, log[job.au].dts)
      /\ job.rai = log[job.au].rai
  BY <1>w DEF WireInv, Inv, TypeOK, JobIsLast, JobTells
<1>4. /\ job.total \in Nat /\ job.remaining \in Nat /\ job.hdr.len \in {14, 19}
      /\ job.first \in BOOLEAN /\ job.rai \in BOOLEAN
  BY <1>3 DEF Job, Header
<1>5. /\ Copied \in Nat /\ 0 < Copied /\ Copied <= job.remaining
      /\ Copied < job.remaining => Copied >= 176
  BY <1>3, TurnFits
<1>6. job.au \in DOMAIN log /\ SameUnit(log[job.au], log'[job.au])
      /\ job.au \in DOMAIN log'
  <2>1. Len(log) \in Nat /\ DOMAIN log = 1..Len(log)
    BY <1>2
  <2> QED BY <2>1, <1>3 DEF LogGrows
<1> DEFINE n == Len(wire)
<1>7. /\ n \in Nat /\ DOMAIN wire = 1..n /\ Len(wire') = n + 1
      /\ \A k \in 1..n : wire'[k] = wire[k]
      /\ wire'[n + 1] = p
  BY <1>2, OneMore
<1>8. RunEnd(p) = job.total - (job.remaining - Copied) /\ RunEnd(p) <= job.total
  <2>1. RunEnd(p) = (job.total - job.remaining) + Copied
    BY <1>1 DEF RunEnd
  <2>2. \A x, y, z \in Nat : (x - y) + z = x - (y - z) /\ (z <= y => (x - y) + z <= x)
    OBVIOUS
  <2> QED BY <2>1, <2>2, <1>4, <1>5
<1>9. IsES(p) /\ p.body.au = job.au
  BY <1>1 DEF Carries, IsES
<1>10. p.start =>
         /\ p.body.off = 0 /\ p.body.len > job.hdr.len /\ p.rai = job.rai
         /\ p.body.pes = job.hdr
         /\ \A j \in 1..n : IsES(wire[j]) => wire[j].body.au < job.au
  <2> SUFFICES ASSUME job.first
               PROVE  /\ p.body.off = 0 /\ p.body.len > job.hdr.len /\ p.rai = job.rai
                      /\ p.body.pes = job.hdr
                      /\ \A j \in 1..n : IsES(wire[j]) => wire[j].body.au < job.au
    BY <1>1
  <2>1. job.remaining = job.total /\ \A k \in DOMAIN wire : ~Carries(wire[k], job.au)
    BY <1>w DEF WireInv, Inv, Progress
  <2>2. p.body.off = 0 /\ p.body.len > job.hdr.len
    BY <2>1, <1>1, <1>3, <1>4, <1>5
  <2>3. p.rai = job.rai /\ p.body.pes = job.hdr
    BY <1>4 DEF PESPacket
  <2>4. ASSUME NEW j \in 1..n, IsES(wire[j]) PROVE wire[j].body.au < job.au
    <3>1. wire[j].body.au \in DOMAIN log
      BY <2>4, <1>7 DEF WireInv, WireTells, UnitPacket
    <3>2. wire[j].body.au # job.au
      BY <2>1, <2>4, <1>7 DEF Carries, IsES
    <3> QED BY <3>1, <3>2, <1>2, <1>3
  <2> QED BY <2>2, <2>3, <2>4
<1>11. ~job.first =>
         /\ n > 0 /\ IsES(wire[n]) /\ wire[n].ok /\ GoesOn(wire[n], p)
  <2> SUFFICES ASSUME ~job.first
               PROVE  n > 0 /\ IsES(wire[n]) /\ wire[n].ok /\ GoesOn(wire[n], p)
    OBVIOUS
  <2>1. PICK b \in DOMAIN wire :
           /\ Run(wire, job.au, b, n)
           /\ RunEnd(wire[n]) = job.total - job.remaining
    BY <1>w DEF WireInv, Inv, Progress
  <2>2. n > 0 /\ n \in DOMAIN wire /\ n \in b..n
    BY <2>1, <1>7
  <2>3. Carries(wire[n], job.au) /\ wire[n].ok
    BY <2>1, <2>2 DEF Run
  <2>4. wire[n].pid = job.pid
    BY <2>2, <2>3, <1>3 DEF WireInv, WireTells, UnitPacket, Carries, IsES
  <2> QED BY <2>1, <2>2, <2>3, <2>4, <1>1, <1>9 DEF GoesOn, Carries, IsES
<1>12. UnitPacket(Len(wire))'
  <2>1. /\ p.body.au \in DOMAIN log' /\ p.pid = log'[p.body.au].pid
        /\ p.body.len > 0 /\ RunEnd(p) <= log'[p.body.au].total
    BY <1>1, <1>3, <1>5, <1>6, <1>8, <1>9 DEF SameUnit
  <2>2. p.start =>
          /\ p.body.off = 0 /\ p.body.len > log'[p.body.au].hdr
          /\ p.rai = log'[p.body.au].rai
          /\ p.body.pes = appendPESHeader(log'[p.body.au].pts, log'[p.body.au].dts)
          /\ p.body.pes.len = log'[p.body.au].hdr
    BY <1>3, <1>6, <1>9, <1>10, Zenon DEF SameUnit
  <2>3. (n + 1) - 1 = n /\ (n > 0 => n + 1 > 1 /\ wire'[n] = wire[n])
    <3> HIDE DEF n
    <3> QED BY <1>7
  <2>4. p.start => \A j \in 1..((n + 1) - 1) :
                     IsES(wire'[j]) => wire'[j].body.au < p.body.au
    BY <2>3, <1>7, <1>9, <1>10
  <2>5. ~p.start => /\ n + 1 > 1 /\ IsES(wire'[(n + 1) - 1]) /\ wire'[(n + 1) - 1].ok
                    /\ GoesOn(wire'[(n + 1) - 1], p)
    BY <2>3, <1>1, <1>11
  <2>6. wire'[n + 1] = p /\ Len(wire') = n + 1
    BY <1>7
  <2> HIDE DEF n
  <2> QED BY <2>1, <2>2, <2>4, <2>5, <2>6, Zenon DEF UnitPacket
<1>13. WireTells'
  <2>1. (IF IsES(wire[Len(wire)]) THEN UnitPacket(Len(wire))
         ELSE TablePiece(wire[Len(wire)]))'
    BY <1>7, <1>9, <1>12 DEF IsES
  <2> QED BY <1>2, <2>1, OneMoreTells DEF WireInv
<1>14. IsES(p) /\ p.ok =>
         \/ RunEnd(p) = log'[p.body.au].total /\ log'[p.body.au].status = "ok"
         \/ /\ pc' = "pes" /\ ~job'.first /\ job'.au = p.body.au
            /\ job'.total - job'.remaining = RunEnd(p)
  <2> SUFFICES ASSUME ok
               PROVE  \/ RunEnd(p) = log'[p.body.au].total /\ log'[p.body.au].status = "ok"
                      \/ /\ pc' = "pes" /\ ~job'.first /\ job'.au = p.body.au
                         /\ job'.total - job'.remaining = RunEnd(p)
    BY <1>1
  <2>1. CASE Copied = job.remaining /\ log'[job.au].status = "ok"
    <3>0. \A x, y \in Nat : x - (y - y) = x
      OBVIOUS
    <3>1. RunEnd(p) = job.total
      BY <3>0, <2>1, <1>4, <1>8, Zenon
    <3> QED BY <2>1, <3>1, <1>3, <1>6, <1>9 DEF SameUnit
  <2>2. CASE /\ pc' = "pes" /\ ~job'.first /\ job'.au = job.au
             /\ job'.total = job.total /\ job'.remaining = job.remaining - Copied
    BY <2>2, <1>8, <1>9
  <2> QED BY <2>1, <2>2
<1>15. WireFlows'
  BY <1>2, <1>11, <1>14, OneMoreFlows DEF WireInv
<1> QED BY <1>13, <1>15

-----------------------------------------------------------------------------
(* What a step of the writer may do, for those who watch the wire.         *)
WriterMoves ==
  /\ LogGrows /\ WireGrows
  /\ pc # "new" => pc' # "new" /\ tracks' = tracks
  /\ pc = "closed" => pc' = "closed" /\ wire' = wire
  /\ Len(log') = Len(log) \/ (Len(log') = Len(log) + 1 /\ Writing')
  /\ \/ /\ wire' = wire /\ (pc # "new" => cc' = cc)
        /\ pc' = "pes" /\ ~job'.first => pc = "pes" /\ job' = job
     \/ \E p \in Packet :
          /\ pc # "new" /\ wire' = Append(wire, p)
          /\ p.pid \in DOMAIN cc /\ p.cc = cc[p.pid] /\ BumpCC(p.pid)
          /\ IsES(p) /\ ~p.start => pc = "pes" /\ ~job.first /\ job.pid = p.pid

(* Without a packet only the log may grow.                                 *)
LEMMA QuietKeeps ==
  ASSUME WireTells, WireFlows, LogGrows, wire \in Seq(Packet), wire' = wire,
         tracks' = tracks, pc # "pes"
  PROVE  WireTells' /\ WireFlows' /\ WireGrows
<1>1. WireGrows
  BY WireSame
<1>2. WireTells'
  BY <1>1, TellsKept DEF WireTells
<1>3. WireFlows'
  <2> SUFFICES ASSUME NEW k \in DOMAIN wire, IsES(wire[k]), wire[k].ok
               PROVE  \/ RunEnd(wire[k]) = log'[wire[k].body.au].total
                         /\ log'[wire[k].body.au].status = "ok"
                      \/ k < Len(wire) /\ GoesOn(wire[k], wire[k + 1])
    BY DEF WireFlows, IsES, RunEnd, GoesOn
  <2>1. \/ RunEnd(wire[k]) = log[wire[k].body.au].total /\ log[wire[k].body.au].status = "ok"
        \/ k < Len(wire) /\ GoesOn(wire[k], wire[k + 1])
    BY DEF WireFlows
  <2> QED BY <2>1, <1>1, FlowsKept
<1> QED BY <1>1, <1>2, <1>3

(* The tracks of the units, from the one written now.                      *)
LEMMA PidsKept ==
  ASSUME LogPids, LogGrows, JobIsLast', tracks' = tracks,
         Len(log') = Len(log) \/ (Len(log') = Len(log) + 1 /\ Writing')
  PROVE  LogPids'
<1>1. Len(log) \in Nat /\ DOMAIN log = 1..Len(log) /\ DOMAIN log' = 1..Len(log')
  BY DEF LogGrows
<1>2. \A a \in DOMAIN log' : a \in DOMAIN log \/ (Writing' /\ a = Len(log'))
  <2>1. CASE Len(log') = Len(log)
    BY <1>1, <2>1
  <2>2. CASE Len(log') = Len(log) + 1 /\ Writing'
    <3>1. \A a \in DOMAIN log' : a \in DOMAIN log \/ a = Len(log')
      BY <1>1, <2>2
    <3> QED BY <2>2, <3>1, Zenon
  <2> QED BY <2>1, <2>2
<1>3. \A a \in DOMAIN log : log'[a].pid = log[a].pid
  BY DEF LogGrows, SameUnit
<1>4. Writing' => log'[Len(log')].pid \in {tracks[i].pid : i \in DOMAIN tracks}
  BY DEF JobIsLast
<1> QED BY <1>2, <1>3, <1>4 DEF LogPids

(* NewWriter has written nothing.                                          *)
LEMMA NewWriterTells ==
  ASSUME WireInv, NEW opts \in Options, NewWriter(opts)
  PROVE  WireInv' /\ WriterMoves
<1>1. /\ pc = "new" /\ pc' = "idle" /\ log = << >> /\ wire = << >>
      /\ log' = log /\ wire' = wire
  BY DEF NewWriter, WireInv, Inv, Made
<1>2. Inv'
  BY NewWriterKeeps DEF WireInv
<1>3. wire \in Seq(Packet) /\ log \in Seq(WrittenUnit)
  BY DEF WireInv, Inv, TypeOK
<1>4. LogGrows /\ WireGrows
  BY <1>1, <1>3, LogSame, WireSame
<1>5. DOMAIN wire = {} /\ DOMAIN log = {}
  BY <1>1
<1>6. WireTells' /\ WireFlows' /\ LogTimes' /\ LogPids'
  BY <1>1, <1>5 DEF WireTells, WireFlows, LogTimes, LogPids
<1>7. JobTells'
  BY <1>1 DEF JobTells, Writing
<1>8. WriterMoves
  BY <1>1, <1>4 DEF WriterMoves
<1> QED BY <1>2, <1>6, <1>7, <1>8 DEF WireInv

(* Close writes nothing.                                                   *)
LEMMA CloseTells ==
  ASSUME WireInv, Close \/ UNCHANGED wvars, Inv'
  PROVE  WireInv' /\ WriterMoves
<1>1. /\ UNCHANGED <<tracks, cc, psiWritten, lastPSIDTS, job, log, wire, failures>>
      /\ pc' = pc \/ (pc = "idle" /\ pc' = "closed")
  BY DEF Close, wvars
<1>2. wire \in Seq(Packet) /\ log \in Seq(WrittenUnit)
  BY DEF WireInv, Inv, TypeOK
<1>3. LogGrows /\ WireGrows
  BY <1>1, <1>2, LogSame, WireSame
<1>4. WireTells'
  BY <1>1, <1>3, TellsKept DEF WireInv, WireTells
<1>5. WireFlows'
  BY <1>1 DEF WireInv, WireFlows, IsES, RunEnd, GoesOn
<1>6. LogTimes' /\ LogPids'
  BY <1>1 DEF WireInv, LogTimes, LogPids
<1>7. JobTells'
  BY <1>1 DEF WireInv, JobTells, Writing
<1>8. WriterMoves
  BY <1>1, <1>3 DEF WriterMoves
<1> QED BY <1>4, <1>5, <1>6, <1>7, <1>8 DEF WireInv

(* A table, written or refused.                                            *)
LEMMA TableStep ==
  ASSUME WireInv, Inv', pc \in {"pat", "pmt"}, NEW ok \in BOOLEAN,
         NEW p, \/ p = SectionPacket(pidPAT, PATBody, ok)
                \/ p = SectionPacket(writerPMTPID, PMTBody, ok),
         wire' = Append(wire, p), tracks' = tracks, BumpCC(p.pid),
         \/ pc' \in {"pmt", "pes"} /\ UNCHANGED <<job, log>>
         \/ Fail
  PROVE  WireInv' /\ WriterMoves
<1>1. Writing
  BY DEF Writing
<1>2. TypeOK /\ JobIsLast /\ log \in Seq(WrittenUnit)
  BY DEF WireInv, Inv, TypeOK
<1>3. LogGrows /\ Len(log') = Len(log)
  <2>1. CASE log' = log
    BY <2>1, <1>2, LogSame
  <2>2. CASE Fail
    BY <2>2, <1>1, <1>2, LogMarked DEF Fail
  <2> QED BY <2>1, <2>2
<1>4. Fits(p) /\ p.body.kind = "psi"
  BY <1>1, SectionFits DEF WireInv, Inv
<1>5. p \in Packet /\ wire \in Seq(Packet) /\ p.pid \in DOMAIN cc /\ p.cc = cc[p.pid]
  BY <1>2, <1>4 DEF Fits, TypeOK
<1>6. WireGrows
  BY <1>5, WireAppended
<1>7. WireTells' /\ WireFlows'
  BY <1>1, <1>3, TableTells
<1>8. JobTells'
  <2>1. CASE UNCHANGED <<job, log>>
    BY <2>1, <1>1 DEF WireInv, JobTells
  <2>2. CASE Fail
    BY <2>2 DEF Fail, JobTells, Writing
  <2> QED BY <2>1, <2>2
<1>9. LogTimes' /\ LogPids'
  BY <1>3, TimesKept, PidsKept DEF WireInv, Inv
<1>10. pc' # "new"
  BY DEF Fail
<1>11. ~IsES(p)
  BY <1>4 DEF IsES
<1>12. WriterMoves
  BY <1>3, <1>5, <1>6, <1>10, <1>11 DEF WriterMoves
<1> QED BY <1>7, <1>8, <1>9, <1>12 DEF WireInv

(* A packet of a unit, written or refused, keeps what the wire says.       *)
LEMMA UnitStep ==
  ASSUME WireInv, Inv', NEW ok \in BOOLEAN, WritePESPacket(ok)
  PROVE  WireInv' /\ WriterMoves
<1> DEFINE p == PESPacket(ok)
<1>1. /\ pc = "pes" /\ Writing /\ wire' = Append(wire, p) /\ BumpCC(job.pid)
      /\ tracks' = tracks
  BY DEF WritePESPacket, Writing
<1>2. TypeOK /\ JobIsLast /\ log \in Seq(WrittenUnit) /\ job \in Job
  BY <1>1 DEF WireInv, Inv, TypeOK
<1>3. /\ Fits(p) /\ p.start = job.first /\ p.pid = job.pid
  BY <1>1, PESFits DEF WireInv, Inv
<1>4. p \in Packet /\ wire \in Seq(Packet) /\ p.pid \in DOMAIN cc /\ p.cc = cc[p.pid]
  BY <1>2, <1>3 DEF Fits, TypeOK
<1>5. \/ /\ ok /\ job.remaining > Copied
         /\ job' = [job EXCEPT !.remaining = @ - Copied, !.first = FALSE]
         /\ UNCHANGED <<pc, log, failures>>
      \/ /\ ok /\ job.remaining = Copied
         /\ pc' = "idle" /\ log' = [log EXCEPT ![job.au].status = "ok"]
      \/ ~ok /\ Fail
  BY DEF WritePESPacket
<1> HIDE DEF p
<1>6. LogGrows /\ Len(log') = Len(log) /\ pc' # "new"
  <2>1. CASE UNCHANGED <<pc, log>>
    BY <2>1, <1>1, <1>2, LogSame
  <2>2. CASE pc' = "idle" /\ log' = [log EXCEPT ![job.au].status = "ok"]
    BY <2>2, <1>1, <1>2, LogMarked
  <2>3. CASE Fail
    BY <2>3, <1>1, <1>2, LogMarked DEF Fail
  <2> QED BY <1>5, <2>1, <2>2, <2>3
<1>7. ok => \/ Copied = job.remaining /\ log'[job.au].status = "ok"
            \/ /\ pc' = "pes" /\ ~job'.first /\ job'.au = job.au
               /\ job'.total = job.total
               /\ job'.remaining = job.remaining - Copied
  <2>1. CASE /\ job' = [job EXCEPT !.remaining = @ - Copied, !.first = FALSE]
             /\ UNCHANGED <<pc, log, failures>>
    BY <2>1, <1>1, <1>2 DEF Job
  <2>2. CASE job.remaining = Copied /\ log' = [log EXCEPT ![job.au].status = "ok"]
    BY <2>2, <1>1, <1>2, LogMarked
  <2> QED BY <1>5, <2>1, <2>2
<1>8. WireTells' /\ WireFlows'
  BY <1>1, <1>6, <1>7, UnitTells DEF p
<1>9. JobTells'
  <2>1. CASE /\ job' = [job EXCEPT !.remaining = @ - Copied, !.first = FALSE]
             /\ UNCHANGED <<pc, log, failures>>
    <3>1. job'.hdr = job.hdr /\ job'.au = job.au /\ job'.rai = job.rai
      BY <2>1, <1>2 DEF Job
    <3> QED BY <2>1, <3>1, <1>1 DEF WireInv, JobTells
  <2>2. CASE pc' = "idle"
    BY <2>2 DEF JobTells, Writing
  <2> QED BY <1>5, <2>1, <2>2 DEF Fail
<1>10. LogTimes' /\ LogPids'
  BY <1>1, <1>6, TimesKept, PidsKept DEF WireInv, Inv
<1>11. WireGrows
  BY <1>1, <1>4, WireAppended
<1>12. job.first \in BOOLEAN
  BY <1>2 DEF Job
<1>13. WriterMoves
  BY <1>1, <1>3, <1>4, <1>6, <1>11, <1>12 DEF WriterMoves
<1> QED BY <1>8, <1>9, <1>10, <1>13 DEF WireInv

(* The times of one more unit.                                             *)
LEMMA OneMoreTime ==
  ASSUME LogTimes, log \in Seq(WrittenUnit), NEW u \in WrittenUnit,
         log' = Append(log, u), tracks' = tracks, tracks \in Options,
         Len(Calls[tracks]) \in Nat, Len(log) < Len(Calls[tracks]),
         NEW s \in Nat, s * Len(Calls[tracks]) < Half, u.dts = LastDTS + s,
         -Half < u.pts - u.dts, u.pts - u.dts < Half
  PROVE  LogTimes'
<1> DEFINE n == Len(log)
           N == Len(Calls[tracks])
<1>1. /\ n \in Nat /\ DOMAIN log = 1..n /\ DOMAIN log' = 1..(n + 1)
      /\ Len(log') = n + 1 /\ log'[n + 1] = u
      /\ \A a \in 1..n : log'[a] = log[a]
  OBVIOUS
<1>2. Half \in Int /\ N \in Nat
  BY WrapAssumption DEF Half
<1>3. \A a \in 1..n : log[a].dts \in Int
  <2>1. \A a \in 1..n : log[a] \in WrittenUnit
    BY <1>1
  <2>2. \A v \in WrittenUnit : v.dts \in Int
    BY DEF WrittenUnit
  <2> QED BY <2>1, <2>2
<1>4. \A x, y, z \in Int : (x + y) * z = x * z + y * z
  OBVIOUS
<1>5. n > 0 => u.dts = log[n].dts + s
  <2>1. n > 0 => log # << >>
    BY <1>1
  <2> QED BY <2>1 DEF LastDTS
<1> HIDE DEF n, N
<1>6. \A a \in 1..n : log[a].dts <= u.dts
                      /\ (u.dts - log[a].dts) * N <= ((n + 1) - a) * (Half - 1)
  <2> SUFFICES ASSUME NEW a \in 1..n
               PROVE  log[a].dts <= u.dts
                      /\ (u.dts - log[a].dts) * N <= ((n + 1) - a) * (Half - 1)
    OBVIOUS
  <2> DEFINE d == log[n].dts - log[a].dts
  <2>1. n \in 1..n /\ n > 0 /\ a <= n /\ a \in Int
    BY <1>1
  <2>2. log[n].dts \in Int /\ log[a].dts \in Int /\ d \in Int
    BY <1>3, <2>1
  <2>3. d >= 0 /\ d * N <= (n - a) * (Half - 1)
    <3>1. CASE a = n
      <4>1. d = 0 /\ n - a = 0
        BY <3>1, <2>1, <2>2
      <4>2. \A x \in Int : 0 * x = 0
        OBVIOUS
      <4> HIDE DEF d
      <4> QED BY <4>1, <4>2, <1>2
    <3>2. CASE a # n
      <4>1. a < n /\ a \in DOMAIN log /\ n \in DOMAIN log
        BY <3>2, <2>1, <1>1
      <4>2. log[a].dts <= log[n].dts
            /\ (log[n].dts - log[a].dts) * N <= (n - a) * (Half - 1)
        BY <4>1 DEF LogTimes, N
      <4> QED BY <4>2, <2>2
    <3> QED BY <3>1, <3>2
  <2>4. u.dts - log[a].dts = d + s
    BY <2>1, <2>2, <1>5
  <2>5. log[a].dts <= u.dts
    <3>1. \A x, y \in Int, z \in Nat : y - x >= 0 => x <= y + z
      OBVIOUS
    <3> QED BY <3>1, <2>1, <2>2, <2>3, <1>5
  <2>6. s * N <= Half - 1 /\ s * N \in Int
    BY <1>2 DEF N
  <2> HIDE DEF d
  <2>7. (d + s) * N = d * N + s * N
    BY <1>2, <1>4, <2>2
  <2>8. ((n + 1) - a) * (Half - 1) = (n - a) * (Half - 1) + (Half - 1)
    <3>1. (n + 1) - a = (n - a) + 1 /\ n - a \in Int /\ Half - 1 \in Int
      BY <1>1, <1>2, <2>1
    <3>2. ((n - a) + 1) * (Half - 1) = (n - a) * (Half - 1) + 1 * (Half - 1)
      BY <3>1, <1>4
    <3>3. 1 * (Half - 1) = Half - 1
      BY <3>1
    <3> QED BY <3>1, <3>2, <3>3
  <2>9. d * N \in Int /\ (n - a) * (Half - 1) \in Int
    BY <1>1, <1>2, <2>1, <2>2
  <2>10. \A v, w, x, y \in Int : v <= w /\ x <= y => v + x <= w + y
    OBVIOUS
  <2>11. (d + s) * N <= ((n + 1) - a) * (Half - 1)
    BY <2>3, <2>6, <2>7, <2>8, <2>9, <2>10, <1>2
  <2> QED BY <2>4, <2>5, <2>11
<1>7. \A a, b \in DOMAIN log' :
        a < b => /\ log'[a].dts <= log'[b].dts
                 /\ (log'[b].dts - log'[a].dts) * N <= (b - a) * (Half - 1)
  <2> SUFFICES ASSUME NEW a \in 1..(n + 1), NEW b \in 1..(n + 1), a < b
               PROVE  /\ log'[a].dts <= log'[b].dts
                      /\ (log'[b].dts - log'[a].dts) * N <= (b - a) * (Half - 1)
    BY <1>1
  <2>1. a \in 1..n /\ (b \in 1..n \/ b = n + 1)
    BY <1>1
  <2>2. CASE b \in 1..n
    BY <2>1, <2>2, <1>1 DEF LogTimes, N
  <2>3. CASE b = n + 1
    <3>1. log'[a] = log[a] /\ log'[b] = u
      BY <2>1, <2>3, <1>1
    <3> QED BY <2>1, <2>3, <3>1, <1>6
  <2> QED BY <2>1, <2>2, <2>3
<1>8. \A a \in DOMAIN log' : /\ -Half < log'[a].pts - log'[a].dts
                             /\ log'[a].pts - log'[a].dts < Half
  <2>1. \A a \in DOMAIN log' : a \in 1..n \/ a = n + 1
    BY <1>1
  <2> QED BY <2>1, <1>1 DEF LogTimes
<1>9. Len(log') <= N
  BY <1>1, <1>2 DEF N, n
<1> QED BY <1>7, <1>8, <1>9 DEF LogTimes, N

(* WriteAccessUnit opens a unit that is later than the ones before it.     *)
LEMMA AccessUnitStep ==
  ASSUME WireInv, Inv', NEW i \in DOMAIN tracks, Len(log) < Len(Calls[tracks]),
         NEW in \in Calls[tracks][Len(log) + 1],
         WriteAccessUnit(i, in.len, LastDTS + in.step,
                         (LastDTS + in.step) + in.reorder, in.aud, in.rai)
  PROVE  WireInv' /\ WriterMoves
<1> DEFINE dts == LastDTS + in.step
           pts == dts + in.reorder
           hdr == appendPESHeader(pts, dts)
           id  == Len(log) + 1
<1>1. PICK u : /\ log' = Append(log, u)
               /\ u.pid = tracks[i].pid /\ u.dts = dts /\ u.pts = pts /\ u.rai = in.rai
  BY DEF WriteAccessUnit
<1>2. /\ pc = "idle" /\ pc' \in {"pat", "pes"}
      /\ UNCHANGED <<tracks, cc, psiWritten, lastPSIDTS, wire, failures>>
      /\ job'.au = id /\ job'.hdr = hdr /\ job'.rai = in.rai /\ job'.first
  BY DEF WriteAccessUnit
<1>3. wire \in Seq(Packet) /\ log \in Seq(WrittenUnit) /\ log' \in Seq(WrittenUnit)
      /\ Len(log) \in Nat /\ tracks \in Options
  BY <1>2 DEF WireInv, Inv, TypeOK, Made
<1>4. u \in WrittenUnit
  <2>1. Append(log, u)[Len(log) + 1] = u /\ Len(Append(log, u)) = Len(log) + 1
    BY <1>3
  <2>2. Len(log) + 1 \in 1..Len(log')
    BY <1>1, <1>3, <2>1
  <2> QED BY <1>1, <1>3, <2>1, <2>2
<1>5. /\ LogGrows /\ Len(log') = id /\ log'[id] = u
  BY <1>1, <1>3, <1>4, LogAppended
<1>6. Calls[tracks] \in Seq(SUBSET Input) /\ Len(Calls[tracks]) \in Nat
  BY <1>3, CallsAssumption
<1>7. id \in 1..Len(Calls[tracks]) /\ id \in DOMAIN Calls[tracks]
  BY <1>3, <1>6
<1>8. in \in Input
  BY <1>6, <1>7
<1>9. in.step \in Int /\ in.reorder \in Int
  BY <1>8 DEF Input
<1>10. /\ in.step >= 0 /\ in.step * Len(Calls[tracks]) < Half
       /\ -Half < in.reorder /\ in.reorder < Half
  BY <1>3, <1>7, TimeAssumption
<1>11. LogTimes'
  <2>1. u.dts \in Int /\ in.step \in Nat
    BY <1>4, <1>9, <1>10 DEF WrittenUnit
  <2>2. u.pts - u.dts = in.reorder
    <3>1. u.pts = u.dts + in.reorder
      BY <1>1
    <3> QED BY <2>1, <3>1, <1>9
  <2> QED BY <2>1, <2>2, <1>1, <1>2, <1>3, <1>4, <1>6, <1>10, OneMoreTime DEF WireInv
<1>12. WireTells' /\ WireFlows' /\ WireGrows
  BY <1>2, <1>3, <1>5, QuietKeeps DEF WireInv
<1>13. Writing'
  BY <1>2 DEF Writing
<1>14. LogPids'
  BY <1>2, <1>5, <1>13, PidsKept DEF WireInv, Inv
<1>15. JobTells'
  BY <1>1, <1>2, <1>5 DEF JobTells
<1>16. WriterMoves
  BY <1>2, <1>5, <1>12, <1>13 DEF WriterMoves
<1> QED BY <1>11, <1>12, <1>14, <1>15, <1>16 DEF WireInv

(* The writer's part of the invariant.                                     *)
LEMMA WriterStep ==
  ASSUME WireInv, [WriterNext]_wvars
  PROVE  WireInv' /\ WriterMoves
<1>1. Inv'
  BY NextInv DEF WireInv
<1>2. CASE \E opts \in Options : NewWriter(opts)
  BY <1>2, NewWriterTells
<1>3. CASE \E i \in DOMAIN tracks :
             /\ Len(log) < Len(Calls[tracks])
             /\ \E in \in Calls[tracks][Len(log) + 1] :
                  LET dts == LastDTS + in.step
                  IN WriteAccessUnit(i, in.len, dts, dts + in.reorder,
                                     in.aud, in.rai)
  BY <1>1, <1>3, AccessUnitStep
<1>4. ASSUME NEW ok \in BOOLEAN, WritePAT(ok) PROVE WireInv' /\ WriterMoves
  <2> DEFINE p == SectionPacket(pidPAT, PATBody, ok)
  <2>1. p.pid = pidPAT
    BY DEF SectionPacket
  <2>2. /\ pc = "pat" /\ wire' = Append(wire, p) /\ tracks' = tracks
        /\ BumpCC(p.pid)
        /\ \/ pc' = "pmt" /\ UNCHANGED <<job, log>>
           \/ Fail
    BY <1>4, <2>1 DEF WritePAT
  <2> QED BY <1>1, <2>2, TableStep
<1>5. ASSUME NEW ok \in BOOLEAN, WritePMT(ok) PROVE WireInv' /\ WriterMoves
  <2> DEFINE p == SectionPacket(writerPMTPID, PMTBody, ok)
  <2>1. p.pid = writerPMTPID
    BY DEF SectionPacket
  <2>2. /\ pc = "pmt" /\ wire' = Append(wire, p) /\ tracks' = tracks
        /\ BumpCC(p.pid)
        /\ \/ pc' = "pes" /\ UNCHANGED <<job, log>>
           \/ Fail
    BY <1>5, <2>1 DEF WritePMT
  <2> QED BY <1>1, <2>2, TableStep
<1>6. CASE Close \/ UNCHANGED wvars
  BY <1>1, <1>6, CloseTells
<1> QED BY <1>1, <1>2, <1>3, <1>4, <1>5, <1>6, UnitStep DEF WriterNext

-----------------------------------------------------------------------------
(* The continuity counter as a clock of CCMod values.                      *)
LEMMA CycleUnique ==
  ASSUME NEW q \in Int, NEW r \in Int, 0 <= r, r < CCMod
  PROVE  (q * CCMod + r) % CCMod = r
BY CCModAssumption

(* A number is a multiple of the cycle of the counter and its remainder.   *)
LEMMA CyclePart ==
  ASSUME NEW a \in Nat
  PROVE  \E q \in Int, r \in Int :
           0 <= r /\ r < CCMod /\ a = q * CCMod + r /\ r = a % CCMod
BY CCModAssumption

(* One more packet missing.                                                *)
LEMMA CounterMoves ==
  ASSUME NEW c \in CC, NEW b \in Nat
  PROVE  /\ (c + b + 1) % CCMod \in CC
         /\ NextCC((c + b + 1) % CCMod) = (c + (b + 1) + 1) % CCMod
<1>1. c \in Nat /\ c + b + 1 \in Nat
  BY CCModAssumption DEF CC
<1>2. PICK q \in Int, r \in Int :
        0 <= r /\ r < CCMod /\ c + b + 1 = q * CCMod + r /\ r = (c + b + 1) % CCMod
  BY <1>1, CyclePart
<1> DEFINE x == q * CCMod
<1>3. x \in Int /\ CCMod \in Int
  BY CCModAssumption
<1>4. CASE r + 1 < CCMod
  <2>1. c + (b + 1) + 1 = q * CCMod + (r + 1)
    <3> HIDE DEF x
    <3>1. c + b + 1 = x + r
      BY <1>2 DEF x
    <3>2. c + (b + 1) + 1 = x + (r + 1)
      BY <3>1, <1>1, <1>3
    <3> QED BY <3>2 DEF x
  <2>2. (c + (b + 1) + 1) % CCMod = r + 1
    BY <2>1, <1>2, <1>4, CycleUnique
  <2>3. (0 * CCMod + (r + 1)) % CCMod = r + 1
    BY <1>2, <1>4, CycleUnique
  <2>4. 0 * CCMod + (r + 1) = r + 1
    BY <1>2, <1>3
  <2> QED BY <1>2, <1>3, <2>2, <2>3, <2>4 DEF NextCC, CC
<1>5. CASE r + 1 = CCMod
  <2>1. c + (b + 1) + 1 = (q + 1) * CCMod + 0
    <3>1. (q + 1) * CCMod = x + CCMod
      BY <1>3
    <3> HIDE DEF x
    <3>2. c + b + 1 = x + r
      BY <1>2 DEF x
    <3> QED BY <3>1, <3>2, <1>1, <1>2, <1>3, <1>5
  <2>2. (c + (b + 1) + 1) % CCMod = 0
    BY <2>1, <1>2, <1>3, CycleUnique, CCModAssumption
  <2>3. (1 * CCMod + 0) % CCMod = 0
    BY CycleUnique, CCModAssumption
  <2>4. 1 * CCMod + 0 = r + 1
    BY <1>3, <1>5
  <2> QED BY <1>2, <1>3, <2>2, <2>3, <2>4 DEF NextCC, CC
<1> QED BY <1>2, <1>3, <1>4, <1>5

(* A gap of less than a cycle is seen, one packet less is no repetition.   *)
LEMMA GapSeen ==
  ASSUME NEW c \in CC, NEW b \in Nat, b < CCMod
  PROVE  /\ (c + b + 1) % CCMod = NextCC(c) <=> b = 0
         /\ b < CCMod - 1 => (c + b + 1) % CCMod # c
         /\ NextCC(c) # c
<1>1. c \in Nat /\ c < CCMod /\ CCMod \in Nat /\ CCMod > 2
  BY CCModAssumption DEF CC
<1>2. ASSUME NEW x \in Nat, x < 2 * CCMod
      PROVE  x % CCMod = IF x < CCMod THEN x ELSE x - CCMod
  <2>1. CASE x < CCMod
    <3>1. (0 * CCMod + x) % CCMod = x
      BY <2>1, CycleUnique
    <3>2. 0 * CCMod + x = x
      BY <1>1
    <3> QED BY <2>1, <3>1, <3>2
  <2>2. CASE ~(x < CCMod)
    <3>1. (1 * CCMod + (x - CCMod)) % CCMod = x - CCMod
      BY <1>1, <1>2, <2>2, CycleUnique
    <3>2. 1 * CCMod + (x - CCMod) = x
      BY <1>1
    <3> QED BY <2>2, <3>1, <3>2
  <2> QED BY <2>1, <2>2
<1>3. (c + b + 1) % CCMod = IF c + b + 1 < CCMod THEN c + b + 1 ELSE c + b + 1 - CCMod
  BY <1>1, <1>2
<1>4. (c + 1) % CCMod = IF c + 1 < CCMod THEN c + 1 ELSE c + 1 - CCMod
  BY <1>1, <1>2
<1> QED BY <1>1, <1>3, <1>4 DEF NextCC

-----------------------------------------------------------------------------
(* What is written next on a PID.                                          *)

(* The packet after packet k, on its PID, has the next counter.            *)
LEMMA NextAfter ==
  ASSUME WireInv, NEW k \in DOMAIN wire, wire[k].pid \in DOMAIN cc
  PROVE  NextIs(k, wire[k].pid, NextCC(wire[k].cc))
<1> DEFINE t == wire[k].pid
<1>1. wire \in Seq(Packet) /\ Len(wire) \in Nat /\ DOMAIN wire = 1..Len(wire) /\ k \in Nat
      /\ k \in 1..Len(wire)
  BY DEF WireInv, Inv, TypeOK
<1> HIDE DEF t
<1>2. ASSUME NEW n \in Nat, k <= n, NEW c, DueCC(wire, c, t, n),
             \A j \in (k + 1)..n : wire[j].pid # t
      PROVE  c = NextCC(wire[k].cc)
  <2>1. k \in 1..n /\ wire[k].pid = t
    BY <1>1, <1>2 DEF t
  <2>2. PICK m \in 1..n : /\ wire[m].pid = t /\ c = (wire[m].cc + 1) % CCMod
                          /\ \A i \in (m + 1)..n : wire[i].pid # t
    BY <1>2, <2>1 DEF DueCC
  <2>3. m = k
    <3>1. m < k => k \in (m + 1)..n
      BY <1>1, <2>1, <1>2
    <3>2. k < m => m \in (k + 1)..n
      BY <1>1, <2>1, <1>2
    <3> QED BY <3>1, <3>2, <2>1, <2>2, <1>1, <1>2
  <2> QED BY <2>2, <2>3 DEF NextCC
<1>3. ASSUME NEW m \in (k + 1)..Len(wire), wire[m].pid = t,
             \A j \in (k + 1)..(m - 1) : wire[j].pid # t
      PROVE  wire[m].cc = NextCC(wire[k].cc)
  <2>1. m \in DOMAIN wire /\ m - 1 \in Nat /\ k <= m - 1
    BY <1>1
  <2>2. DueCC(wire, wire[m].cc, t, m - 1)
    BY <2>1, <1>3 DEF WireInv, Inv, CountersCountAttempts
  <2> QED BY <2>1, <2>2, <1>2, <1>3
<1>4. (\A j \in (k + 1)..Len(wire) : wire[j].pid # t) => cc[t] = NextCC(wire[k].cc)
  <2>1. DueCC(wire, cc[t], t, Len(wire))
    BY DEF WireInv, Inv, CountersDue, t
  <2> QED BY <2>1, <1>1, <1>2
<1> QED BY <1>3, <1>4 DEF NextIs, t

(* A packet of another PID makes no difference.                            *)
LEMMA NextSkips ==
  ASSUME NEW g \in Nat, g < Len(wire), Len(wire) \in Nat, NEW t, NEW c,
         NextIs(g, t, c), wire[g + 1].pid # t
  PROVE  NextIs(g + 1, t, c)
<1>1. \A k \in ((g + 1) + 1)..Len(wire) : k \in (g + 1)..Len(wire)
  OBVIOUS
<1>2. \A k \in Int : \A j \in (g + 1)..(k - 1) : j = g + 1 \/ j \in ((g + 1) + 1)..(k - 1)
  OBVIOUS
<1>3. \A j \in (g + 1)..Len(wire) : j = g + 1 \/ j \in ((g + 1) + 1)..Len(wire)
  OBVIOUS
<1>4. ASSUME NEW k \in ((g + 1) + 1)..Len(wire), wire[k].pid = t,
             \A j \in ((g + 1) + 1)..(k - 1) : wire[j].pid # t
      PROVE  wire[k].cc = c
  <2>1. \A j \in (g + 1)..(k - 1) : wire[j].pid # t
    BY <1>2, <1>4
  <2> QED BY <1>1, <1>4, <2>1 DEF NextIs
<1>5. (\A j \in ((g + 1) + 1)..Len(wire) : wire[j].pid # t) => cc[t] = c
  BY <1>3 DEF NextIs
<1> QED BY <1>4, <1>5 DEF NextIs

(* The next packet has the counter that is due.                            *)
LEMMA NextTaken ==
  ASSUME NEW g \in Nat, g < Len(wire), Len(wire) \in Nat, NEW c,
         NextIs(g, wire[g + 1].pid, c)
  PROVE  wire[g + 1].cc = c
<1>1. g + 1 \in (g + 1)..Len(wire)
  OBVIOUS
<1>2. \A j \in (g + 1)..((g + 1) - 1) : FALSE
  OBVIOUS
<1> QED BY <1>1, <1>2 DEF NextIs

(* The writer takes the counter that is due.                               *)
LEMMA NextKept ==
  ASSUME WriterMoves, pc # "new", NEW g \in 0..Len(wire), NEW t \in DOMAIN cc, NEW c,
         NextIs(g, t, c)
  PROVE  NextIs(g, t, c)'
<1>1. Len(wire) \in Nat /\ wire \in Seq(Packet)
  BY DEF WriterMoves, WireGrows
<1>2. CASE wire' = wire /\ cc' = cc
  BY <1>2 DEF NextIs
<1>3. ASSUME NEW p \in Packet, wire' = Append(wire, p), p.cc = cc[p.pid], BumpCC(p.pid)
      PROVE  NextIs(g, t, c)'
  <2>1. /\ Len(wire') = Len(wire) + 1 /\ wire'[Len(wire) + 1] = p
        /\ \A k \in 1..Len(wire) : wire'[k] = wire[k]
    BY <1>1, <1>3, OneMore
  <2>2. \A k \in (g + 1)..Len(wire) : wire'[k] = wire[k]
    BY <1>1, <2>1
  <2>3. t # p.pid => cc'[t] = cc[t]
    BY <1>3 DEF BumpCC
  <2>4. ASSUME NEW k \in (g + 1)..Len(wire'), wire'[k].pid = t,
               \A j \in (g + 1)..(k - 1) : wire'[j].pid # t
        PROVE  wire'[k].cc = c
    <3>1. CASE k \in (g + 1)..Len(wire)
      <4>1. \A j \in (g + 1)..(k - 1) : j \in (g + 1)..Len(wire)
        BY <1>1, <3>1
      <4>2. \A j \in (g + 1)..(k - 1) : wire[j].pid # t
        BY <2>2, <2>4, <4>1
      <4> QED BY <2>2, <2>4, <3>1, <4>2 DEF NextIs
    <3>2. CASE k = Len(wire) + 1
      <4>1. \A j \in (g + 1)..Len(wire) : wire[j].pid # t
        <5>1. (k - 1) = Len(wire)
          BY <1>1, <3>2
        <5> QED BY <2>2, <2>4, <5>1
      <4>2. cc[t] = c
        BY <4>1 DEF NextIs
      <4> QED BY <2>1, <2>4, <3>2, <4>2, <1>3
    <3> QED BY <1>1, <2>1, <3>1, <3>2
  <2>5. ASSUME \A j \in (g + 1)..Len(wire') : wire'[j].pid # t
        PROVE  cc'[t] = c
    <3>1. /\ Len(wire) + 1 \in (g + 1)..Len(wire')
          /\ \A j \in (g + 1)..Len(wire) : j \in (g + 1)..Len(wire')
      BY <1>1, <2>1
    <3>2. p.pid # t /\ \A j \in (g + 1)..Len(wire) : wire[j].pid # t
      BY <2>1, <2>2, <2>5, <3>1
    <3> QED BY <2>3, <3>2 DEF NextIs
  <2> QED BY <2>4, <2>5 DEF NextIs
<1> QED BY <1>2, <1>3 DEF WriterMoves

-----------------------------------------------------------------------------
(* What handleES does with a stream.                                       *)
LEMMA ExtendInt ==
  ASSUME NEW r \in Int, NEW v \in Int
  PROVE  extendTimestamp(r, v) \in Int
<1>1. r % Wrap \in Int
  BY WrapAssumption
<1> QED BY <1>1, WrapAssumption DEF extendTimestamp, Half

(* No gap is seen between what the stream has and packet p.                *)
Joins(s, p) == s.hasCC => p.cc = NextCC(s.cc)

(* handleES after the continuity check, field by field.                    *)
LEMMA AfterCCGives ==
  ASSUME NEW P, NEW s \in Stream(P), NEW p, p.cc \in Nat
  PROVE  LET t == AfterCC(s, p)
         IN /\ t \in Stream(P) /\ t.pid = s.pid /\ t.cur = s.cur /\ t.rai = s.rai
            /\ t.cc = p.cc /\ t.hasCC
            /\ t.pts = s.pts /\ t.dts = s.dts /\ t.lastTS = s.lastTS
            /\ t.collecting = (s.collecting /\ Joins(s, p))
            /\ t.collecting => t.mem = s.mem
<1> DEFINE gap == s.hasCC /\ p.cc # NextCC(s.cc)
           u == IF gap THEN [s EXCEPT !.mem[s.cur] = << >>, !.collecting = FALSE] ELSE s
<1>1. AfterCC(s, p) = [u EXCEPT !.cc = p.cc, !.hasCC = TRUE]
  BY DEF AfterCC
<1>2. << >> \in Seq(Chunk)
  OBVIOUS
<1>3. u \in Stream(P)
  BY <1>2 DEF Stream
<1>4. /\ u.pid = s.pid /\ u.cur = s.cur /\ u.rai = s.rai
      /\ u.pts = s.pts /\ u.dts = s.dts /\ u.lastTS = s.lastTS
      /\ u.collecting = (s.collecting /\ ~gap)
      /\ u.collecting => u.mem = s.mem
  BY DEF Stream
<1>g. gap <=> ~Joins(s, p)
  BY DEF Joins
<1> HIDE DEF u, gap
<1>5. AfterCC(s, p) \in Stream(P)
  BY <1>1, <1>3 DEF Stream
<1>6. /\ AfterCC(s, p).pid = u.pid /\ AfterCC(s, p).cur = u.cur /\ AfterCC(s, p).rai = u.rai
      /\ AfterCC(s, p).pts = u.pts /\ AfterCC(s, p).dts = u.dts
      /\ AfterCC(s, p).lastTS = u.lastTS
      /\ AfterCC(s, p).collecting = u.collecting /\ AfterCC(s, p).mem = u.mem
      /\ AfterCC(s, p).cc = p.cc /\ AfterCC(s, p).hasCC = TRUE
  BY <1>1, <1>3 DEF Stream
<1> QED BY <1>4, <1>5, <1>6, <1>g

(* finish, field by field.                                                 *)
LEMMA FinishGives ==
  ASSUME NEW P, NEW s \in Stream(P)
  PROVE  LET f == Finish(s)
             u == f.stream
         IN /\ u \in Stream(P) /\ u.pid = s.pid /\ u.lastTS = s.lastTS
            /\ u.cc = s.cc /\ u.hasCC = s.hasCC /\ ~u.collecting
            /\ IF s.collecting /\ s.mem[s.cur] # << >>
               THEN /\ f.au = 1 + s.cur /\ u.cur = 1 - s.cur
                    /\ u.mem[s.cur] = s.mem[s.cur]
               ELSE f.au = 0
<1>1. << >> \in Seq(Chunk) /\ 1 - s.cur \in {0, 1} /\ 1 - s.cur # s.cur
  BY DEF Stream
<1>2. CASE s.collecting /\ s.mem[s.cur] # << >>
  <2> DEFINE m == [s.mem EXCEPT ![1 - s.cur] = << >>]
             u == [s EXCEPT !.cur = 1 - s.cur, !.mem = m, !.collecting = FALSE]
  <2>1. Finish(s) = [stream |-> u, au |-> 1 + s.cur]
    BY <1>2 DEF Finish, Stream
  <2>2. m \in [{0, 1} -> Seq(Chunk)] /\ m[s.cur] = s.mem[s.cur]
    BY <1>1 DEF Stream
  <2> HIDE DEF m
  <2>3. /\ u \in Stream(P) /\ u.pid = s.pid /\ ~u.collecting /\ u.mem = m
        /\ u.cc = s.cc /\ u.hasCC = s.hasCC /\ u.cur = 1 - s.cur /\ u.lastTS = s.lastTS
    BY <2>2, <1>1 DEF Stream
  <2> HIDE DEF u
  <2> QED BY <2>1, <2>2, <2>3, <1>1, <1>2
<1>3. CASE ~(s.collecting /\ s.mem[s.cur] # << >>)
  <2> DEFINE u == [s EXCEPT !.collecting = FALSE]
  <2>1. Finish(s) = [stream |-> u, au |-> 0]
    BY <1>3 DEF Finish
  <2>2. /\ u \in Stream(P) /\ u.pid = s.pid /\ ~u.collecting /\ u.lastTS = s.lastTS
        /\ u.cc = s.cc /\ u.hasCC = s.hasCC
    BY DEF Stream
  <2> HIDE DEF u
  <2> QED BY <2>1, <2>2, <1>3
<1> QED BY <1>2, <1>3

(* A packet that starts a unit, with a header the writer made.             *)
LEMMA StartGives ==
  ASSUME NEW P, NEW s \in Stream(P), NEW p, p.rai \in BOOLEAN,
         p.body.au \in Nat, p.body.off \in Nat, p.body.len \in Nat,
         p.body.pes \in Header, p.body.len > p.body.pes.len
  PROVE  LET u     == StartUnit(s, p)
             hdr   == p.body.pes
             dts33 == IF hdr.ptsDTS = "both" THEN hdr.dts ELSE hdr.pts
         IN /\ u \in Stream(P) /\ u.pid = s.pid /\ u.cur = s.cur
            /\ u.cc = s.cc /\ u.hasCC = s.hasCC /\ u.collecting /\ u.rai = p.rai
            /\ u.mem[1 - s.cur] = s.mem[1 - s.cur]
            /\ u.mem[s.cur] = <<[au |-> p.body.au, off |-> p.body.off + hdr.len,
                                 len |-> p.body.len - hdr.len]>>
            /\ u.dts = extendTimestamp(s.lastTS, dts33) /\ u.lastTS = u.dts
            /\ u.pts = extendTimestamp(u.dts, hdr.pts)
<1> DEFINE hdr == p.body.pes
           dts33 == IF hdr.ptsDTS = "both" THEN hdr.dts ELSE hdr.pts
           dts == extendTimestamp(s.lastTS, dts33)
           pts == extendTimestamp(dts, hdr.pts)
           x == [au |-> p.body.au, off |-> p.body.off + hdr.len,
                 len |-> p.body.len - hdr.len]
           m == [s.mem EXCEPT ![s.cur] = <<x>>]
<1>1. /\ hdr.len \in Nat /\ hdr.pts \in Int /\ dts33 \in Int
      /\ hdr.ptsDTS \in {"pts", "both"}
  BY DEF Header
<1>2. s.lastTS \in Int /\ s.cur \in {0, 1} /\ s.mem \in [{0, 1} -> Seq(Chunk)]
      /\ 1 - s.cur \in {0, 1} /\ 1 - s.cur # s.cur
  BY DEF Stream
<1>3. Piece(p, hdr.len) = <<x>>
  BY DEF Piece
<1>4. <<x>> \in Seq(Chunk)
  <2>1. p.body.off + hdr.len \in Nat /\ p.body.len - hdr.len \in Nat
    BY <1>1
  <2>2. x \in Chunk
    BY <2>1 DEF Chunk
  <2> HIDE DEF x
  <2> QED BY <2>2
<1> HIDE DEF dts33, x
<1>5. dts \in Int
  BY <1>1, <1>2, ExtendInt
<1> HIDE DEF dts
<1>6. pts \in Int
  BY <1>1, <1>5, ExtendInt
<1> HIDE DEF pts
<1>7. /\ m \in [{0, 1} -> Seq(Chunk)] /\ m[s.cur] = <<x>>
      /\ m[1 - s.cur] = s.mem[1 - s.cur]
  BY <1>2, <1>4
<1> DEFINE u == [s EXCEPT !.lastTS = dts, !.dts = dts, !.pts = pts, !.rai = p.rai,
                          !.mem = m, !.collecting = TRUE]
<1>8. StartUnit(s, p) = u
  BY <1>1, <1>3 DEF StartUnit, dts33, dts, pts, m, Stream
<1> HIDE DEF m
<1>9. /\ u \in Stream(P) /\ u.pid = s.pid /\ u.cur = s.cur /\ u.mem = m
      /\ u.cc = s.cc /\ u.hasCC = s.hasCC /\ u.rai = p.rai /\ u.collecting = TRUE
      /\ u.dts = dts /\ u.lastTS = dts /\ u.pts = pts
  BY <1>5, <1>6, <1>7 DEF Stream
<1> HIDE DEF u
<1> QED BY <1>7, <1>8, <1>9 DEF dts, pts, dts33, x

(* A packet that goes on with a unit.                                      *)
LEMMA ContinueGives ==
  ASSUME NEW P, NEW s \in Stream(P), NEW p,
         p.body.au \in Nat, p.body.off \in Nat, p.body.len \in Nat, p.body.len > 0
  PROVE  LET u   == Continue(s, p)
             x   == [au |-> p.body.au, off |-> p.body.off, len |-> p.body.len]
             buf == Append(s.mem[s.cur], x)
         IN /\ u \in Stream(P) /\ u.pid = s.pid /\ u.cur = s.cur
            /\ u.cc = s.cc /\ u.hasCC = s.hasCC /\ u.rai = s.rai
            /\ u.dts = s.dts /\ u.pts = s.pts /\ u.lastTS = s.lastTS
            /\ x \in Chunk
            /\ u.collecting = (s.collecting /\ PieceLen(buf) <= MaxAUSize)
            /\ u.collecting => u.mem[s.cur] = buf
<1> DEFINE x == [au |-> p.body.au, off |-> p.body.off, len |-> p.body.len]
           buf == Append(s.mem[s.cur], x)
           long == ~(PieceLen(buf) <= MaxAUSize)
           m == [s.mem EXCEPT ![s.cur] = IF long THEN << >> ELSE buf]
           u == [s EXCEPT !.mem = m, !.collecting = ~long]
<1>1. s.cur \in {0, 1} /\ s.mem \in [{0, 1} -> Seq(Chunk)] /\ s.mem[s.cur] \in Seq(Chunk)
  BY DEF Stream
<1>2. Piece(p, 0) = <<x>> /\ x \in Chunk
  <2>1. p.body.off + 0 = p.body.off /\ p.body.len - 0 = p.body.len
    OBVIOUS
  <2> QED BY <2>1 DEF Piece, Chunk
<1> HIDE DEF x
<1>3. s.mem[s.cur] \o Piece(p, 0) = buf /\ buf \in Seq(Chunk)
  <2> DEFINE d == s.mem[s.cur]
  <2>1. d \in Seq(Chunk)
    BY <1>1
  <2> HIDE DEF d
  <2>2. Append(d, x) = d \o <<x>>
    BY <2>1, <1>2, AppendIsConcat
  <2>3. Append(d, x) \in Seq(Chunk)
    BY <2>1, <1>2
  <2> QED BY <2>2, <2>3, <1>2 DEF d
<1> HIDE DEF buf
<1>4. CASE ~s.collecting
  <2>1. Continue(s, p) = s
    BY <1>4 DEF Continue
  <2>2. s.collecting = FALSE
    BY <1>4 DEF Stream
  <2> QED BY <2>1, <2>2, <1>2 DEF x
<1>5. CASE s.collecting
  <2>1. Continue(s, p) = u
    BY <1>1, <1>3, <1>5 DEF Continue, Stream
  <2>3. m \in [{0, 1} -> Seq(Chunk)] /\ (~long => m[s.cur] = buf)
    BY <1>1, <1>3
  <2> HIDE DEF m
  <2>4. /\ u \in Stream(P) /\ u.pid = s.pid /\ u.cur = s.cur /\ u.mem = m
        /\ u.cc = s.cc /\ u.hasCC = s.hasCC /\ u.rai = s.rai /\ u.collecting = ~long
        /\ u.dts = s.dts /\ u.pts = s.pts /\ u.lastTS = s.lastTS
    BY <2>3 DEF Stream
  <2> HIDE DEF u
  <2> QED BY <2>1, <2>3, <2>4, <1>2, <1>5 DEF buf, x
<1> QED BY <1>4, <1>5

-----------------------------------------------------------------------------
(* Which PIDs there are.                                                   *)
LEMMA TrackPidRange ==
  ASSUME NEW opts, ValidOptions(opts), NEW i \in DOMAIN opts
  PROVE  opts[i].pid # pidPAT /\ opts[i].pid # writerPMTPID
<1>1. opts[i].pid \in minElementaryPID..maxElementaryPID \ {writerPMTPID}
  BY Zenon DEF ValidOptions
<1>2. opts[i].pid \in minElementaryPID..maxElementaryPID /\ opts[i].pid # writerPMTPID
  BY <1>1, Zenon
<1>3. 0 \notin minElementaryPID..maxElementaryPID
  BY DEF minElementaryPID, maxElementaryPID
<1> QED BY <1>2, <1>3 DEF pidPAT

(* Packets on the wire have the PID of a table or of a track.              *)
LEMMA WirePids ==
  ASSUME WireInv, NEW k \in DOMAIN wire
  PROVE  /\ pc # "new" /\ wire[k] \in Packet
         /\ wire[k].pid \in PIDs /\ wire[k].pid \in DOMAIN cc
         /\ IF IsES(wire[k])
            THEN /\ wire[k].pid \in {tracks[i].pid : i \in DOMAIN tracks}
                 /\ wire[k].pid \notin {pidPAT, writerPMTPID}
            ELSE wire[k].pid \in {pidPAT, writerPMTPID}
<1>1. pc # "new"
  <2>1. pc = "new" => wire = << >>
    BY DEF WireInv, Inv, Made
  <2>2. DOMAIN << >> = {}
    OBVIOUS
  <2> QED BY <2>1, <2>2
<1>2. ValidOptions(tracks) /\ tracks \in Options
      /\ DOMAIN cc = {tracks[i].pid : i \in DOMAIN tracks} \cup {pidPAT, writerPMTPID}
  BY <1>1 DEF WireInv, Inv, Made
<1>3. wire[k] \in Packet
  BY DEF WireInv, Inv, TypeOK
<1>4. CASE IsES(wire[k])
  <2>1. wire[k].pid \in {tracks[i].pid : i \in DOMAIN tracks}
    BY <1>4 DEF WireInv, WireTells, UnitPacket, LogPids
  <2>3. wire[k].pid \notin {pidPAT, writerPMTPID}
    BY <1>2, <2>1, TrackPidRange
  <2>4. wire[k].pid \in PIDs
    BY <1>2, <2>1 DEF PIDs
  <2> QED BY <1>1, <1>2, <1>3, <1>4, <2>1, <2>3, <2>4
<1>5. CASE ~IsES(wire[k])
  <2>1. wire[k].pid \in {pidPAT, writerPMTPID}
    BY <1>5 DEF WireInv, WireTells, TablePiece
  <2> QED BY <1>1, <1>2, <1>3, <1>5, <2>1 DEF PIDs
<1> QED BY <1>4, <1>5

(* The reader's tracks, and that each PID has one of them.                 *)
LEMMA TrackPids ==
  ASSUME LinkInv, NEW i \in DOMAIN order
  PROVE  /\ pc # "new" /\ phase \in {"read", "flush", "eof"} /\ i \in DOMAIN tracks
         /\ order[i] \in Stream(PIDs) /\ order[i].pid \in PIDs
         /\ order[i].pid \in DOMAIN cc /\ order[i].pid \notin {pidPAT, writerPMTPID}
         /\ \A j \in DOMAIN order : order[j].pid = order[i].pid => j = i
         /\ StreamIndex(order[i].pid) = i
<1>1. phase \in {"read", "flush", "eof"}
  <2>1. DOMAIN << >> = {}
    OBVIOUS
  <2> QED BY <2>1 DEF LinkInv, LinkTypes, TablesRead
<1>2. /\ pc # "new" /\ DOMAIN order = DOMAIN tracks
      /\ \A j \in DOMAIN order : order[j].pid = tracks[j].pid
  BY <1>1 DEF LinkInv, TablesRead
<1>3. ValidOptions(tracks) /\ tracks \in Options /\ tracks \in Seq(Track)
      /\ DOMAIN cc = {tracks[j].pid : j \in DOMAIN tracks} \cup {pidPAT, writerPMTPID}
  BY <1>2 DEF LinkInv, WireInv, Inv, Made, TypeOK
<1>4. order[i] \in Stream(PIDs)
  BY DEF LinkInv, LinkTypes
<1>5. order[i].pid \in PIDs
  BY <1>4 DEF Stream
<1>6. order[i].pid \in DOMAIN cc /\ order[i].pid \notin {pidPAT, writerPMTPID}
  <2>1. i \in DOMAIN tracks
    BY <1>2
  <2> QED BY <2>1, <1>2, <1>3, TrackPidRange
<1>7. \A j \in DOMAIN order : order[j].pid = order[i].pid => j = i
  <2> SUFFICES ASSUME NEW j \in DOMAIN order, order[j].pid = order[i].pid, j # i
               PROVE  FALSE
    OBVIOUS
  <2>1. i \in DOMAIN tracks /\ j \in DOMAIN tracks /\ tracks[i].pid = tracks[j].pid
    BY <1>2
  <2>2. i \in Nat /\ j \in Nat /\ i > 0 /\ j > 0
    BY <2>1, <1>3
  <2>3. CASE j < i
    <3>1. j \in 1..(i - 1)
      BY <2>2, <2>3
    <3> QED BY <3>1, <2>1, <1>3 DEF ValidOptions
  <2>4. CASE i < j
    <3>1. i \in 1..(j - 1)
      BY <2>2, <2>4
    <3> QED BY <3>1, <2>1, <1>3 DEF ValidOptions
  <2> QED BY <2>2, <2>3, <2>4
<1>8. StreamIndex(order[i].pid) = i
  <2> DEFINE same == {j \in DOMAIN order : order[j].pid = order[i].pid}
  <2>1. same = {i}
    BY <1>7
  <2>2. i <= i
    <3>1. i \in Nat
      BY <1>2, <1>3
    <3> QED BY <3>1
  <2>3. StreamIndex(order[i].pid) = CHOOSE k \in same : \A j \in same : j <= k
    BY <2>1 DEF StreamIndex
  <2> HIDE DEF same
  <2>4. (CHOOSE k \in same : \A j \in same : j <= k) \in same
    BY <2>1, <2>2
  <2> QED BY <2>1, <2>3, <2>4
<1> QED BY <1>1, <1>2, <1>4, <1>5, <1>6, <1>7, <1>8

(* StreamIndex is 0, or a track with that PID.                             *)
LEMMA NoTrack ==
  ASSUME LinkInv, NEW t, StreamIndex(t) # 0
  PROVE  StreamIndex(t) \in DOMAIN order /\ order[StreamIndex(t)].pid = t
<1>1. PICK i \in DOMAIN order : order[i].pid = t
  <2>1. {i \in DOMAIN order : order[i].pid = t} # {}
    BY DEF StreamIndex
  <2> QED BY <2>1
<1> QED BY <1>1, TrackPids

-----------------------------------------------------------------------------
(* What stays true while nothing happens to a track.                       *)
LEMMA SeenKept ==
  ASSUME WireGrows, Got \in Nat, Got' \in Nat, Got <= Got', Got <= Len(wire), NEW a, WasSeen(a)
  PROVE  WasSeen(a)'
<1>1. PICK j \in 1..Got : Carries(wire[j], a)
  BY DEF WasSeen
<1>2. Len(wire) \in Nat
  BY DEF WireGrows
<1>3. j \in 1..Len(wire) /\ j \in 1..Got'
  BY <1>2
<1>4. wire'[j] = wire[j]
  BY <1>3 DEF WireGrows
<1>5. (Carries(wire[j], a))'
  BY <1>1, <1>4 DEF Carries
<1> QED BY <1>3, <1>5 DEF WasSeen

(* A part of a unit stays one while the log grows.                         *)
LEMMA PartKept ==
  ASSUME LogGrows, NEW d, NEW a, PartOf(d, a)
  PROVE  PartOf(d, a)' /\ SameUnit(log[a], log'[a])
BY DEF PartOf, LogGrows, SameUnit

(* A whole unit stays one while the log grows.                             *)
LEMMA UnitKept ==
  ASSUME LogGrows, NEW d, NEW a \in DOMAIN log, IsUnit(d, a)
  PROVE  IsUnit(d, a)' /\ SameUnit(log[a], log'[a]) /\ a \in DOMAIN log'
<1>1. SameUnit(log[a], log'[a]) /\ a \in DOMAIN log'
  BY DEF LogGrows
<1> QED BY <1>1 DEF IsUnit, SameUnit

(* The same said of a stream and of its place.                             *)
LEMMA HoldsAt ==
  ASSUME NEW i, NEW s, s = order'[i], Holds(s)'
  PROVE  (Holds(order[i]))'
BY DEF Holds, PartOf, WasSeen, UpTo, EndOf

(* CounterSeen of a track of the next state, said of its value.            *)
LEMMA CounterAt ==
  ASSUME NEW i, NEW s, s = order'[i], CounterSeen(s)'
  PROVE  (CounterSeen(order[i]))'
BY DEF CounterSeen, NextIs

(* What a track holds stays true when the track is left alone.             *)
LEMMA HoldsKept ==
  ASSUME NEW s, LogGrows, WireGrows,
         Got \in Nat, Got' \in Nat, Got <= Got', Got <= Len(wire), Got' <= Len(wire'),
         burst'[s.pid] = 0 => /\ burst[s.pid] = 0
                              /\ \A j \in (Got + 1)..Got' : wire'[j].pid # s.pid,
         delivered'[s.pid] = delivered[s.pid],
         Holds(s)
  PROVE  Holds(s)'
<1> DEFINE d == s.mem[s.cur]
           a == d[1].au
<1>1. SUFFICES ASSUME s.collecting
      PROVE  /\ s.hasCC
             /\ PartOf(d, a)' /\ log'[a].pid = s.pid
             /\ s.rai = log'[a].rai
             /\ WasSeen(a)'
             /\ burst'[s.pid] = 0 => \E m \in 1..Got' : UpTo(d, s.pid, m)'
             /\ \A k \in DOMAIN delivered'[s.pid] : delivered'[s.pid][k].data[1].au < a
  BY DEF Holds
<1>2. /\ s.hasCC /\ PartOf(d, a) /\ log[a].pid = s.pid /\ s.rai = log[a].rai
      /\ WasSeen(a)
      /\ burst[s.pid] = 0 => \E m \in 1..Got : UpTo(d, s.pid, m)
      /\ \A k \in DOMAIN delivered[s.pid] : delivered[s.pid][k].data[1].au < a
  BY <1>1 DEF Holds
<1> HIDE DEF d, a
<1>3. PartOf(d, a)' /\ log'[a].pid = s.pid /\ s.rai = log'[a].rai
  BY <1>2, PartKept DEF SameUnit
<1>4. WasSeen(a)'
  BY <1>2, SeenKept
<1>5. ASSUME burst'[s.pid] = 0 PROVE \E m \in 1..Got' : UpTo(d, s.pid, m)'
  <2>1. PICK m \in 1..Got : UpTo(d, s.pid, m)
    BY <1>2, <1>5
  <2>2. Len(wire) \in Nat /\ m \in 1..Len(wire) /\ m \in 1..Got'
    BY DEF WireGrows
  <2>3. wire'[m] = wire[m]
    BY <2>2 DEF WireGrows
  <2>4. \A j \in (m + 1)..Got' : wire'[j].pid # s.pid
    <3> SUFFICES ASSUME NEW j \in (m + 1)..Got' PROVE wire'[j].pid # s.pid
      OBVIOUS
    <3>1. CASE j \in (Got + 1)..Got'
      BY <3>1, <1>5
    <3>2. CASE j <= Got
      <4>1. j \in (m + 1)..Got /\ j \in 1..Len(wire)
        BY <3>2, <2>2
      <4> QED BY <4>1, <2>1 DEF UpTo, WireGrows
    <3> QED BY <3>1, <3>2
  <2>5. UpTo(d, s.pid, m)'
    BY <2>1, <2>3, <2>4 DEF UpTo, Carries, RunEnd, EndOf
  <2> QED BY <2>2, <2>5
<1> QED BY <1>2, <1>3, <1>4, <1>5

(* The counter a track has seen, when the track is left alone.             *)
LEMMA CounterKept ==
  ASSUME NEW s, wire' = wire, cc' = cc, Len(wire) \in Nat, Got \in Nat,
         \/ Got' = Got
         \/ Got' = Got + 1 /\ Got < Len(wire) /\ wire[Got + 1].pid # s.pid,
         burst'[s.pid] = burst[s.pid],
         CounterSeen(s)
  PROVE  CounterSeen(s)'
<1> DEFINE c == (s.cc + burst[s.pid] + 1) % CCMod
<1>1. SUFFICES ASSUME s.hasCC PROVE s.cc \in CC /\ (NextIs(Got, s.pid, c))'
  BY DEF CounterSeen
<1>2. s.cc \in CC /\ NextIs(Got, s.pid, c)
  BY <1>1 DEF CounterSeen
<1>3. PICK g \in Nat : g = Got
  OBVIOUS
<1>4. PICK e : e = c
  OBVIOUS
<1>5. c' = c
  OBVIOUS
<1> HIDE DEF c
<1>6. NextIs(Got', s.pid, e)
  BY <1>2, <1>3, <1>4, NextSkips
<1>7. (NextIs(Got, s.pid, c))'
  BY <1>4, <1>5, <1>6 DEF NextIs
<1> QED BY <1>2, <1>7

(* A unit that was delivered stays accounted for.                          *)
LEMMA GivenAsKept ==
  ASSUME NEW t, LogGrows, WireGrows,
         Got \in Nat, Got' \in Nat, Got <= Got', Got <= Len(wire),
         pc = "closed" => pc' = "closed",
         flushIdx \in Nat, flushIdx' \in Nat, flushIdx <= flushIdx',
         \A i \in 1..flushIdx : order'[i].pid = order[i].pid,
         NEW d, GivenAs(d, t)
  PROVE  GivenAs(d, t)'
<1> DEFINE a == d.data[1].au
<1>1. /\ d.data # << >> /\ a \in DOMAIN log /\ WasSeen(a)
      /\ \/ IsUnit(d, a) /\ log[a].status = "ok" /\ d.rai = log[a].rai
         \/ d.cut /\ pc = "closed" /\ \E i \in 1..flushIdx : order[i].pid = t
  BY DEF GivenAs
<1> SUFFICES /\ d.data # << >> /\ a \in DOMAIN log' /\ WasSeen(a)'
             /\ \/ IsUnit(d, a)' /\ log'[a].status = "ok" /\ d.rai = log'[a].rai
                \/ d.cut /\ pc' = "closed" /\ \E i \in 1..flushIdx' : order'[i].pid = t
  BY DEF GivenAs
<1> HIDE DEF a
<1>2. a \in DOMAIN log' /\ WasSeen(a)'
  BY <1>1, SeenKept DEF LogGrows
<1>3. CASE IsUnit(d, a) /\ log[a].status = "ok" /\ d.rai = log[a].rai
  BY <1>1, <1>2, <1>3, UnitKept DEF SameUnit, a
<1>4. CASE d.cut /\ pc = "closed" /\ \E i \in 1..flushIdx : order[i].pid = t
  BY <1>1, <1>2, <1>4 DEF a
<1> QED BY <1>1, <1>3, <1>4

(* GivenAs of a unit of the next state, said of its value.                 *)
LEMMA GivenAsAt ==
  ASSUME NEW t, NEW k, NEW d, d = delivered'[t][k], GivenAs(d, t)'
  PROVE  (GivenAs(delivered[t][k], t))'
BY DEF GivenAs, IsUnit, WasSeen

(* The same for all units of a PID that gets no new one.                   *)
LEMMA GivenKept ==
  ASSUME NEW t, LogGrows, WireGrows,
         Got \in Nat, Got' \in Nat, Got <= Got', Got <= Len(wire),
         pc = "closed" => pc' = "closed",
         flushIdx \in Nat, flushIdx' \in Nat, flushIdx <= flushIdx',
         \A i \in 1..flushIdx : order'[i].pid = order[i].pid,
         delivered'[t] = delivered[t], Given(t)
  PROVE  Given(t)'
<1> SUFFICES ASSUME NEW k \in DOMAIN delivered[t] PROVE (GivenAs(delivered[t][k], t))'
  BY DEF Given
<1>1. PICK d : d = delivered[t][k]
  OBVIOUS
<1>2. GivenAs(d, t) /\ d = delivered'[t][k]
  BY <1>1 DEF Given
<1>3. GivenAs(d, t)'
  BY <1>2, GivenAsKept
<1> QED BY <1>2, <1>3, GivenAsAt

(* One more unit is delivered.                                             *)
LEMMA GivenMore ==
  ASSUME NEW t, LogGrows, WireGrows,
         Got \in Nat, Got' \in Nat, Got <= Got', Got <= Len(wire),
         pc = "closed" => pc' = "closed",
         flushIdx \in Nat, flushIdx' \in Nat, flushIdx <= flushIdx',
         \A i \in 1..flushIdx : order'[i].pid = order[i].pid,
         Given(t), delivered[t] \in Seq(Out), NEW e \in Out,
         delivered'[t] = Append(delivered[t], e), GivenAs(e, t)'
  PROVE  Given(t)'
<1> SUFFICES ASSUME NEW k \in DOMAIN delivered'[t] PROVE (GivenAs(delivered[t][k], t))'
  BY DEF Given
<1> DEFINE n == Len(delivered[t])
<1>1. /\ n \in Nat /\ DOMAIN delivered[t] = 1..n /\ DOMAIN delivered'[t] = 1..(n + 1)
      /\ delivered'[t][n + 1] = e
      /\ \A j \in 1..n : delivered'[t][j] = delivered[t][j]
  OBVIOUS
<1>2. CASE k = n + 1
  BY <1>1, <1>2, GivenAsAt
<1>3. CASE k \in 1..n
  <2>1. PICK d : d = delivered[t][k]
    OBVIOUS
  <2>2. GivenAs(d, t) /\ d = delivered'[t][k]
    BY <2>1, <1>1, <1>3 DEF Given
  <2>3. GivenAs(d, t)'
    BY <2>2, GivenAsKept
  <2> QED BY <2>2, <2>3, GivenAsAt
<1> HIDE DEF n
<1> QED BY <1>1, <1>2, <1>3

(* Where the transport is.                                                 *)
LEMMA LinkFacts ==
  ASSUME LinkInv
  PROVE  /\ wire \in Seq(Packet) /\ Len(wire) \in Nat /\ DOMAIN wire = 1..Len(wire)
         /\ log \in Seq(WrittenUnit) /\ Len(log) \in Nat /\ DOMAIN log = 1..Len(log)
         /\ pos \in Nat /\ pos <= Len(wire) /\ Got \in Nat /\ Got <= Len(wire)
         /\ Got = pos \/ (again /\ Got = pos + 1 /\ UnderWay)
         /\ Len(order) \in Nat /\ DOMAIN order = 1..Len(order) /\ flushIdx \in Nat
         /\ flushIdx <= Len(order)
<1>1. /\ wire \in Seq(Packet) /\ log \in Seq(WrittenUnit) /\ order \in Seq(Stream(PIDs))
      /\ pos \in 0..Len(wire) /\ flushIdx \in 0..Len(order)
      /\ again => UnderWay
  BY DEF LinkInv, LinkTypes, WireInv, Inv, TypeOK
<1>2. Len(wire) \in Nat /\ Len(log) \in Nat /\ Len(order) \in Nat
  BY <1>1
<1>3. pos \in Nat /\ pos <= Len(wire) /\ (again => pos < Len(wire))
  BY <1>1, <1>2 DEF UnderWay
<1>4. Got \in Nat /\ Got <= Len(wire) /\ (Got = pos \/ (again /\ Got = pos + 1))
  BY <1>2, <1>3 DEF Got
<1> QED BY <1>1, <1>2, <1>3, <1>4

-----------------------------------------------------------------------------
(* A step of the writer.                                                   *)
LEMMA WriteKeeps ==
  ASSUME LinkInv, [WriterNext]_wvars, UNCHANGED <<rvars, cvars, delivered>>
  PROVE  LinkInv'
<1>1. WireInv' /\ WriterMoves /\ WireInv
  BY WriterStep DEF LinkInv
<1>2. /\ phase' = phase /\ pmtPID' = pmtPID /\ asm' = asm /\ order' = order
      /\ flushIdx' = flushIdx /\ pos' = pos /\ burst' = burst /\ again' = again
      /\ delivered' = delivered /\ returned' = returned
  BY DEF rvars, cvars
<1>3. LogGrows /\ WireGrows
  BY <1>1 DEF WriterMoves
<1>4. /\ wire' \in Seq(Packet) /\ Len(wire') \in Nat /\ Len(wire) <= Len(wire')
      /\ \A k \in 1..Len(wire) : wire'[k] = wire[k]
  BY <1>3 DEF WireGrows
<1>5. /\ Len(wire) \in Nat /\ pos \in Nat /\ pos <= Len(wire) /\ Got \in Nat
      /\ Got <= Len(wire) /\ DOMAIN wire = 1..Len(wire)
  BY LinkFacts
<1>6. Got' = Got
  BY <1>2 DEF Got
<1>7. UnderWay => UnderWay' /\ First' = First
  <2>1. UnderWay => pos + 1 \in 1..Len(wire)
    BY <1>5 DEF UnderWay
  <2> QED BY <2>1, <1>2, <1>4, <1>5 DEF UnderWay, First
<1>8. LinkTypes'
  <2>1. pos' \in 0..Len(wire')
    BY <1>2, <1>4, <1>5
  <2>2. again' => (UnderWay' /\ First'.ok)
    BY <1>2, <1>7 DEF LinkInv, LinkTypes
  <2> QED BY <1>2, <2>1, <2>2 DEF LinkInv, LinkTypes
<1>9. TablesRead'
  <2>1. phase \in {"read", "flush", "eof"} => pc' # "new" /\ tracks' = tracks
    BY <1>1 DEF LinkInv, TablesRead, WriterMoves
  <2>2. phase \in {"flush", "eof"} => pc' = "closed" /\ ~UnderWay'
    BY <1>1, <1>2 DEF LinkInv, TablesRead, WriterMoves, UnderWay
  <2> QED BY <1>2, <2>1, <2>2 DEF LinkInv, TablesRead
<1>10. BurstsShort'
  <2>1. CASE UnderWay
    BY <2>1, <1>2, <1>7 DEF LinkInv, BurstsShort, IsES
  <2>2. CASE ~UnderWay
    <3>0. \A x, y \in Nat : x <= y /\ ~(x < y) => x = y
      OBVIOUS
    <3>1. pos = Len(wire)
      BY <2>2, <3>0, <1>5 DEF UnderWay
    <3>2. CASE wire' = wire /\ (pc' = "pes" /\ ~job'.first => pc = "pes" /\ job' = job)
      BY <2>2, <3>2, <1>2 DEF LinkInv, BurstsShort, UnderWay
    <3>3. ASSUME NEW p \in Packet, wire' = Append(wire, p),
                 IsES(p) /\ ~p.start => pc = "pes" /\ ~job.first /\ job.pid = p.pid
          PROVE  BurstsShort'
      <4>1. wire'[Len(wire) + 1] = p /\ Len(wire') = Len(wire) + 1
        BY <1>3, <3>3, OneMore DEF WireGrows
      <4>2. UnderWay' /\ First' = p
        BY <4>1, <3>1, <1>2, <1>5 DEF UnderWay, First
      <4>3. IsES(p) /\ ~p.start => burst[p.pid] <= MaxBurst
        BY <2>2, <3>3 DEF LinkInv, BurstsShort
      <4> QED BY <4>2, <4>3, <1>2 DEF BurstsShort, IsES
    <3> QED BY <1>1, <3>2, <3>3 DEF WriterMoves
  <2> QED BY <2>1, <2>2
<1>11. HandledOnce'
  <2>1. again => UnderWay
    BY DEF LinkInv, LinkTypes
  <2> QED BY <2>1, <1>2, <1>7 DEF LinkInv, HandledOnce, IsES
<1>12. Collected'
  <2> SUFFICES ASSUME NEW i \in DOMAIN order
               PROVE  /\ (CounterSeen(order[i]))' /\ (Holds(order[i]))'
                      /\ i <= flushIdx => ~order[i].collecting
    BY <1>2 DEF Collected
  <2>1. PICK s : s = order[i]
    OBVIOUS
  <2>2. s = order'[i] /\ CounterSeen(s) /\ Holds(s) /\ (i <= flushIdx => ~s.collecting)
    BY <2>1, <1>2 DEF LinkInv, Collected
  <2>3. Holds(s)'
    <3>1. \A j \in (Got + 1)..Got' : FALSE
      BY <1>5, <1>6
    <3>2. Got <= Got' /\ Got' \in Nat /\ Got' <= Len(wire')
      BY <1>4, <1>5, <1>6
    <3> QED BY <2>2, <3>1, <3>2, <1>2, <1>3, <1>5, HoldsKept
  <2>4. CounterSeen(s)'
    <3>1. pc # "new" /\ s.pid \in DOMAIN cc
      BY <2>1, TrackPids
    <3> DEFINE c == (s.cc + burst[s.pid] + 1) % CCMod
    <3>2. c' = c
      BY <1>2
    <3> SUFFICES ASSUME s.hasCC PROVE s.cc \in CC /\ (NextIs(Got, s.pid, c))'
      BY DEF CounterSeen
    <3>3. s.cc \in CC /\ NextIs(Got, s.pid, c)
      BY <2>2 DEF CounterSeen
    <3>4. PICK e : e = c
      OBVIOUS
    <3>5. PICK g \in 0..Len(wire) : g = Got
      BY <1>5
    <3> HIDE DEF c
    <3>6. NextIs(g, s.pid, e)
      BY <3>3, <3>4, <3>5
    <3>7. NextIs(g, s.pid, e)'
      BY <3>1, <3>6, <1>1, NextKept
    <3>8. (NextIs(Got, s.pid, c))'
      BY <3>2, <3>4, <3>5, <3>7, <1>6 DEF NextIs
    <3> QED BY <3>3, <3>8
  <2>5. (CounterSeen(order[i]))' /\ (Holds(order[i]))'
    BY <2>2, <2>3, <2>4, HoldsAt, CounterAt
  <2> QED BY <2>1, <2>2, <2>5
<1>13. ASSUME NEW t \in PIDs PROVE Given(t)'
  <2>1. pc = "closed" => pc' = "closed"
    BY <1>1 DEF WriterMoves
  <2>2. flushIdx \in Nat /\ Given(t)
    BY LinkFacts DEF LinkInv
  <2> QED BY <2>1, <2>2, <1>2, <1>3, <1>5, <1>6, GivenKept
<1> QED BY <1>1, <1>8, <1>9, <1>10, <1>11, <1>12, <1>13 DEF LinkInv

-----------------------------------------------------------------------------
(* A packet leaves the transport.                                          *)

(* The unit it is of goes on with the next packet, so the gap is short.    *)
LEMMA ShortAfter ==
  ASSUME WireInv, UNCHANGED wvars, pos \in Nat, UnderWay, pos' = pos + 1,
         IsES(First) /\ First.ok => burst'[First.pid] <= MaxBurst
  PROVE  BurstsShort'
<1>1. wire' = wire /\ pc' = pc /\ job' = job
  BY DEF wvars
<1>2. wire \in Seq(Packet) /\ Len(wire) \in Nat /\ DOMAIN wire = 1..Len(wire)
  BY DEF WireInv, Inv, TypeOK
<1>3. pos < Len(wire)
  BY DEF UnderWay
<1>4. ASSUME UnderWay', IsES(First)', ~First'.start
      PROVE  burst'[First'.pid] <= MaxBurst
  <2>1. (pos + 1) + 1 \in DOMAIN wire /\ ((pos + 1) + 1) - 1 = pos + 1
    BY <1>1, <1>2, <1>4 DEF UnderWay
  <2>2. First' = wire[(pos + 1) + 1] /\ First = wire[pos + 1]
    BY <1>1 DEF First
  <2>3. UnitPacket((pos + 1) + 1)
    BY <2>1, <2>2, <1>4 DEF WireInv, WireTells, IsES
  <2>4. IsES(First) /\ First.ok /\ First'.pid = First.pid
    BY <2>1, <2>2, <2>3, <1>4 DEF UnitPacket, GoesOn
  <2> QED BY <2>4
<1>5. ASSUME ~UnderWay', pc' = "pes", ~job'.first
      PROVE  burst'[job'.pid] <= MaxBurst
  <2>1. pos + 1 = Len(wire)
    <3>1. \A x, y \in Nat : x < y /\ ~(x + 1 < y) => x + 1 = y
      OBVIOUS
    <3> QED BY <3>1, <1>1, <1>2, <1>3, <1>5 DEF UnderWay
  <2>2. Writing
    BY <1>1, <1>5 DEF Writing
  <2>3. PICK b \in DOMAIN wire : Run(wire, job.au, b, Len(wire))
    BY <2>2, <1>1, <1>5 DEF WireInv, Inv, Progress
  <2>4. Len(wire) \in DOMAIN wire /\ Len(wire) \in b..Len(wire)
    BY <2>3, <1>2
  <2>5. Carries(First, job.au) /\ First.ok
    BY <2>1, <2>3, <2>4 DEF Run, First
  <2>6. IsES(First) /\ UnitPacket(Len(wire))
    BY <2>1, <2>4, <2>5 DEF IsES, Carries, WireInv, WireTells, First
  <2>7. First.pid = log[job.au].pid /\ job.pid = log[job.au].pid
    BY <2>1, <2>2, <2>5, <2>6 DEF UnitPacket, Carries, First, WireInv, Inv, JobIsLast
  <2> QED BY <2>5, <2>6, <2>7, <1>1
<1> QED BY <1>4, <1>5 DEF BurstsShort

(* A packet is lost or was refused.                                        *)
LEMMA GoneKeeps ==
  ASSUME LinkInv, UnderWay, ~again, Gone(First),
         First.ok => burst[First.pid] < MaxBurst
  PROVE  LinkInv'
<1> DEFINE q == First.pid
           n == pos + 1
<1>1. /\ pos' = pos + 1 /\ again' = again /\ delivered' = delivered
      /\ burst' = [burst EXCEPT ![q] = @ + 1] /\ UNCHANGED wvars
      /\ phase' = phase /\ pmtPID' = pmtPID /\ asm' = asm /\ order' = order
      /\ flushIdx' = flushIdx /\ returned' = returned
  BY DEF Gone, rvars
<1>2. WireInv' /\ WireInv /\ LogGrows /\ WireGrows
  BY <1>1, WriterStep DEF LinkInv, WriterMoves
<1>3. wire' = wire /\ cc' = cc /\ log' = log /\ tracks' = tracks /\ pc' = pc
  BY <1>1 DEF wvars
<1>4. /\ Len(wire) \in Nat /\ DOMAIN wire = 1..Len(wire) /\ pos \in Nat
      /\ flushIdx \in Nat
  BY LinkFacts
<1>5. /\ pos < Len(wire) /\ n \in DOMAIN wire /\ First = wire[n] /\ n \in Nat
      /\ n <= Len(wire)
  BY <1>4 DEF UnderWay, First
<1>6. Got = pos /\ Got' = n /\ ~again'
  BY <1>1 DEF Got
<1>7. q \in PIDs /\ q \in DOMAIN cc
  BY <1>2, <1>5, WirePids
<1>8. burst \in [PIDs -> Nat] /\ burst[q] \in Nat
  BY <1>7 DEF LinkInv, LinkTypes
<1> HIDE DEF q, n
<1>9. /\ burst' \in [PIDs -> Nat] /\ burst'[q] = burst[q] + 1
      /\ \A t \in PIDs : t # q => burst'[t] = burst[t]
  BY <1>1, <1>7, <1>8
<1>10. LinkTypes'
  <2>1. pos' \in 0..Len(wire')
    BY <1>1, <1>3, <1>4, <1>5 DEF n
  <2> QED BY <2>1, <1>1, <1>6, <1>9 DEF LinkInv, LinkTypes
<1>11. TablesRead'
  <2>1. phase \notin {"flush", "eof"}
    BY DEF LinkInv, TablesRead
  <2> QED BY <2>1, <1>1, <1>3 DEF LinkInv, TablesRead
<1>12. BurstsShort'
  <2>1. First.ok => burst'[First.pid] <= MaxBurst
    <3>1. \A x, y \in Nat : x < y => x + 1 <= y
      OBVIOUS
    <3> QED BY <3>1, <1>8, <1>9, MaxBurstAssumption DEF q
  <2> QED BY <2>1, <1>1, <1>2, <1>4, ShortAfter
<1>13. HandledOnce'
  BY <1>6 DEF HandledOnce
<1>14. Collected'
  <2> SUFFICES ASSUME NEW i \in DOMAIN order
               PROVE  /\ (CounterSeen(order[i]))' /\ (Holds(order[i]))'
                      /\ i <= flushIdx => ~order[i].collecting
    BY <1>1 DEF Collected
  <2>1. PICK s : s = order[i]
    OBVIOUS
  <2>2. s = order'[i] /\ CounterSeen(s) /\ Holds(s) /\ (i <= flushIdx => ~s.collecting)
        /\ s.pid \in PIDs
    BY <2>1, <1>1, TrackPids DEF LinkInv, Collected
  <2>3. Holds(s)'
    <3>1. \A j \in (Got + 1)..Got' : j = n
      BY <1>4, <1>6 DEF n
    <3>2. Got <= Got' /\ Got' \in Nat /\ Got' <= Len(wire')
      BY <1>3, <1>4, <1>5, <1>6 DEF n
    <3>3. burst'[s.pid] = 0 => s.pid # q
      BY <1>8, <1>9
    <3>4. burst'[s.pid] = 0 =>
            /\ burst[s.pid] = 0
            /\ \A j \in (Got + 1)..Got' : wire'[j].pid # s.pid
      BY <3>1, <3>3, <2>2, <1>3, <1>5, <1>9 DEF q
    <3>5. Got \in Nat /\ Got <= Len(wire)
      BY <1>4, <1>5, <1>6
    <3> QED BY <2>2, <3>2, <3>4, <3>5, <1>1, <1>2, HoldsKept
  <2>4. CounterSeen(s)'
    <3>1. CASE s.pid # q
      <4>1. Got' = Got + 1 /\ Got < Len(wire) /\ wire[Got + 1].pid # s.pid /\ Got \in Nat
        BY <3>1, <1>4, <1>5, <1>6 DEF n, q
      <4> QED BY <4>1, <3>1, <2>2, <1>3, <1>4, <1>9, CounterKept
    <3>2. CASE s.pid = q
      <4> SUFFICES ASSUME s.hasCC
                   PROVE  s.cc \in CC
                          /\ (NextIs(Got, s.pid, (s.cc + burst[s.pid] + 1) % CCMod))'
        BY DEF CounterSeen
      <4>1. s.cc \in CC /\ NextIs(pos, q, (s.cc + burst[q] + 1) % CCMod)
        BY <2>2, <3>2, <1>6 DEF CounterSeen
      <4>2. wire[n].cc = (s.cc + burst[q] + 1) % CCMod
        BY <4>1, <1>4, <1>5, NextTaken DEF n, q
      <4>3. NextIs(n, q, NextCC(wire[n].cc))
        BY <1>2, <1>5, <1>7, NextAfter DEF q
      <4>4. NextCC(wire[n].cc) = (s.cc + (burst[q] + 1) + 1) % CCMod
        BY <4>1, <4>2, <1>8, CounterMoves
      <4>5. PICK e : e = (s.cc + (burst[q] + 1) + 1) % CCMod
        OBVIOUS
      <4>6. NextIs(n, q, e)
        BY <4>3, <4>4, <4>5
      <4>7. (s.cc + burst'[s.pid] + 1) % CCMod = e
        BY <3>2, <4>5, <1>9
      <4>8. (NextIs(Got, s.pid, (s.cc + burst[s.pid] + 1) % CCMod))'
        BY <4>6, <4>7, <3>2, <1>3, <1>6 DEF NextIs
      <4> QED BY <4>1, <4>8
    <3> QED BY <3>1, <3>2
  <2>5. (CounterSeen(order[i]))' /\ (Holds(order[i]))'
    BY <2>2, <2>3, <2>4, HoldsAt, CounterAt
  <2> QED BY <2>1, <2>2, <2>5
<1>15. ASSUME NEW t \in PIDs PROVE Given(t)'
  <2>1. /\ Got \in Nat /\ Got' \in Nat /\ Got <= Got' /\ Got <= Len(wire)
    BY <1>4, <1>5, <1>6 DEF n
  <2>2. Given(t) /\ flushIdx <= flushIdx
    BY <1>4 DEF LinkInv
  <2> QED BY <2>1, <2>2, <1>1, <1>2, <1>3, <1>4, GivenKept
<1> QED BY <1>2, <1>10, <1>11, <1>12, <1>13, <1>14, <1>15 DEF LinkInv

-----------------------------------------------------------------------------
(* The reader receives a packet, for the first or the second time.         *)
Arrives ==
  /\ UnderWay /\ First.ok /\ UNCHANGED wvars
  /\ \/ again' /\ ~again /\ pos' = pos
     \/ again' = FALSE /\ pos' = pos + 1
  /\ burst' = [burst EXCEPT ![First.pid] = 0]
  /\ again' \in BOOLEAN

(* What holds of every packet the reader is given.                         *)
LEMMA ArrivesFacts ==
  ASSUME LinkInv, Arrives
  PROVE  /\ WireInv /\ WireInv' /\ LogGrows /\ WireGrows /\ BurstsShort'
         /\ wire' = wire /\ cc' = cc /\ log' = log /\ tracks' = tracks /\ pc' = pc
         /\ pos \in Nat /\ pos' \in 0..Len(wire') /\ pos + 1 \in DOMAIN wire
         /\ pos + 1 \in Nat /\ pos + 1 <= Len(wire)
         /\ First = wire[pos + 1] /\ Got' = pos + 1
         /\ (~again /\ Got = pos) \/ (again /\ Got = pos + 1)
         /\ (again' => UnderWay' /\ First' = First)
         /\ First \in Packet /\ First.pid \in PIDs /\ First.pid \in DOMAIN cc
         /\ burst \in [PIDs -> Nat] /\ burst' \in [PIDs -> Nat]
         /\ burst'[First.pid] = 0
         /\ \A t \in PIDs : t # First.pid => burst'[t] = burst[t]
<1>1. WireInv' /\ WireInv /\ LogGrows /\ WireGrows
  BY WriterStep DEF LinkInv, WriterMoves, Arrives
<1>2. wire' = wire /\ cc' = cc /\ log' = log /\ tracks' = tracks /\ pc' = pc /\ job' = job
  BY DEF wvars, Arrives
<1>3. Len(wire) \in Nat /\ DOMAIN wire = 1..Len(wire) /\ pos \in Nat
  BY LinkFacts
<1>4. /\ pos < Len(wire) /\ pos + 1 \in DOMAIN wire /\ First = wire[pos + 1]
      /\ pos + 1 \in Nat /\ pos + 1 <= Len(wire)
  BY <1>3 DEF UnderWay, First, Arrives
<1>5. First \in Packet /\ First.pid \in PIDs /\ First.pid \in DOMAIN cc
  BY <1>1, <1>4, WirePids
<1>6. /\ burst \in [PIDs -> Nat] /\ burst' \in [PIDs -> Nat]
      /\ burst'[First.pid] = 0
      /\ \A t \in PIDs : t # First.pid => burst'[t] = burst[t]
  BY <1>5 DEF LinkInv, LinkTypes, Arrives
<1>7. Got' = pos + 1
  BY DEF Arrives, Got
<1>8. (~again /\ Got = pos) \/ (again /\ Got = pos + 1)
  BY DEF Got
<1>9. pos' \in 0..Len(wire')
  BY <1>2, <1>3, <1>4 DEF Arrives
<1>10. again' => (UnderWay' /\ First' = First)
  BY <1>2 DEF UnderWay, First, Arrives
<1>11. BurstsShort'
  <2>1. 0 <= MaxBurst
    BY MaxBurstAssumption
  <2>2. CASE pos' = pos + 1
    BY <2>1, <2>2, <1>1, <1>3, <1>6, ShortAfter DEF Arrives
  <2>3. CASE again' /\ pos' = pos
    <3>1. UnderWay' /\ First' = First /\ burst'[First'.pid] = 0
      BY <2>3, <1>6, <1>10
    <3> QED BY <2>1, <3>1 DEF BurstsShort
  <2> QED BY <2>2, <2>3 DEF Arrives
<1> QED BY <1>1, <1>2, <1>3, <1>4, <1>5, <1>6, <1>7, <1>8, <1>9, <1>10, <1>11

(* The tracks it does not belong to.                                       *)
LEMMA OtherTracks ==
  ASSUME LinkInv, Arrives, NEW i \in DOMAIN order, order[i].pid # First.pid,
         order'[i] = order[i], delivered'[order[i].pid] = delivered[order[i].pid]
  PROVE  (CounterSeen(order[i]))' /\ (Holds(order[i]))'
<1>1. /\ WireInv /\ WireInv' /\ LogGrows /\ WireGrows
      /\ wire' = wire /\ cc' = cc /\ pos \in Nat /\ pos + 1 <= Len(wire)
      /\ First = wire[pos + 1] /\ Got' = pos + 1
      /\ (~again /\ Got = pos) \/ (again /\ Got = pos + 1)
      /\ burst \in [PIDs -> Nat]
      /\ \A t \in PIDs : t # First.pid => burst'[t] = burst[t]
  BY ArrivesFacts
<1>2. PICK s : s = order[i]
  OBVIOUS
<1>3. s = order'[i] /\ CounterSeen(s) /\ Holds(s) /\ s.pid \in PIDs
  BY <1>2, TrackPids DEF LinkInv, Collected
<1>4. burst'[s.pid] = burst[s.pid] /\ delivered'[s.pid] = delivered[s.pid]
  BY <1>1, <1>2, <1>3
<1>5. Len(wire) \in Nat
  BY LinkFacts
<1>6. /\ Got \in Nat /\ Got' \in Nat /\ Got <= Got' /\ Got <= Len(wire)
      /\ Got' <= Len(wire')
  BY <1>1, <1>5
<1>7. \A j \in (Got + 1)..Got' : j = pos + 1
  BY <1>1
<1>8. Holds(s)'
  BY <1>1, <1>2, <1>3, <1>4, <1>6, <1>7, HoldsKept
<1>9. \/ Got' = Got
      \/ Got' = Got + 1 /\ Got < Len(wire) /\ wire[Got + 1].pid # s.pid
  BY <1>1, <1>2, <1>5
<1>10. CounterSeen(s)'
  BY <1>1, <1>3, <1>4, <1>5, <1>6, <1>9, CounterKept
<1> QED BY <1>3, <1>8, <1>10, HoldsAt, CounterAt

(* What was delivered stays what it was.                                   *)
LEMMA OtherGiven ==
  ASSUME LinkInv, Arrives, NEW t \in PIDs, delivered'[t] = delivered[t],
         flushIdx' = flushIdx, \A i \in 1..flushIdx : order'[i].pid = order[i].pid
  PROVE  Given(t)'
<1>1. /\ LogGrows /\ WireGrows /\ pos \in Nat /\ pos + 1 <= Len(wire) /\ pc' = pc
      /\ Got' = pos + 1
      /\ (~again /\ Got = pos) \/ (again /\ Got = pos + 1)
  BY ArrivesFacts
<1>2. flushIdx \in Nat /\ Len(wire) \in Nat /\ Given(t)
  BY LinkFacts DEF LinkInv
<1>3. Got \in Nat /\ Got' \in Nat /\ Got <= Got' /\ Got <= Len(wire)
  BY <1>1, <1>2
<1> QED BY <1>1, <1>2, <1>3, GivenKept

(* A packet that changes nothing for the tracks.                           *)
LEMMA SkipKeeps ==
  ASSUME LinkInv, Arrives, UNCHANGED <<asm, order, flushIdx, delivered>>,
         phase' = phase \/ (phase = "pat" /\ phase' = "pmt"),
         phase \in {"pat", "pmt"} => returned' = NoAU,
         \A i \in DOMAIN order : order[i].pid # First.pid
  PROVE  LinkInv'
<1>1. /\ WireInv' /\ BurstsShort' /\ pos' \in 0..Len(wire') /\ burst' \in [PIDs -> Nat]
      /\ again' => (UnderWay' /\ First' = First)
      /\ tracks' = tracks /\ pc' = pc /\ burst'[First.pid] = 0
  BY ArrivesFacts
<1>2. LinkTypes'
  BY <1>1 DEF LinkInv, LinkTypes, Arrives
<1>3. TablesRead'
  <2>1. phase \notin {"flush", "eof"}
    BY DEF LinkInv, TablesRead, Arrives
  <2> QED BY <2>1, <1>1 DEF LinkInv, TablesRead
<1>4. HandledOnce'
  BY <1>1 DEF HandledOnce
<1>5. Collected'
  BY OtherTracks DEF Collected, LinkInv
<1>6. \A t \in PIDs : Given(t)'
  BY OtherGiven
<1> QED BY <1>1, <1>2, <1>3, <1>4, <1>5, <1>6 DEF LinkInv

-----------------------------------------------------------------------------
(* How long the pieces of a buffer are together, one after the other.      *)
LEMMA SmallestNumber ==
  ASSUME NEW T, T \subseteq Nat, T # {}
  PROVE  \E x \in T : \A y \in T : x <= y
<1>1. IsWellFoundedOn(OpToRel(<, Nat), Nat)
  BY NatLessThanWellFounded
<1>2. PICK x \in T : \A y \in T : ~(<<y, x>> \in OpToRel(<, Nat))
  BY <1>1, WFMin
<1>3. \A y \in T : ~(y < x)
  BY <1>2 DEF OpToRel
<1> QED BY <1>3

(* A non-empty finite set of numbers has a largest one.                    *)
LEMMA LargestOf ==
  ASSUME NEW n \in Nat, NEW T, T \subseteq 1..n, T # {}
  PROVE  Max(T) \in T /\ \A y \in T : y <= Max(T)
<1> DEFINE U == {n - x : x \in T}
<1>1. U \subseteq Nat /\ U # {}
  <2>1. \A x \in T : n - x \in Nat
    OBVIOUS
  <2> QED BY <2>1
<1>2. PICK u \in U : \A v \in U : u <= v
  BY <1>1, SmallestNumber
<1>3. PICK x \in T : u = n - x
  BY <1>2
<1>4. \A y \in T : y <= x
  <2> SUFFICES ASSUME NEW y \in T PROVE y <= x
    OBVIOUS
  <2>1. n - x <= n - y
    BY <1>2, <1>3, n - y \in U
  <2>2. x \in Nat /\ y \in Nat
    OBVIOUS
  <2> QED BY <2>1, <2>2
<1> QED BY <1>4, Zenon DEF Max

(* The recursion of FoldLeft, for the pieces of s.                         *)
Sums(s, it) ==
  it = [t \in SUBSET DOMAIN s |-> IF t = {} THEN 0 ELSE it[t \ {Max(t)}] + s[Max(t)].len]

(* The totals of a sequence and of a prefix of it agree on the prefix.     *)
LEMMA SumsUnique ==
  ASSUME NEW s, NEW n \in Nat, NEW m \in Nat, n <= m, DOMAIN s = 1..m,
         NEW d, DOMAIN d = 1..n, \A k \in 1..n : d[k] = s[k],
         NEW g, NEW h, Sums(s, g), Sums(d, h), NEW t \in SUBSET (1..n)
  PROVE  g[t] = h[t]
<1> DEFINE T == {k \in 0..n : \E u \in SUBSET (1..k) : g[u] # h[u]}
<1> SUFFICES ASSUME g[t] # h[t] PROVE FALSE
  OBVIOUS
<1>1. n \in T /\ T \subseteq Nat
  <2>1. n \in 0..n /\ 0..n \subseteq Nat
    OBVIOUS
  <2> QED BY <2>1
<1>2. PICK k \in T : \A y \in T : k <= y
  BY <1>1, SmallestNumber
<1>3. PICK u \in SUBSET (1..k) : g[u] # h[u]
  OBVIOUS
<1>4. k \in 0..n /\ u \in SUBSET DOMAIN d /\ u \in SUBSET DOMAIN s
  OBVIOUS
<1> HIDE DEF T
<1>5. g[u] = IF u = {} THEN 0 ELSE g[u \ {Max(u)}] + s[Max(u)].len
  BY <1>4, Zenon DEF Sums
<1>6. h[u] = IF u = {} THEN 0 ELSE h[u \ {Max(u)}] + d[Max(u)].len
  BY <1>4, Zenon DEF Sums
<1>7. u # {}
  BY <1>3, <1>5, <1>6
<1>8. Max(u) \in u /\ \A y \in u : y <= Max(u)
  BY <1>4, <1>7, LargestOf
<1>9. PICK x : x = Max(u)
  OBVIOUS
<1>10. x \in 1..k /\ x \in 1..n /\ x - 1 \in 0..n /\ x - 1 < k
  <2>1. x \in 1..k
    BY <1>3, <1>8, <1>9
  <2> QED BY <2>1, <1>4
<1>11. u \ {x} \in SUBSET (1..(x - 1))
  <2> SUFFICES ASSUME NEW y \in u, y # x PROVE y \in 1..(x - 1)
    OBVIOUS
  <2>1. y <= x /\ y \in 1..k
    BY <1>4, <1>8, <1>9
  <2> QED BY <2>1, <1>10
<1>12. x - 1 \notin T
  BY <1>2, <1>10, <1>4
<1>13. g[u \ {x}] = h[u \ {x}]
  BY <1>10, <1>11, <1>12 DEF T
<1> QED BY <1>3, <1>5, <1>6, <1>7, <1>9, <1>10, <1>13

(* If a sequence has totals, so has the one with one more element.         *)
LEMMA SumsExtend ==
  ASSUME NEW S, NEW d \in Seq(S), NEW x \in S, NEW h, Sums(d, h)
  PROVE  \E g : Sums(Append(d, x), g)
<1> DEFINE n == Len(d)
           s == Append(d, x)
           g == [t \in SUBSET DOMAIN s |-> IF n + 1 \in t THEN h[t \ {n + 1}] + x.len
                                                        ELSE h[t]]
<1>1. /\ n \in Nat /\ DOMAIN d = 1..n /\ DOMAIN s = 1..(n + 1) /\ s[n + 1] = x
      /\ \A k \in 1..n : s[k] = d[k]
  OBVIOUS
<1> HIDE DEF s, n
<1>2. ASSUME NEW t \in SUBSET DOMAIN s
      PROVE  g[t] = IF t = {} THEN 0 ELSE g[t \ {Max(t)}] + s[Max(t)].len
  <2>1. CASE n + 1 \in t
    <3>1. Max(t) \in t /\ \A y \in t : y <= Max(t)
      BY <2>1, <1>1, LargestOf
    <3>2. Max(t) = n + 1
      <4>1. Max(t) \in 1..(n + 1) /\ n + 1 <= Max(t)
        BY <3>1, <2>1, <1>1
      <4> QED BY <4>1, <1>1
    <3>3. n + 1 \notin t \ {n + 1} /\ t \ {n + 1} \in SUBSET DOMAIN s /\ t # {}
      BY <2>1
    <3>4. g[t \ {n + 1}] = h[t \ {n + 1}] /\ g[t] = h[t \ {n + 1}] + x.len
      BY <2>1, <3>3
    <3> HIDE DEF g
    <3> QED BY <3>2, <3>3, <3>4, <1>1
  <2>2. CASE n + 1 \notin t /\ t # {}
    <3>1. t \in SUBSET (1..n)
      BY <2>2, <1>1
    <3>2. Max(t) \in t
      BY <2>2, <3>1, <1>1, LargestOf
    <3>3. h[t] = IF t = {} THEN 0 ELSE h[t \ {Max(t)}] + d[Max(t)].len
      BY <3>1, <1>1, Zenon DEF Sums
    <3>4. n + 1 \notin t \ {Max(t)} /\ t \ {Max(t)} \in SUBSET DOMAIN s
      BY <2>2
    <3>5. g[t \ {Max(t)}] = h[t \ {Max(t)}] /\ g[t] = h[t]
      BY <2>2, <3>4
    <3>6. s[Max(t)] = d[Max(t)]
      BY <3>1, <3>2, <1>1
    <3> HIDE DEF g
    <3> QED BY <2>2, <3>3, <3>5, <3>6
  <2>3. CASE t = {}
    <3>1. g[t] = h[t] /\ t \in SUBSET (1..n)
      BY <2>3
    <3>2. h[t] = IF t = {} THEN 0 ELSE h[t \ {Max(t)}] + d[Max(t)].len
      BY <3>1, <1>1, Zenon DEF Sums
    <3> HIDE DEF g
    <3> QED BY <2>3, <3>1, <3>2
  <2> QED BY <2>1, <2>2, <2>3
<1>3. g = [t \in SUBSET DOMAIN s |-> IF t = {} THEN 0 ELSE g[t \ {Max(t)}] + s[Max(t)].len]
  BY <1>2, Zenon
<1> HIDE DEF g
<1>4. Sums(s, g)
  BY <1>3, Zenon DEF Sums
<1> QED BY <1>4, Zenon DEF s

(* Every buffer has its sums.                                              *)
LEMMA SumsExist ==
  ASSUME NEW S, NEW d \in Seq(S)
  PROVE  \E h : Sums(d, h)
<1> DEFINE T == {n \in Nat : \E e \in Seq(S) : Len(e) = n /\ ~\E h : Sums(e, h)}
<1> SUFFICES ASSUME ~\E h : Sums(d, h) PROVE FALSE
  OBVIOUS
<1>1. Len(d) \in T /\ T \subseteq Nat
  OBVIOUS
<1>2. PICK n \in T : \A y \in T : n <= y
  BY <1>1, SmallestNumber
<1>3. PICK e \in Seq(S) : Len(e) = n /\ ~\E h : Sums(e, h)
  OBVIOUS
<1>4. n \in Nat
  OBVIOUS
<1>5. CASE n = 0
  <2>1. e = << >>
    BY <1>3, <1>5
  <2> DEFINE h == [t \in SUBSET DOMAIN e |-> 0]
  <2>2. DOMAIN e = {}
    BY <2>1
  <2>3. \A t \in SUBSET DOMAIN e : t = {}
    BY <2>2
  <2>4. Sums(e, h)
    BY <2>3 DEF Sums
  <2> QED BY <2>4, <1>3
<1>6. CASE n # 0
  <2> DEFINE f == SubSeq(e, 1, n - 1)
             x == e[n]
  <2>1. f \in Seq(S) /\ Len(f) = n - 1 /\ x \in S
    BY <1>3, <1>4, <1>6
  <2>2. e = Append(f, x)
    BY <1>3, <1>4, <1>6
  <2> HIDE DEF f, x
  <2>3. n - 1 \in Nat /\ n - 1 \notin T
    BY <1>2, <1>4, <1>6
  <2>4. \E h : Sums(f, h)
    BY <2>1, <2>3
  <2> QED BY <2>1, <2>2, <2>4, <1>3, SumsExtend
<1> QED BY <1>5, <1>6

(* The length of a buffer is the total over all its pieces.                *)
LEMMA PieceLenIs ==
  ASSUME NEW S, NEW d \in Seq(S), NEW h, Sums(d, h)
  PROVE  PieceLen(d) = h[DOMAIN d]
<1> DEFINE iter == CHOOSE it : it = [t \in SUBSET DOMAIN d |->
                       IF t = {} THEN 0 ELSE it[t \ {Max(t)}] + d[Max(t)].len]
<1>1. PieceLen(d) = iter[DOMAIN d]
  BY DEF PieceLen, FoldLeft, MapThenFoldSet
<1>2. Sums(d, iter)
  BY Zenon DEF Sums
<1> HIDE DEF iter
<1>3. Len(d) \in Nat /\ DOMAIN d = 1..Len(d) /\ DOMAIN d \in SUBSET (1..Len(d))
      /\ Len(d) <= Len(d)
  OBVIOUS
<1>4. iter[DOMAIN d] = h[DOMAIN d]
  BY <1>2, <1>3, SumsUnique
<1> QED BY <1>1, <1>4

(* append adds the length of the piece.                                    *)
LEMMA PieceLenAdd ==
  ASSUME NEW S, NEW d \in Seq(S), NEW x \in S
  PROVE  PieceLen(Append(d, x)) = PieceLen(d) + x.len
<1> DEFINE n == Len(d)
           s == Append(d, x)
<1>1. /\ n \in Nat /\ DOMAIN d = 1..n /\ DOMAIN s = 1..(n + 1) /\ s[n + 1] = x
      /\ s \in Seq(S) /\ \A k \in 1..n : d[k] = s[k]
  OBVIOUS
<1>2. PICK h : Sums(d, h)
  BY SumsExist
<1>n. n \in Nat
  OBVIOUS
<1> HIDE DEF s, n
<1>3. PICK g : Sums(s, g)
  BY <1>1, SumsExist
<1>4. PieceLen(d) = h[1..n] /\ PieceLen(s) = g[1..(n + 1)]
  BY <1>1, <1>2, <1>3, PieceLenIs
<1>5. g[1..n] = h[1..n]
  <2>1. 1..n \in SUBSET (1..n) /\ n <= n + 1 /\ n + 1 \in Nat
    BY <1>n
  <2>2. PICK m \in Nat : m = n + 1
    BY <2>1
  <2>3. n <= m /\ DOMAIN s = 1..m /\ DOMAIN d = 1..n /\ \A k \in 1..n : d[k] = s[k]
    BY <2>1, <2>2, <1>1
  <2>4. PICK t \in SUBSET (1..n) : t = 1..n
    BY <2>1
  <2>5. g[t] = h[t]
    BY <2>3, <1>n, <1>2, <1>3, SumsUnique
  <2> QED BY <2>4, <2>5
<1>6. Max(1..(n + 1)) = n + 1
  <2>0. n + 1 \in Nat /\ n + 1 \in 1..(n + 1)
    BY <1>n
  <2>1. 1..(n + 1) # {} /\ n + 1 \in Nat /\ n + 1 \in 1..(n + 1)
    BY <2>0
  <2>2. Max(1..(n + 1)) \in 1..(n + 1) /\ n + 1 <= Max(1..(n + 1))
    BY <2>1, LargestOf
  <2> QED BY <2>2, <1>n
<1>7. (1..(n + 1)) \ {n + 1} = 1..n /\ 1..(n + 1) # {}
  BY <1>n
<1>8. g[1..(n + 1)] = IF 1..(n + 1) = {} THEN 0
        ELSE g[(1..(n + 1)) \ {Max(1..(n + 1))}] + s[Max(1..(n + 1))].len
  <2>1. 1..(n + 1) \in SUBSET DOMAIN s
    BY <1>1
  <2> QED BY <2>1, <1>3, Zenon DEF Sums
<1> QED BY <1>1, <1>4, <1>5, <1>6, <1>7, <1>8 DEF s

(* The length of a buffer of one piece.                                    *)
LEMMA PieceLenOne ==
  ASSUME NEW x, x.len \in Nat
  PROVE  PieceLen(<<x>>) = x.len
<1> DEFINE e == << >>
<1>1. e \in Seq({x}) /\ Append(e, x) = <<x>> /\ DOMAIN e = {}
  OBVIOUS
<1>2. PICK h : Sums(e, h)
  BY <1>1, SumsExist
<1>3. PieceLen(e) = h[DOMAIN e]
  BY <1>1, <1>2, PieceLenIs
<1>4. h[{}] = 0
  <2>1. {} \in SUBSET DOMAIN e
    OBVIOUS
  <2> QED BY <2>1, <1>2, Zenon DEF Sums
<1>5. PieceLen(Append(e, x)) = PieceLen(e) + x.len
  BY <1>1, PieceLenAdd
<1> HIDE DEF e
<1> QED BY <1>1, <1>3, <1>4, <1>5

-----------------------------------------------------------------------------
(* The reader in NewReader.                                                *)

(* A table of the writer is a section as soon as it is there.              *)
LEMMA FeedGives ==
  ASSUME WireInv, NEW k \in DOMAIN wire, wire[k].body.kind = "psi"
  PROVE  LET fed == Feed(asm, wire[k].start, wire[k].body)
         IN /\ fed.asm = NoSection /\ fed.section = <<wire[k].body>>
            /\ SectionValid(fed.section, "pmt") => wire[k].body.sec = PMTSection
<1> DEFINE b == wire[k].body
           fed == Feed(asm, wire[k].start, b)
<1>1. TablePiece(wire[k])
  BY DEF WireInv, WireTells, IsES
<1>2. wire[k] \in Packet
  BY DEF WireInv, Inv, TypeOK
<1>3. b \in Body
  BY <1>2 DEF Packet
<1>4. b.len \in Nat /\ b.total \in Nat
  BY <1>1, <1>3 DEF Body, TablePiece
<1>5. wire[k].start /\ b.ptr /\ b.len = b.total
  BY <1>1 DEF TablePiece
<1> HIDE DEF b
<1>6. PieceLen(<<b>>) >= <<b>>[1].total
  <2>1. PieceLen(<<b>>) = b.len
    BY <1>4, PieceLenOne
  <2> QED BY <2>1, <1>4, <1>5
<1>7. fed.asm = NoSection /\ fed.section = <<b>>
  BY <1>5, <1>6 DEF Feed
<1>8. ASSUME SectionValid(fed.section, "pmt") PROVE b.sec = PMTSection
  <2>1. b.sec.table = "pmt"
    BY <1>7, <1>8 DEF SectionValid
  <2>2. PATSection.table = "pat"
    BY DEF PATSection
  <2> QED BY <1>1, <2>1, <2>2 DEF TablePiece, b
<1> QED BY <1>7, <1>8 DEF b

(* The k-th smallest number of 1..n is k.                                  *)
LEMMA CountAll ==
  ASSUME NEW n \in Nat
  PROVE  Cardinality(1..n) = n /\ \A k \in 1..n : Nth(1..n, k) = k
<1>1. \A m \in Nat : Cardinality(1..m) = m
  <2> SUFFICES ASSUME NEW m \in Nat PROVE Cardinality(1..m) = m
    OBVIOUS
  <2>1. Cardinality(1..m) = IF 1 > m THEN 0 ELSE m - 1 + 1
    BY FS_Interval
  <2> QED BY <2>1
<1>2. ASSUME NEW k \in 1..n PROVE Nth(1..n, k) = k
  <2>1. ASSUME NEW j \in 1..n PROVE Cardinality({m \in 1..n : m <= j}) = j
    <3>1. {m \in 1..n : m <= j} = 1..j
      OBVIOUS
    <3>2. j \in Nat
      OBVIOUS
    <3> QED BY <3>1, <3>2, <1>1, Zenon
  <2>2. \E j \in 1..n : Cardinality({m \in 1..n : m <= j}) = k
    BY <2>1
  <2>3. PICK j : j = Nth(1..n, k)
    OBVIOUS
  <2>4. j \in 1..n /\ Cardinality({m \in 1..n : m <= j}) = k
    BY <2>2, <2>3, Zenon DEF Nth
  <2> QED BY <2>1, <2>3, <2>4
<1> QED BY <1>1, <1>2

(* The PMT of the writer gives the reader its tracks.                      *)
LEMMA StreamsGiven ==
  ASSUME WireInv, pc # "new"
  PROVE  /\ StreamsOf(PMTSection) \in Seq(Stream(PIDs))
         /\ StreamsOf(PMTSection) # << >>
         /\ DOMAIN StreamsOf(PMTSection) = DOMAIN tracks
         /\ \A i \in DOMAIN tracks :
              StreamsOf(PMTSection)[i] = NewStream(tracks[i].pid)
<1> DEFINE n == Len(tracks)
           sec == PMTSection
           known == {j \in DOMAIN sec.streams :
                       codecFromStreamType(sec.streams[j].type) # "unknown"}
<1>1. tracks \in Seq(Track) /\ ValidOptions(tracks) /\ tracks \in Options
  BY DEF WireInv, Inv, TypeOK, Made
<1>2. n \in Nat /\ DOMAIN tracks = 1..n /\ n # 0
  BY <1>1 DEF ValidOptions
<1>3. DOMAIN sec.streams = 1..n
      /\ \A j \in 1..n : /\ sec.streams[j].type = streamTypeFromCodec(tracks[j].codec)
                         /\ sec.streams[j].pid = tracks[j].pid
  BY <1>2 DEF PMTSection
<1> HIDE DEF sec
<1>4. \A j \in 1..n : codecFromStreamType(sec.streams[j].type) # "unknown"
  <2> SUFFICES ASSUME NEW j \in 1..n
               PROVE  codecFromStreamType(sec.streams[j].type) # "unknown"
    OBVIOUS
  <2>0. tracks[j] \in Track
    BY <1>1, <1>2
  <2>1. tracks[j].codec \in {"H264", "H265"}
    BY <2>0 DEF Track
  <2>2. streamTypeFromCodec(tracks[j].codec) \in {27, 36}
    BY <2>1 DEF streamTypeFromCodec
  <2>3. sec.streams[j].type \in {27, 36}
    <3>1. sec.streams[j].type = streamTypeFromCodec(tracks[j].codec)
      BY <1>3
    <3> QED BY <2>2, <3>1, Zenon
  <2> QED BY <2>3 DEF codecFromStreamType
<1>5. known = 1..n
  BY <1>3, <1>4
<1>6. StreamsOf(sec) = [k \in 1..Cardinality(known) |-> NewStream(sec.streams[Nth(known, k)].pid)]
  BY DEF StreamsOf
<1> HIDE DEF known, n
<1>7. Cardinality(known) = n /\ \A k \in 1..n : Nth(known, k) = k
  BY <1>2, <1>5, CountAll
<1>8. StreamsOf(sec) = [k \in 1..n |-> NewStream(tracks[k].pid)]
  <2>1. \A k \in 1..n : NewStream(sec.streams[Nth(known, k)].pid) = NewStream(tracks[k].pid)
    <3> SUFFICES ASSUME NEW k \in 1..n
                 PROVE  sec.streams[Nth(known, k)].pid = tracks[k].pid
      OBVIOUS
    <3>1. Nth(known, k) = k
      BY <1>7
    <3>2. sec.streams[k].pid = tracks[k].pid
      BY <1>3
    <3> QED BY <3>1, <3>2
  <2>2. StreamsOf(sec) = [k \in 1..n |-> NewStream(sec.streams[Nth(known, k)].pid)]
    BY <1>6, <1>7
  <2> QED BY <2>1, <2>2, Zenon
<1>9. ASSUME NEW k \in 1..n PROVE NewStream(tracks[k].pid) \in Stream(PIDs)
  <2>1. tracks[k].pid \in PIDs
    BY <1>1, <1>2, <1>9 DEF PIDs
  <2>2. << >> \in Seq(Chunk)
    OBVIOUS
  <2> QED BY <2>1, <2>2 DEF NewStream, Stream
<1>10. [k \in 1..n |-> NewStream(tracks[k].pid)] \in [1..n -> Stream(PIDs)]
  BY <1>9
<1>11. StreamsOf(sec) \in Seq(Stream(PIDs)) /\ Len(StreamsOf(sec)) = n
  <2> DEFINE f == [k \in 1..n |-> NewStream(tracks[k].pid)]
  <2> HIDE DEF f
  <2>1. f \in [1..n -> Stream(PIDs)]
    BY <1>10 DEF f
  <2>2. f \in Seq(Stream(PIDs)) /\ Len(f) = n
    BY <2>1, <1>2
  <2> QED BY <2>2, <1>8 DEF f
<1>12. StreamsOf(sec) # << >>
  <2>1. Len(<< >>) = 0
    OBVIOUS
  <2> QED BY <2>1, <1>2, <1>11
<1> QED BY <1>2, <1>8, <1>11, <1>12 DEF sec

(* The reader has got its tracks.                                          *)
LEMMA TracksStart ==
  ASSUME LinkInv, Arrives, phase = "pmt", phase' = "read", ~IsES(First),
         UNCHANGED <<flushIdx, delivered>>, asm' = NoSection,
         order' = StreamsOf(PMTSection)
  PROVE  LinkInv'
<1>1. /\ WireInv' /\ BurstsShort' /\ pos' \in 0..Len(wire') /\ burst' \in [PIDs -> Nat]
      /\ again' => (UnderWay' /\ First' = First)
      /\ tracks' = tracks /\ pc' = pc /\ burst'[First.pid] = 0 /\ pos + 1 \in DOMAIN wire
      /\ WireInv
  BY ArrivesFacts
<1>2. pc # "new"
  BY <1>1, WirePids
<1>3. /\ order' \in Seq(Stream(PIDs)) /\ order' # << >>
      /\ DOMAIN order' = DOMAIN tracks
      /\ \A i \in DOMAIN tracks : order'[i] = NewStream(tracks[i].pid)
  BY <1>1, <1>2, StreamsGiven
<1>4. flushIdx = 0
  BY DEF LinkInv, TablesRead
<1>5. LinkTypes'
  <2>1. Len(order') \in Nat
    BY <1>3
  <2>2. 0 \in 0..Len(order')
    BY <2>1
  <2> QED BY <2>2, <1>1, <1>3, <1>4 DEF LinkInv, LinkTypes, Arrives
<1>6. TablesRead'
  BY <1>1, <1>2, <1>3, <1>4 DEF TablesRead, NewStream
<1>7. HandledOnce'
  BY <1>1 DEF HandledOnce, IsES
<1>8. Collected'
  <2> SUFFICES ASSUME NEW i \in DOMAIN order'
               PROVE  /\ (CounterSeen(order[i]))' /\ (Holds(order[i]))'
                      /\ ~order'[i].collecting
    BY DEF Collected
  <2>1. order'[i].collecting = FALSE /\ order'[i].hasCC = FALSE
    BY <1>3 DEF NewStream
  <2> QED BY <2>1 DEF CounterSeen, Holds
<1>9. \A t \in PIDs : Given(t)'
  <2>1. \A i \in 1..flushIdx : order'[i].pid = order[i].pid
    BY <1>4
  <2> QED BY <2>1, OtherGiven
<1> QED BY <1>1, <1>5, <1>6, <1>7, <1>8, <1>9 DEF LinkInv

(* A packet that returns no unit delivers none.                            *)
LEMMA NothingReturned ==
  ASSUME returned' = NoAU, Record(FALSE)
  PROVE  delivered' = delivered
<1>1. returned'.stream = 0
  BY DEF NoAU
<1> QED BY <1>1 DEF Record

(* A packet of NewReader.                                                  *)
LEMMA TablesKeep ==
  ASSUME LinkInv, Arrives, Record(FALSE),
         ReadPATPacket(First) \/ ReadPMTPacket(First) \/ SkipPacketInTables(First)
  PROVE  LinkInv' /\ delivered' = delivered /\ phase \in {"pat", "pmt"}
         /\ phase' \in {"pat", "pmt", "read"}
         /\ \/ order' = order
            \/ \A i \in DOMAIN order' : order'[i].lastTS = -1 /\ ~order'[i].collecting
<1>1. phase \in {"pat", "pmt"} /\ returned' = returned /\ flushIdx' = flushIdx
  BY DEF ReadPATPacket, ReadPMTPacket, SkipPacketInTables, rvars
<1>2. returned' = NoAU /\ order = << >> /\ asm = NoSection
  BY <1>1 DEF LinkInv, TablesRead
<1>3. delivered' = delivered
  BY <1>2, NothingReturned
<1>4. \A i \in DOMAIN order : order[i].pid # First.pid
  <2>1. DOMAIN << >> = {}
    OBVIOUS
  <2> QED BY <2>1, <1>2
<1>5. WireInv /\ pos + 1 \in DOMAIN wire /\ First = wire[pos + 1]
  BY ArrivesFacts
<1> DEFINE fed == Feed(asm, First.start, First.body)
<1>6. ASSUME First.body.kind = "psi"
      PROVE  /\ fed.asm = NoSection /\ fed.section = <<First.body>>
             /\ SectionValid(fed.section, "pmt") => First.body.sec = PMTSection
  BY <1>5, <1>6, FeedGives
<1>7. CASE ReadPATPacket(First)
  <2>1. First.body.kind = "psi" /\ UNCHANGED order
        /\ (asm' = NoSection \/ asm' = fed.asm)
        /\ phase = "pat" /\ phase' \in {"pat", "pmt"}
    BY <1>7 DEF ReadPATPacket, TablePacket
  <2>2. asm' = asm
    BY <2>1, <1>2, <1>6
  <2> QED BY <2>1, <2>2, <1>1, <1>2, <1>3, <1>4, SkipKeeps
<1>8. CASE ReadPMTPacket(First)
  <2> DEFINE found == SectionValid(fed.section, "pmt")
  <2>1. /\ First.body.kind = "psi" /\ phase = "pmt" /\ asm' = fed.asm
        /\ order' = IF found THEN StreamsOf(fed.section[1].sec) ELSE order
        /\ phase' = CASE ~found -> "pmt"
                      [] found /\ order' = << >> -> "failed"
                      [] OTHER -> "read"
    BY <1>8 DEF ReadPMTPacket, TablePacket
  <2>2. asm' = NoSection /\ fed.section = <<First.body>>
        /\ (found => First.body.sec = PMTSection)
    BY <2>1, <1>6
  <2> HIDE DEF fed
  <2>3. CASE found
    <3>1. order' = StreamsOf(PMTSection)
      <4>1. fed.section[1] = First.body
        BY <2>2
      <4> QED BY <2>1, <2>2, <2>3, <4>1
    <3>2. pc # "new"
      BY <1>5, WirePids
    <3>3. order' # << >>
      BY <3>1, <3>2, <1>5, StreamsGiven
    <3> HIDE DEF found
    <3>4. phase' = "read"
      BY <2>1, <2>3, <3>3
    <3>5. ~IsES(First)
      BY <2>1 DEF IsES
    <3>6. LinkInv'
      BY <2>1, <2>2, <3>1, <3>4, <3>5, <1>1, <1>3, TracksStart
    <3>7. ASSUME NEW i \in DOMAIN order'
          PROVE  order'[i].lastTS = -1 /\ ~order'[i].collecting
      <4>1. PICK q : order'[i] = NewStream(q)
        BY <3>1, <3>2, <1>5, StreamsGiven
      <4> QED BY <4>1 DEF NewStream
    <3> QED BY <3>4, <3>6, <3>7, <1>1, <1>3
  <2>4. CASE ~found
    <3> HIDE DEF found
    <3>1. order' = order /\ phase' = phase
      BY <2>1, <2>4
    <3> QED BY <3>1, <2>2, <1>1, <1>2, <1>3, <1>4, SkipKeeps
  <2> QED BY <2>3, <2>4
<1>9. CASE SkipPacketInTables(First)
  <2>1. UNCHANGED <<phase, asm, order, flushIdx, returned>>
    BY <1>9 DEF SkipPacketInTables, rvars
  <2> QED BY <2>1, <1>1, <1>2, <1>3, <1>4, SkipKeeps
<1> QED BY <1>7, <1>8, <1>9

(* A packet of a ready reader that belongs to none of its tracks.          *)
LEMMA OthersKeep ==
  ASSUME LinkInv, Arrives, Record(FALSE), SkipPacket(First)
  PROVE  LinkInv' /\ delivered' = delivered /\ phase = "read" /\ phase' = "read"
<1>1. /\ phase = "read" /\ ~Relevant(First) /\ returned' = NoAU
      /\ UNCHANGED <<phase, asm, order, flushIdx>>
  BY DEF SkipPacket
<1>2. delivered' = delivered
  BY <1>1, NothingReturned
<1>3. WireInv /\ pos + 1 \in DOMAIN wire /\ First = wire[pos + 1] /\ First \in Packet
  BY ArrivesFacts
<1>4. ASSUME NEW i \in DOMAIN order, order[i].pid = First.pid PROVE FALSE
  <2>1. StreamIndex(First.pid) = i /\ First.pid \notin {pidPAT, writerPMTPID}
    BY <1>4, TrackPids
  <2>2. IsES(First)
    BY <2>1, <1>3, WirePids
  <2>3. i # 0
    BY LinkFacts
  <2>4. First.fault = "none"
    BY <1>3 DEF Packet
  <2> QED BY <2>1, <2>2, <2>3, <2>4, <1>1 DEF Relevant, parsePacketHeader, IsES
<1> QED BY <1>1, <1>2, <1>4, SkipKeeps

-----------------------------------------------------------------------------
(* What a packet of a track does: s is the track before, u after it.       *)

(* The packet delivered twice is recognised.                               *)
Repeated(s, u) == again /\ ~First.start /\ u = s /\ delivered' = delivered

(* u has begun to collect the unit.                                        *)
Begun(s, u) ==
  LET b     == First.body
      dts33 == IF b.pes.ptsDTS = "both" THEN b.pes.dts ELSE b.pes.pts
  IN /\ u.collecting /\ u.rai = First.rai
     /\ u.mem[u.cur] = <<[au |-> b.au, off |-> b.off + b.pes.len, len |-> b.len - b.pes.len]>>
     /\ u.dts = extendTimestamp(s.lastTS, dts33) /\ u.lastTS = u.dts
     /\ u.pts = extendTimestamp(u.dts, b.pes.pts)

(* The unit that s has collected, as it is given to the caller.            *)
Collection(s, cut) ==
  [pts |-> s.pts, dts |-> s.dts, rai |-> s.rai, data |-> s.mem[s.cur], cut |-> cut]

Started(s, u) ==
  /\ First.start /\ Begun(s, u)
  /\ \/ /\ s.collecting /\ ~again /\ burst[s.pid] = 0
        /\ delivered' = [delivered EXCEPT ![s.pid] = Append(@, Collection(s, FALSE))]
     \/ delivered' = delivered /\ (s.collecting => again \/ burst[s.pid] > 0)

(* The pieces of s and the one of the packet.                              *)
Longer(s) ==
  Append(s.mem[s.cur],
         [au |-> First.body.au, off |-> First.body.off, len |-> First.body.len])

WentOn(s, u) ==
  /\ ~First.start /\ ~again /\ delivered' = delivered /\ u.rai = s.rai
  /\ u.dts = s.dts /\ u.pts = s.pts /\ u.lastTS = s.lastTS
  /\ \/ s.collecting /\ burst[s.pid] = 0 /\ u.collecting /\ u.mem[u.cur] = Longer(s)
     \/ /\ ~u.collecting
        /\ s.collecting => burst[s.pid] > 0 \/ ~(PieceLen(Longer(s)) <= MaxAUSize)

Handled(s, u) == Repeated(s, u) \/ Started(s, u) \/ WentOn(s, u)

(* What the counter of the packet tells the track.                         *)
LEMMA CounterTells ==
  ASSUME LinkInv, GapsShort, Arrives, IsES(First),
         NEW i \in DOMAIN order, order[i].pid = First.pid
  PROVE  LET s == order[i]
         IN /\ s.hasCC /\ ~again => (Joins(s, First) <=> burst[s.pid] = 0)
            /\ again => s.hasCC /\ ~Joins(s, First) /\ First.cc = s.cc
            /\ ~again => ~Duplicate(s, First)
            /\ again /\ ~First.start => Duplicate(s, First)
<1>1. PICK s : s = order[i]
  OBVIOUS
<1>2. CounterSeen(s) /\ s.pid = First.pid
  BY <1>1 DEF LinkInv, Collected
<1>3. /\ pos \in Nat /\ pos + 1 <= Len(wire) /\ First = wire[pos + 1] /\ First \in Packet
      /\ burst \in [PIDs -> Nat] /\ First.pid \in PIDs
      /\ (~again /\ Got = pos) \/ (again /\ Got = pos + 1)
  BY ArrivesFacts
<1>4. burst[s.pid] \in Nat /\ burst[s.pid] < CCMod /\ Len(wire) \in Nat /\ pos < Len(wire)
  BY <1>2, <1>3, LinkFacts DEF GapsShort
<1>5. ASSUME s.hasCC, ~again
      PROVE  s.cc \in CC /\ First.cc = (s.cc + burst[s.pid] + 1) % CCMod
  <2> DEFINE c == (s.cc + burst[s.pid] + 1) % CCMod
  <2>1. s.cc \in CC /\ NextIs(pos, wire[pos + 1].pid, c)
    BY <1>2, <1>3, <1>5 DEF CounterSeen
  <2> HIDE DEF c
  <2> QED BY <2>1, <1>3, <1>4, NextTaken DEF c
<1>6. s.hasCC /\ ~again => (Joins(s, First) <=> burst[s.pid] = 0)
  BY <1>4, <1>5, GapSeen DEF Joins
<1>7. again => s.hasCC /\ First.cc = s.cc
  BY <1>1, <1>2 DEF LinkInv, HandledOnce
<1>8. again => ~Joins(s, First)
  <2>1. First.cc \in CC
    BY <1>3 DEF Packet
  <2>2. NextCC(First.cc) # First.cc
    BY <2>1, <1>4, GapSeen
  <2> QED BY <2>2, <1>7 DEF Joins
<1>9. ~again => ~Duplicate(s, First)
  <2> SUFFICES ASSUME ~again, s.hasCC, ~First.start PROVE First.cc # s.cc
    BY DEF Duplicate
  <2>1. burst[s.pid] <= MaxBurst
    BY <1>2 DEF LinkInv, BurstsShort, Arrives
  <2>2. burst[s.pid] < CCMod - 1
    BY <2>1, <1>4, MaxBurstAssumption, CCModAssumption
  <2> QED BY <2>2, <1>4, <1>5, GapSeen
<1>10. again /\ ~First.start => Duplicate(s, First)
  BY <1>7 DEF Duplicate
<1> QED BY <1>1, <1>6, <1>7, <1>8, <1>9, <1>10

(* What a packet of a unit holds.                                          *)
LEMMA UnitFields ==
  ASSUME WireInv, NEW k \in DOMAIN wire, IsES(wire[k])
  PROVE  LET p == wire[k]
         IN /\ p \in Packet /\ p.cc \in Nat /\ p.rai \in BOOLEAN /\ p.start \in BOOLEAN
            /\ p.body.au \in Nat /\ p.body.off \in Nat /\ p.body.len \in Nat
            /\ p.body.len > 0 /\ p.body.au \in DOMAIN log
            /\ p.start => /\ p.body.pes \in Header /\ p.body.len > p.body.pes.len
                          /\ p.body.pes.len = log[p.body.au].hdr
                          /\ p.body.off = 0
<1> DEFINE p == wire[k]
           u == log[p.body.au]
<1>1. p \in Packet
  BY DEF WireInv, Inv, TypeOK
<1>2. UnitPacket(k)
  BY DEF WireInv, WireTells
<1>3. p.body \in Body /\ p.cc \in CC /\ p.rai \in BOOLEAN /\ p.start \in BOOLEAN
  BY <1>1 DEF Packet
<1>4. p.cc \in Nat
  BY <1>3, CCModAssumption DEF CC
<1>5. p.body.au \in Nat /\ p.body.off \in Nat /\ p.body.len \in Nat
  BY <1>3 DEF Body, IsES
<1>6. p.body.len > 0 /\ p.body.au \in DOMAIN log
  BY <1>2 DEF UnitPacket
<1>7. ASSUME p.start
      PROVE  /\ p.body.pes \in Header /\ p.body.len > p.body.pes.len
             /\ p.body.pes.len = u.hdr /\ p.body.off = 0
  <2>1. p.body.off = 0 /\ p.body.len > u.hdr /\ p.body.pes = appendPESHeader(u.pts, u.dts)
        /\ p.body.pes.len = u.hdr
    BY <1>2, <1>7 DEF UnitPacket
  <2>2. u \in WrittenUnit
    BY <1>6 DEF WireInv, Inv, TypeOK
  <2>4. p.body.pes \in Header
    <3>1. u.pts \in Int /\ u.dts \in Int
      BY <2>2 DEF WrittenUnit
    <3>2. u.pts % Wrap \in Int /\ u.dts % Wrap \in Int
      BY <3>1, WrapAssumption
    <3> QED BY <2>1, <3>2 DEF appendPESHeader, Header
  <2> QED BY <2>1, <2>4
<1> QED BY <1>1, <1>3, <1>4, <1>5, <1>6, <1>7

(* What one packet of a unit does to its track, and what is delivered.     *)
LEMMA StartCase ==
  ASSUME LinkInv, GapsShort, Arrives, Record(FALSE), IsES(First), First.start,
         NEW i \in DOMAIN order, order[i].pid = First.pid, NEW s, s = order[i],
         NEW u, u = StartUnit(Finish(AfterCC(s, First)).stream, First),
         order' = [order EXCEPT ![i] = u],
         returned' = Unit(i, AfterCC(s, First), Finish(AfterCC(s, First)))
  PROVE  u \in Stream(PIDs) /\ u.pid = s.pid /\ u.hasCC /\ u.cc = First.cc /\ Started(s, u)
<1> DEFINE t == AfterCC(s, First)
           f == Finish(t)
           v == f.stream
<1>1. WireInv /\ pos + 1 \in DOMAIN wire /\ First = wire[pos + 1]
      /\ burst \in [PIDs -> Nat]
  BY ArrivesFacts
<1>2. /\ First.cc \in Nat /\ First.rai \in BOOLEAN
      /\ First.body.au \in Nat /\ First.body.off \in Nat /\ First.body.len \in Nat
      /\ First.body.pes \in Header /\ First.body.len > First.body.pes.len
  BY <1>1, UnitFields
<1>3. s \in Stream(PIDs) /\ s.pid \in PIDs
  BY TrackPids
<1>4. /\ t \in Stream(PIDs) /\ t.pid = s.pid /\ t.cur = s.cur /\ t.rai = s.rai
      /\ t.cc = First.cc /\ t.hasCC
      /\ t.pts = s.pts /\ t.dts = s.dts /\ t.lastTS = s.lastTS
      /\ t.collecting = (s.collecting /\ Joins(s, First))
      /\ t.collecting => t.mem = s.mem
  BY <1>2, <1>3, AfterCCGives
<1> HIDE DEF t
<1>5. /\ v \in Stream(PIDs) /\ v.pid = t.pid /\ v.lastTS = t.lastTS
      /\ v.cc = t.cc /\ v.hasCC = t.hasCC
      /\ IF t.collecting /\ t.mem[t.cur] # << >>
         THEN f.au = 1 + t.cur /\ v.cur = 1 - t.cur /\ v.mem[t.cur] = t.mem[t.cur]
         ELSE f.au = 0
  BY <1>4, FinishGives
<1> HIDE DEF f
<1>6. PICK p : p = First
  OBVIOUS
<1>s. u = StartUnit(v, p) /\ v \in Stream(PIDs)
  BY <1>5, <1>6 DEF t, f
<1> HIDE DEF v
<1>b. LET b     == p.body
          dts33 == IF b.pes.ptsDTS = "both" THEN b.pes.dts ELSE b.pes.pts
      IN /\ u \in Stream(PIDs) /\ u.pid = v.pid /\ u.cur = v.cur
         /\ u.cc = v.cc /\ u.hasCC = v.hasCC /\ u.collecting /\ u.rai = p.rai
         /\ u.mem[1 - v.cur] = v.mem[1 - v.cur]
         /\ u.mem[v.cur] = <<[au |-> b.au, off |-> b.off + b.pes.len,
                              len |-> b.len - b.pes.len]>>
         /\ u.dts = extendTimestamp(v.lastTS, dts33) /\ u.lastTS = u.dts
         /\ u.pts = extendTimestamp(u.dts, b.pes.pts)
  <2>1. /\ p.rai \in BOOLEAN /\ p.body.au \in Nat /\ p.body.off \in Nat
        /\ p.body.len \in Nat /\ p.body.pes \in Header /\ p.body.len > p.body.pes.len
    BY <1>2, <1>6
  <2> QED BY <2>1, <1>s, StartGives, SMT
<1>7. Begun(s, u)
  BY <1>b, <1>4, <1>5, <1>6, Zenon DEF Begun
<1>8. s.collecting => s.hasCC /\ s.mem[s.cur] # << >>
  BY DEF LinkInv, Collected, Holds, PartOf
<1>9. /\ s.hasCC /\ ~again => (Joins(s, First) <=> burst[s.pid] = 0)
      /\ again => ~Joins(s, First)
  BY CounterTells
<1>10. burst[s.pid] \in Nat
  BY <1>1, <1>3
<1>11. CASE t.collecting
  <2>1. s.collecting /\ Joins(s, First) /\ t.mem = s.mem
    BY <1>4, <1>11
  <2>2. ~again /\ burst[s.pid] = 0 /\ s.mem[s.cur] # << >>
    BY <2>1, <1>8, <1>9
  <2>3. f.au = 1 + s.cur /\ v.cur = 1 - s.cur /\ v.mem[s.cur] = s.mem[s.cur]
    BY <2>1, <2>2, <1>4, <1>5, <1>11
  <2>4. s.cur \in {0, 1} /\ 1 + s.cur # 0 /\ (1 + s.cur) - 1 = s.cur /\ 1 - (1 - s.cur) = s.cur
    BY <1>3 DEF Stream
  <2>5. returned' = [stream |-> i, pid |-> s.pid, pts |-> s.pts, dts |-> s.dts,
                     rai |-> s.rai, arr |-> s.cur]
    BY <2>3, <2>4, <1>4 DEF Unit, t, f
  <2>6. u.mem[s.cur] = s.mem[s.cur]
    BY <2>3, <2>4, <1>b
  <2>7. i # 0 /\ order'[i] = u
    BY LinkFacts
  <2>8. Data(returned)' = s.mem[s.cur]
    BY <2>5, <2>6, <2>7 DEF Data
  <2>9. delivered' = [delivered EXCEPT ![s.pid] = Append(@, Collection(s, FALSE))]
    <3>1. returned'.stream # 0 /\ returned'.pid = s.pid
      BY <2>5, <2>7
    <3>2. [pts |-> returned'.pts, dts |-> returned'.dts, rai |-> returned'.rai,
           data |-> Data(returned)', cut |-> FALSE] = Collection(s, FALSE)
      <4>1. /\ returned'.pts = s.pts /\ returned'.dts = s.dts /\ returned'.rai = s.rai
        BY <2>5
      <4> QED BY <4>1, <2>8, Zenon DEF Collection
    <3> QED BY <3>1, <3>2, Zenon DEF Record
  <2> QED BY <2>1, <2>2, <2>9, <1>4, <1>5, <1>b, <1>7 DEF Started
<1>12. CASE ~t.collecting
  <2>1. f.au = 0
    BY <1>5, <1>12
  <2>2. returned' = NoAU
    BY <2>1 DEF Unit, t, f
  <2>3. delivered' = delivered
    BY <2>2, NothingReturned
  <2>4. s.collecting => again \/ burst[s.pid] > 0
    <3>1. s.collecting => ~Joins(s, First)
      BY <1>4, <1>12
    <3>2. s.collecting => again \/ burst[s.pid] # 0
      BY <3>1, <1>8, <1>9
    <3>3. \A x \in Nat : x # 0 => x > 0
      OBVIOUS
    <3> QED BY <3>2, <3>3, <1>10
  <2> QED BY <2>3, <2>4, <1>4, <1>5, <1>b, <1>7 DEF Started
<1> QED BY <1>11, <1>12

(* handleES on a packet that goes on with a unit.                          *)
LEMMA ContinueCase ==
  ASSUME LinkInv, GapsShort, Arrives, IsES(First), ~First.start, ~again,
         NEW i \in DOMAIN order, order[i].pid = First.pid, NEW s, s = order[i],
         NEW u, u = Continue(AfterCC(s, First), First), delivered' = delivered
  PROVE  u \in Stream(PIDs) /\ u.pid = s.pid /\ u.hasCC /\ u.cc = First.cc /\ WentOn(s, u)
<1> DEFINE t == AfterCC(s, First)
           x == [au |-> First.body.au, off |-> First.body.off, len |-> First.body.len]
<1>1. WireInv /\ pos + 1 \in DOMAIN wire /\ First = wire[pos + 1]
      /\ burst \in [PIDs -> Nat]
  BY ArrivesFacts
<1>2. /\ First.cc \in Nat /\ First.body.au \in Nat /\ First.body.off \in Nat
      /\ First.body.len \in Nat /\ First.body.len > 0
  BY <1>1, UnitFields
<1>3. s \in Stream(PIDs) /\ s.pid \in PIDs
  BY TrackPids
<1>4. /\ t \in Stream(PIDs) /\ t.pid = s.pid /\ t.cur = s.cur /\ t.rai = s.rai
      /\ t.cc = First.cc /\ t.hasCC
      /\ t.pts = s.pts /\ t.dts = s.dts /\ t.lastTS = s.lastTS
      /\ t.collecting = (s.collecting /\ Joins(s, First))
      /\ t.collecting => t.mem = s.mem
  BY <1>2, <1>3, AfterCCGives
<1> HIDE DEF t
<1>5. /\ u \in Stream(PIDs) /\ u.pid = t.pid /\ u.cur = t.cur
      /\ u.cc = t.cc /\ u.hasCC = t.hasCC /\ u.rai = t.rai
      /\ u.dts = t.dts /\ u.pts = t.pts /\ u.lastTS = t.lastTS
      /\ u.collecting = (t.collecting /\ PieceLen(Append(t.mem[t.cur], x)) <= MaxAUSize)
      /\ u.collecting => u.mem[t.cur] = Append(t.mem[t.cur], x)
  <2>0. PICK p : p = First
    OBVIOUS
  <2>1. u = Continue(t, p) /\ t \in Stream(PIDs)
    BY <2>0, <1>4 DEF t
  <2>2. /\ p.body.au \in Nat /\ p.body.off \in Nat /\ p.body.len \in Nat
        /\ p.body.len > 0 /\ x = [au |-> p.body.au, off |-> p.body.off, len |-> p.body.len]
    BY <2>0, <1>2
  <2> HIDE DEF x
  <2> QED BY <2>1, <2>2, ContinueGives, SMT
<1>6. s.collecting => s.hasCC
  BY DEF LinkInv, Collected, Holds
<1>7. s.hasCC => (Joins(s, First) <=> burst[s.pid] = 0)
  BY CounterTells
<1>8. burst[s.pid] \in Nat
  BY <1>1, <1>3
<1>9. t.collecting => Append(t.mem[t.cur], x) = Longer(s)
  BY <1>4, Zenon DEF Longer
<1> HIDE DEF x
<1>10. CASE u.collecting
  <2>1. t.collecting
    BY <1>5, <1>10
  <2>2. s.collecting /\ burst[s.pid] = 0
    BY <2>1, <1>4, <1>6, <1>7
  <2>3. u.mem[u.cur] = Longer(s)
    BY <2>1, <1>5, <1>9, <1>10
  <2> QED BY <2>2, <2>3, <1>4, <1>5, <1>10 DEF WentOn
<1>11. CASE ~u.collecting
  <2>1. s.collecting => burst[s.pid] > 0 \/ ~(PieceLen(Longer(s)) <= MaxAUSize)
    <3>1. CASE ~t.collecting
      <4>1. s.collecting => burst[s.pid] # 0
        BY <3>1, <1>4, <1>6, <1>7
      <4>2. \A y \in Nat : y # 0 => y > 0
        OBVIOUS
      <4> QED BY <4>1, <4>2, <1>8
    <3>2. CASE t.collecting
      <4>1. ~(PieceLen(Append(t.mem[t.cur], x)) <= MaxAUSize)
        BY <3>2, <1>5, <1>11
      <4> QED BY <4>1, <3>2, <1>9
    <3> QED BY <3>1, <3>2
  <2> QED BY <2>1, <1>4, <1>5, <1>11 DEF WentOn
<1> QED BY <1>10, <1>11

(* One of the two, or a repetition.                                        *)
LEMMA ESCases ==
  ASSUME LinkInv, GapsShort, Arrives, Record(FALSE), ReadESPacket(First)
  PROVE  /\ IsES(First) /\ phase = "read" /\ UNCHANGED <<phase, asm, flushIdx>>
         /\ \E i \in DOMAIN order, u \in Stream(PIDs) :
              /\ order[i].pid = First.pid /\ u.pid = First.pid
              /\ u.hasCC /\ u.cc = First.cc
              /\ order' = [order EXCEPT ![i] = u] /\ Handled(order[i], u)
<1> DEFINE i == StreamIndex(First.pid)
           h == HandleES(i, First)
<1>1. /\ phase = "read" /\ Relevant(First) /\ order' = [order EXCEPT ![i] = h.stream]
      /\ returned' = h.unit /\ UNCHANGED <<phase, asm, flushIdx>>
  BY DEF ReadESPacket
<1>2. IsES(First) /\ i # 0
  BY <1>1 DEF Relevant, IsES
<1>3. i \in DOMAIN order /\ order[i].pid = First.pid
  BY <1>2, NoTrack
<1> HIDE DEF i
<1>4. PICK s : s = order[i]
  OBVIOUS
<1>5. s \in Stream(PIDs)
  BY <1>3, <1>4, TrackPids
<1>6. /\ again => s.hasCC /\ First.cc = s.cc
      /\ ~again => ~Duplicate(s, First)
      /\ again /\ ~First.start => Duplicate(s, First)
  BY <1>2, <1>3, <1>4, CounterTells
<1>7. CASE Duplicate(s, First)
  <2>1. h = [stream |-> s, unit |-> NoAU]
    BY <1>4, <1>7 DEF HandleES
  <2>2. returned' = NoAU /\ order' = [order EXCEPT ![i] = s]
    BY <2>1, <1>1
  <2>3. delivered' = delivered
    BY <2>2, NothingReturned
  <2>4. again /\ ~First.start
    BY <1>6, <1>7 DEF Duplicate
  <2> QED BY <2>2, <2>3, <2>4, <1>1, <1>2, <1>3, <1>4, <1>5, <1>6 DEF Handled, Repeated
<1>8. CASE ~Duplicate(s, First) /\ First.start
  <2> DEFINE t == AfterCC(s, First)
             u == StartUnit(Finish(t).stream, First)
  <2>1. h = [stream |-> u, unit |-> Unit(i, t, Finish(t))]
    BY <1>4, <1>8 DEF HandleES
  <2>2. returned' = Unit(i, t, Finish(t)) /\ order' = [order EXCEPT ![i] = u]
    BY <2>1, <1>1
  <2>3. u \in Stream(PIDs) /\ u.pid = s.pid /\ u.hasCC /\ u.cc = First.cc /\ Started(s, u)
    BY <2>2, <1>2, <1>3, <1>4, <1>8, StartCase
  <2> HIDE DEF u
  <2> QED BY <2>2, <2>3, <1>1, <1>2, <1>3, <1>4 DEF Handled
<1>9. CASE ~Duplicate(s, First) /\ ~First.start
  <2> DEFINE u == Continue(AfterCC(s, First), First)
  <2>1. h = [stream |-> u, unit |-> NoAU]
    BY <1>4, <1>9 DEF HandleES
  <2>2. returned' = NoAU /\ order' = [order EXCEPT ![i] = u]
    BY <2>1, <1>1
  <2>3. delivered' = delivered
    BY <2>2, NothingReturned
  <2>4. u \in Stream(PIDs) /\ u.pid = s.pid /\ u.hasCC /\ u.cc = First.cc /\ WentOn(s, u)
    BY <2>3, <1>2, <1>3, <1>4, <1>6, <1>9, ContinueCase
  <2> HIDE DEF u
  <2> QED BY <2>2, <2>4, <1>1, <1>2, <1>3, <1>4 DEF Handled
<1> QED BY <1>7, <1>8, <1>9

-----------------------------------------------------------------------------
(* e is what stream s hands over of unit a at a point where nothing more   *)
(* of it can come: the next unit starts, or the writer is closed and       *)
(* nothing is under way.                                                   *)
Due(s, cut, e, a) ==
  /\ \E i \in DOMAIN order : s = order[i]
  /\ s.collecting /\ burst[s.pid] = 0 /\ ~again
  /\ UnderWay => First.start
  /\ ~UnderWay => pc = "closed"
  /\ e = Collection(s, cut) /\ a = s.mem[s.cur][1].au

(* e is unit a of the stream s, as it was written.                         *)
WholeUnit(s, e, a) ==
  /\ a \in DOMAIN log /\ WasSeen(a) /\ log[a].pid = s.pid
  /\ IsUnit(e, a) /\ log[a].status = "ok" /\ s.rai = log[a].rai

(* What is collected when the next unit starts, or when the writer is      *)
(* closed and nothing is under way, is a whole unit.                       *)
LEMMA CollectedWhole ==
  ASSUME LinkInv, NEW s, NEW cut, NEW e, NEW a, Due(s, cut, e, a)
  PROVE  WholeUnit(s, e, a)
<1> DEFINE d == s.mem[s.cur]
<1>a. /\ s.collecting /\ burst[s.pid] = 0 /\ ~again
      /\ UnderWay => First.start
      /\ ~UnderWay => pc = "closed"
      /\ e = Collection(s, cut) /\ a = d[1].au
  BY DEF Due
<1>b. PICK i \in DOMAIN order : s = order[i]
  BY DEF Due
<1>1. /\ PartOf(d, a) /\ log[a].pid = s.pid /\ s.rai = log[a].rai /\ WasSeen(a)
      /\ \E m \in 1..Got : UpTo(d, s.pid, m)
  BY <1>a, <1>b DEF LinkInv, Collected, Holds
<1>2. Got = pos /\ pos \in Nat /\ pos <= Len(wire) /\ Len(wire) \in Nat
      /\ DOMAIN wire = 1..Len(wire)
  BY LinkFacts, <1>a DEF Got
<1>3. PICK m \in 1..pos : UpTo(d, s.pid, m)
  BY <1>1, <1>2
<1>4. m \in DOMAIN wire /\ m \in Nat /\ m <= pos
  BY <1>2
<1>5. /\ IsES(wire[m]) /\ wire[m].body.au = a /\ wire[m].ok /\ RunEnd(wire[m]) = EndOf(d)
      /\ \A j \in (m + 1)..pos : wire[j].pid # s.pid
  BY <1>2, <1>3, <1>a DEF UpTo, Carries, IsES
<1>6. wire[m].pid = s.pid
  <2>1. WireTells
    BY DEF LinkInv, WireInv
  <2>2. UnitPacket(m)
    BY <2>1, <1>4, <1>5 DEF WireTells
  <2>3. wire[m].pid = log[wire[m].body.au].pid
    BY <2>2 DEF UnitPacket
  <2> QED BY <2>3, <1>1, <1>5
<1>7. ~(m < Len(wire) /\ GoesOn(wire[m], wire[m + 1]))
  <2> SUFFICES ASSUME m < Len(wire), GoesOn(wire[m], wire[m + 1]) PROVE FALSE
    OBVIOUS
  <2>1. wire[m + 1].pid = s.pid /\ ~wire[m + 1].start
    BY <1>6 DEF GoesOn
  <2>2. m + 1 \notin (m + 1)..pos
    BY <2>1, <1>5
  <2>3. m = pos
    BY <2>2, <1>2, <1>4
  <2>4. UnderWay /\ First = wire[m + 1]
    BY <2>3 DEF UnderWay, First
  <2> QED BY <2>1, <2>4, <1>a
<1>8. ~(m = Len(wire) /\ pc = "pes")
  <2> SUFFICES ASSUME m = Len(wire) PROVE pc = "closed"
    OBVIOUS
  <2>1. ~(pos < Len(wire))
    BY <1>2, <1>4
  <2> QED BY <2>1, <1>a DEF UnderWay
<1>9. RunEnd(wire[m]) = log[a].total /\ log[a].status = "ok"
  BY <1>4, <1>5, <1>7, <1>8 DEF LinkInv, WireInv, WireFlows
<1>10. e.data = d
  BY <1>a DEF Collection
<1> HIDE DEF d
<1>11. IsUnit(e, a)
  <2>1. d[Len(d)].off + d[Len(d)].len = log[a].total
    BY <1>5, <1>9 DEF EndOf
  <2>2. /\ d # << >> /\ d[1].off = log[a].hdr
        /\ \A k \in DOMAIN d : d[k].au = a /\ (k > 1 => d[k].off = d[k-1].off + d[k-1].len)
    BY <1>1 DEF PartOf
  <2> QED BY <2>1, <2>2, <1>10 DEF IsUnit
<1>12. a \in DOMAIN log
  BY <1>1 DEF PartOf
<1> QED BY <1>1, <1>9, <1>11, <1>12 DEF WholeUnit

(* A unit that starts is later than everything that was seen.              *)
LEMMA StartsLater ==
  ASSUME LinkInv, UnderWay, IsES(First), First.start, ~again, NEW a, WasSeen(a)
  PROVE  a < First.body.au
<1>1. Got = pos /\ pos \in Nat /\ Len(wire) \in Nat /\ DOMAIN wire = 1..Len(wire)
  BY LinkFacts DEF Got
<1>2. PICK j \in 1..pos : Carries(wire[j], a)
  BY <1>1 DEF WasSeen
<1>3. pos + 1 \in DOMAIN wire /\ (pos + 1) - 1 = pos
  BY <1>1 DEF UnderWay
<1>4. UnitPacket(pos + 1)
  BY <1>3 DEF LinkInv, WireInv, WireTells, First
<1>5. IsES(wire[j]) /\ wire[j].body.au = a
  BY <1>2 DEF Carries, IsES
<1>6. \A k \in 1..((pos + 1) - 1) : IsES(wire[k]) => wire[k].body.au < wire[pos + 1].body.au
  BY <1>4 DEF UnitPacket, First
<1> QED BY <1>3, <1>5, <1>6 DEF First

(* What is delivered on a track is earlier than a unit that starts now.    *)
LEMMA DeliveredEarlier ==
  ASSUME LinkInv, UnderWay, IsES(First), First.start,
         NEW i \in DOMAIN order, order[i].pid = First.pid,
         NEW k \in DOMAIN delivered[First.pid]
  PROVE  delivered[First.pid][k].data[1].au < First.body.au
<1>0. order[i].pid \in PIDs
  BY TrackPids
<1>1. CASE ~again
  <2>1. WasSeen(delivered[First.pid][k].data[1].au)
    BY <1>0 DEF LinkInv, Given, GivenAs
  <2> QED BY <2>1, <1>1, StartsLater
<1>2. CASE again
  <2>1. order[i].collecting /\ order[i].mem[order[i].cur][1].au = First.body.au
    BY <1>2 DEF LinkInv, HandledOnce
  <2>2. Holds(order[i])
    BY DEF LinkInv, Collected
  <2> QED BY <2>1, <2>2 DEF Holds
<1> QED BY <1>1, <1>2

(* What a track holds after a start packet.                                *)
LEMMA StartHolds ==
  ASSUME LinkInv, Arrives, IsES(First), NEW i \in DOMAIN order, NEW s, s = order[i],
         s.pid = First.pid, NEW u \in Stream(PIDs), u.pid = s.pid, u.hasCC, Started(s, u)
  PROVE  Holds(u)'
<1>0. PICK n : n = pos + 1
  OBVIOUS
<1> DEFINE b == First.body
           x == [au |-> b.au, off |-> b.off + b.pes.len, len |-> b.len - b.pes.len]
<1>1. /\ WireInv /\ n \in DOMAIN wire /\ First = wire[n] /\ n \in Nat /\ Got' = n
      /\ wire' = wire /\ log' = log /\ First.pid \in PIDs
  BY <1>0, ArrivesFacts
<1>2. UnitPacket(n)
  BY <1>1 DEF WireInv, WireTells
<1>3. /\ b.au \in DOMAIN log /\ First.pid = log[b.au].pid /\ First.rai = log[b.au].rai
      /\ b.off = 0 /\ b.len \in Nat /\ b.pes.len = log[b.au].hdr /\ b.pes.len \in Nat
      /\ First.ok
  <2>1. b.len \in Nat /\ b.pes \in Header /\ b.pes.len = log[b.au].hdr /\ b.off = 0
    BY <1>1, UnitFields DEF Started
  <2>2. b.pes.len \in Nat
    BY <2>1 DEF Header
  <2>3. b.au \in DOMAIN log /\ First.pid = log[b.au].pid /\ First.rai = log[b.au].rai
    BY <1>1, <1>2 DEF UnitPacket, Started
  <2> QED BY <2>1, <2>2, <2>3 DEF Arrives
<1>4. u.collecting /\ u.rai = First.rai /\ u.mem[u.cur] = <<x>>
  BY DEF Started, Begun
<1>5. PICK d : d = <<x>>
  OBVIOUS
<1>6. d # << >> /\ DOMAIN d = {1} /\ Len(d) = 1 /\ d[1] = x
  BY <1>5
<1>7. x.au = b.au /\ x.off = log[b.au].hdr /\ x.off + x.len = b.off + b.len
  BY <1>3
<1> HIDE DEF x, b
<1>8. d[1].au = b.au /\ EndOf(d) = RunEnd(First)
  <2>1. EndOf(d) = x.off + x.len
    BY <1>6 DEF EndOf
  <2> QED BY <2>1, <1>6, <1>7 DEF RunEnd, b
<1>9. PartOf(d, b.au)
  BY <1>3, <1>6, <1>7 DEF PartOf
<1>10. PICK a : a = b.au
  OBVIOUS
<1>11. Carries(First, a)
  BY <1>10 DEF Carries, IsES, b
<1>12. n \in 1..Got' /\ (Carries(wire[n], a))'
  <2>1. n \in 1..Len(wire) /\ Len(wire) \in Nat
    BY <1>1, LinkFacts
  <2>2. n \in 1..Got'
    BY <2>1, <1>1
  <2> QED BY <2>2, <1>1, <1>11 DEF Carries
<1>13. WasSeen(a)'
  BY <1>12 DEF WasSeen
<1>14. UpTo(d, u.pid, n)'
  <2>1. \A j \in (n + 1)..Got' : FALSE
    BY <1>1
  <2>2. wire'[n] = First
    BY <1>1
  <2> QED BY <2>1, <2>2, <1>3, <1>8, <1>10, <1>11 DEF UpTo, Carries, RunEnd, EndOf
<1>15. ASSUME NEW k \in DOMAIN delivered'[s.pid]
       PROVE  delivered'[s.pid][k].data[1].au < a
  <2>1. ASSUME NEW j \in DOMAIN delivered[s.pid] PROVE delivered[s.pid][j].data[1].au < a
    BY <2>1, <1>10, DeliveredEarlier DEF Started, Arrives, b
  <2>2. CASE delivered' = delivered
    BY <2>1, <2>2
  <2>3. CASE /\ s.collecting /\ ~again
             /\ delivered' = [delivered EXCEPT ![s.pid] = Append(@, Collection(s, FALSE))]
    <3>1. delivered \in [PIDs -> Seq(Out)]
      BY DEF LinkInv, LinkTypes
    <3> DEFINE e == Collection(s, FALSE)
               D == delivered[s.pid]
    <3>2. delivered'[s.pid] = Append(D, e) /\ D \in Seq(Out)
      BY <2>3, <3>1, <1>1
    <3>3. e.data[1].au < a
      <4>1. WasSeen(s.mem[s.cur][1].au)
        BY <2>3 DEF LinkInv, Collected, Holds
      <4>2. e.data = s.mem[s.cur]
        BY DEF Collection
      <4> QED BY <4>1, <4>2, <2>3, <1>10, StartsLater DEF Arrives, Started, b
    <3> HIDE DEF e, D
    <3>4. /\ Len(D) \in Nat /\ DOMAIN D = 1..Len(D) /\ DOMAIN Append(D, e) = 1..(Len(D) + 1)
          /\ Append(D, e)[Len(D) + 1] = e
          /\ \A j \in 1..Len(D) : Append(D, e)[j] = D[j]
      BY <3>2
    <3>5. CASE k = Len(D) + 1
      BY <3>2, <3>3, <3>4, <3>5
    <3>6. CASE k \in 1..Len(D)
      <4>1. delivered'[s.pid][k] = D[k] /\ D[k].data[1].au < a
        BY <3>2, <3>4, <3>6, <2>1 DEF D
      <4> QED BY <4>1
    <3> QED BY <3>2, <3>4, <3>5, <3>6
  <2> QED BY <2>2, <2>3 DEF Started
<1>16. /\ log'[a].pid = u.pid /\ u.rai = log'[a].rai /\ PartOf(d, a)'
  BY <1>1, <1>3, <1>4, <1>9, <1>10 DEF PartOf
<1>17. u.mem[u.cur] = d /\ d[1].au = a
  BY <1>4, <1>5, <1>8, <1>10
<1>18. \E m \in 1..Got' : UpTo(d, u.pid, m)'
  BY <1>12, <1>14
<1> QED BY <1>4, <1>13, <1>15, <1>16, <1>17, <1>18 DEF Holds

(* A packet that goes on with a unit follows the last one of the track.    *)
LEMMA FollowsLast ==
  ASSUME LinkInv, UnderWay, IsES(First), ~First.start, ~again, NEW d,
         NEW m \in 1..Got, UpTo(d, First.pid, m)
  PROVE  /\ First.body.off = EndOf(d) /\ First.body.au = d[1].au
         /\ First.body.au \in DOMAIN log /\ RunEnd(First) <= log[First.body.au].total
<1>1. Got = pos /\ pos \in Nat /\ Len(wire) \in Nat /\ DOMAIN wire = 1..Len(wire)
  BY LinkFacts DEF Got
<1>2. pos + 1 \in DOMAIN wire /\ (pos + 1) - 1 = pos
  BY <1>1 DEF UnderWay
<1>3. UnitPacket(pos + 1)
  BY <1>2 DEF LinkInv, WireInv, WireTells, First
<1>4. pos > 0 /\ IsES(wire[pos]) /\ GoesOn(wire[pos], First)
  BY <1>2, <1>3, <1>1 DEF UnitPacket, First
<1>5. wire[pos].pid = First.pid /\ First.body.off = RunEnd(wire[pos])
      /\ First.body.au = wire[pos].body.au
  BY <1>4 DEF GoesOn
<1>6. pos \notin (m + 1)..pos
  BY <1>1, <1>5 DEF UpTo
<1>7. m = pos
  BY <1>6, <1>1
<1>8. First.body.au \in DOMAIN log /\ RunEnd(First) <= log[First.body.au].total
  BY <1>3 DEF UnitPacket, First
<1> QED BY <1>5, <1>7, <1>8 DEF UpTo, Carries

(* What a track holds after a packet that goes on.                         *)
LEMMA ContinueHolds ==
  ASSUME LinkInv, Arrives, IsES(First), NEW i \in DOMAIN order, NEW s, s = order[i],
         s.pid = First.pid, NEW u \in Stream(PIDs), u.pid = s.pid, u.hasCC, WentOn(s, u)
  PROVE  Holds(u)'
<1> SUFFICES ASSUME u.collecting PROVE Holds(u)'
  BY DEF Holds
<1>0. PICK n : n = pos + 1
  OBVIOUS
<1>1. /\ WireInv /\ n \in DOMAIN wire /\ First = wire[n] /\ n \in Nat /\ Got' = n
      /\ wire' = wire /\ log' = log /\ First.pid \in PIDs /\ pos \in Nat
  BY <1>0, ArrivesFacts
<1>2. /\ s.collecting /\ burst[s.pid] = 0 /\ u.mem[u.cur] = Longer(s) /\ u.rai = s.rai
      /\ ~First.start /\ ~again /\ delivered' = delivered /\ UnderWay
  BY DEF WentOn, Arrives
<1>3. PICK d : d = s.mem[s.cur]
  OBVIOUS
<1>4. PICK a : a = d[1].au
  OBVIOUS
<1>5. /\ PartOf(d, a) /\ log[a].pid = s.pid /\ s.rai = log[a].rai
      /\ \E m \in 1..Got : UpTo(d, s.pid, m)
      /\ \A k \in DOMAIN delivered[s.pid] : delivered[s.pid][k].data[1].au < a
  BY <1>2, <1>3, <1>4 DEF LinkInv, Collected, Holds
<1>6. PICK m \in 1..Got : UpTo(d, First.pid, m)
  BY <1>5
<1>7. First.body.off = EndOf(d) /\ First.body.au = a
  BY <1>2, <1>4, <1>6, FollowsLast
<1>8. /\ First.body.au \in Nat /\ First.body.off \in Nat /\ First.body.len \in Nat
      /\ n \in 1..Len(wire) /\ Len(wire) \in Nat
  BY <1>1, UnitFields, LinkFacts
<1>9. PICK x : x = [au |-> First.body.au, off |-> First.body.off, len |-> First.body.len]
  OBVIOUS
<1>10. x \in Chunk /\ x.au = a /\ x.off = EndOf(d) /\ x.off + x.len = RunEnd(First)
  BY <1>7, <1>8, <1>9 DEF Chunk, RunEnd
<1>11. d \in Seq(Chunk)
  <2>1. s \in Stream(PIDs)
    BY TrackPids
  <2> QED BY <2>1, <1>3 DEF Stream
<1>12. PICK e : e = Append(d, x)
  OBVIOUS
<1>13. u.mem[u.cur] = e
  BY <1>2, <1>3, <1>9, <1>12 DEF Longer
<1>14. /\ Len(d) \in Nat /\ DOMAIN d = 1..Len(d) /\ DOMAIN e = 1..(Len(d) + 1)
       /\ Len(e) = Len(d) + 1 /\ e[Len(d) + 1] = x /\ e # << >>
       /\ \A k \in 1..Len(d) : e[k] = d[k]
  BY <1>10, <1>11, <1>12
<1>15. Len(d) > 0
  <2>1. d # << >>
    BY <1>5 DEF PartOf
  <2> QED BY <2>1, <1>11
<1>16. PICK l \in Nat : l = Len(d)
  BY <1>14
<1>17. e[1] = d[1] /\ e[1].au = a
  BY <1>4, <1>14, <1>15
<1>18. PartOf(e, a)
  <2>1. ASSUME NEW k \in DOMAIN e
        PROVE  e[k].au = a /\ (k > 1 => e[k].off = e[k-1].off + e[k-1].len)
    <3>1. CASE k = l + 1
      <4>1. e[k] = x /\ k - 1 = l /\ e[l] = d[l] /\ x.off = d[l].off + d[l].len
        BY <3>1, <1>10, <1>14, <1>15, <1>16 DEF EndOf
      <4> QED BY <4>1, <1>10
    <3>2. CASE k \in 1..l
      <4>1. e[k] = d[k] /\ k \in DOMAIN d /\ (k > 1 => k - 1 \in 1..l)
        BY <3>2, <1>14, <1>16
      <4>2. k > 1 => e[k - 1] = d[k - 1]
        BY <4>1, <1>14, <1>16
      <4> QED BY <4>1, <4>2, <1>5 DEF PartOf
    <3> QED BY <3>1, <3>2, <1>14, <1>16
  <2> QED BY <2>1, <1>5, <1>14, <1>17 DEF PartOf
<1>19. EndOf(e) = RunEnd(First)
  BY <1>10, <1>14 DEF EndOf
<1>20. n \in 1..Got' /\ (Carries(wire[n], a))'
  <2>1. n \in 1..Got'
    BY <1>1, <1>8
  <2> QED BY <2>1, <1>1, <1>7 DEF Carries, IsES
<1>21. WasSeen(a)'
  BY <1>20 DEF WasSeen
<1>22. UpTo(e, u.pid, n)'
  <2>1. \A j \in (n + 1)..Got' : FALSE
    BY <1>1
  <2>2. wire'[n] = First
    BY <1>1
  <2> QED BY <2>1, <2>2, <1>17, <1>19, <1>20 DEF UpTo, RunEnd, EndOf, Arrives
<1>23. log'[a].pid = u.pid /\ u.rai = log'[a].rai /\ PartOf(e, a)'
  BY <1>1, <1>2, <1>5, <1>18 DEF PartOf
<1>24. \E k \in 1..Got' : UpTo(e, u.pid, k)'
  BY <1>20, <1>22
<1>25. \A k \in DOMAIN delivered'[u.pid] : delivered'[u.pid][k].data[1].au < a
  BY <1>2, <1>5
<1> QED BY <1>13, <1>17, <1>21, <1>23, <1>24, <1>25 DEF Holds

(* What a track holds after a packet it has seen.                          *)
LEMMA RepeatHolds ==
  ASSUME LinkInv, Arrives, NEW i \in DOMAIN order, NEW s, s = order[i],
         s.pid = First.pid, again, delivered' = delivered
  PROVE  Holds(s)'
<1>1. LogGrows /\ WireGrows /\ Got' = pos + 1 /\ Got = pos + 1 /\ pos \in Nat
      /\ pos + 1 <= Len(wire) /\ wire' = wire
  BY ArrivesFacts
<1>2. burst[s.pid] = 0
  BY DEF LinkInv, HandledOnce
<1>3. Holds(s)
  BY DEF LinkInv, Collected
<1>4. \A j \in (Got + 1)..Got' : FALSE
  BY <1>1
<1>5. Len(wire) \in Nat
  BY LinkFacts
<1>6. /\ Got \in Nat /\ Got' \in Nat /\ Got <= Got' /\ Got <= Len(wire)
      /\ Got' <= Len(wire')
  BY <1>1, <1>5
<1> QED BY <1>1, <1>2, <1>3, <1>4, <1>6, HoldsKept

(* One track and what was delivered for it change.                         *)
LEMMA TrackKeeps ==
  ASSUME LinkInv, Arrives, phase = "read", UNCHANGED <<phase, asm, flushIdx>>,
         NEW i \in DOMAIN order, order[i].pid = First.pid,
         NEW u \in Stream(PIDs), u.pid = First.pid, u.hasCC, u.cc = First.cc,
         order' = [order EXCEPT ![i] = u],
         delivered' \in [PIDs -> Seq(Out)],
         \A t \in PIDs : t # First.pid => delivered'[t] = delivered[t],
         First.start => u.collecting /\ u.mem[u.cur][1].au = First.body.au,
         Holds(u)', NEW q, q = First.pid, Given(q)'
  PROVE  LinkInv'
<1> DEFINE n == pos + 1
<1>1. /\ WireInv /\ WireInv' /\ BurstsShort' /\ pos' \in 0..Len(wire')
      /\ burst' \in [PIDs -> Nat]
      /\ again' => (UnderWay' /\ First' = First)
      /\ tracks' = tracks /\ pc' = pc /\ burst'[First.pid] = 0
      /\ n \in DOMAIN wire /\ First = wire[n] /\ Got' = n /\ First.pid \in DOMAIN cc
      /\ wire' = wire /\ cc' = cc /\ First \in Packet
  BY ArrivesFacts
<1>2. /\ order \in Seq(Stream(PIDs)) /\ order'[i] = u /\ DOMAIN order' = DOMAIN order
      /\ \A j \in DOMAIN order : j # i => order'[j] = order[j]
      /\ order' \in Seq(Stream(PIDs)) /\ Len(order') = Len(order)
  BY DEF LinkInv, LinkTypes
<1>3. \A j \in DOMAIN order : order'[j].pid = order[j].pid
  BY <1>2
<1>4. flushIdx = 0 /\ flushIdx' = 0
  BY DEF LinkInv, TablesRead
<1>5. LinkTypes'
  BY <1>1, <1>2 DEF LinkInv, LinkTypes, Arrives
<1>6. TablesRead'
  BY <1>1, <1>2, <1>3 DEF LinkInv, TablesRead
<1>7. \A j \in DOMAIN order : j # i => order[j].pid # First.pid
  BY TrackPids
<1>8. HandledOnce'
  <2> SUFFICES ASSUME again' PROVE HandledOnce'
    BY DEF HandledOnce
  <2>1. First' = First /\ burst'[First'.pid] = 0
    BY <1>1
  <2>2. \A j \in DOMAIN order' : order'[j].pid = First.pid => j = i
    BY <1>2, <1>3, <1>7
  <2>3. \A j \in DOMAIN order' : order'[j].pid = First.pid =>
          /\ order'[j].hasCC /\ order'[j].cc = First.cc
          /\ First.start => /\ order'[j].collecting
                            /\ order'[j].mem[order'[j].cur][1].au = First.body.au
    BY <2>2, <1>2
  <2> QED BY <2>1, <2>3 DEF HandledOnce
<1>9. CounterSeen(u)'
  <2>1. NextIs(n, u.pid, NextCC(u.cc))
    BY <1>1, NextAfter
  <2>2. u.cc \in CC
    BY <1>1 DEF Packet
  <2>3. NextCC(u.cc) = (u.cc + burst'[u.pid] + 1) % CCMod
    <3>1. u.cc + 0 + 1 = u.cc + 1
      BY <2>2, CCModAssumption DEF CC
    <3> QED BY <3>1, <1>1 DEF NextCC
  <2>4. PICK c : c = NextCC(u.cc)
    OBVIOUS
  <2>5. PICK g : g = n
    OBVIOUS
  <2> HIDE DEF n
  <2>6. NextIs(g, u.pid, c)
    BY <2>1, <2>4, <2>5
  <2>7. NextIs(g, u.pid, c)'
    BY <2>6, <1>1 DEF NextIs
  <2>8. (NextIs(Got, u.pid, (u.cc + burst[u.pid] + 1) % CCMod))'
    BY <2>3, <2>4, <2>5, <2>7, <1>1
  <2> QED BY <2>2, <2>8 DEF CounterSeen
<1>10. Collected'
  <2> SUFFICES ASSUME NEW j \in DOMAIN order
               PROVE  /\ (CounterSeen(order[j]))' /\ (Holds(order[j]))'
                      /\ j <= flushIdx' => ~order'[j].collecting
    BY <1>2 DEF Collected
  <2>1. CASE j = i
    BY <2>1, <1>2, <1>4, <1>9, HoldsAt, CounterAt, LinkFacts
  <2>2. CASE j # i
    <3>1. order[j].pid # First.pid /\ order'[j] = order[j] /\ order[j].pid \in PIDs
      BY <2>2, <1>2, <1>7, TrackPids
    <3>2. (CounterSeen(order[j]))' /\ (Holds(order[j]))'
      BY <3>1, OtherTracks
    <3>3. ~(j <= 0)
      BY LinkFacts
    <3> QED BY <3>2, <3>3, <1>4
  <2> QED BY <2>1, <2>2
<1>11. ASSUME NEW t \in PIDs PROVE Given(t)'
  <2>1. CASE t = First.pid
    BY <2>1
  <2>2. CASE t # First.pid
    <3>1. \A j \in 1..flushIdx : order'[j].pid = order[j].pid
      BY <1>4
    <3> QED BY <2>2, <3>1, OtherGiven
  <2> QED BY <2>1, <2>2
<1> QED BY <1>1, <1>5, <1>6, <1>8, <1>10, <1>11 DEF LinkInv

(* A collected unit as it is returned.                                     *)
LEMMA CollectionTypes ==
  ASSUME NEW P, NEW s \in Stream(P), NEW cut \in BOOLEAN
  PROVE  Collection(s, cut) \in Out
<1>1. s.mem[s.cur] \in Seq(Chunk) /\ s.pts \in Int /\ s.dts \in Int /\ s.rai \in BOOLEAN
  BY DEF Stream
<1> QED BY <1>1 DEF Collection, Out

(* A packet of a track.                                                    *)
LEMMA ESKeeps ==
  ASSUME LinkInv, GapsShort, Arrives, Record(FALSE), ReadESPacket(First)
  PROVE  LinkInv'
<1>1. /\ IsES(First) /\ phase = "read" /\ UNCHANGED <<phase, asm, flushIdx>>
  BY ESCases
<1>2. PICK i \in DOMAIN order, u \in Stream(PIDs) :
              /\ order[i].pid = First.pid /\ u.pid = First.pid
              /\ u.hasCC /\ u.cc = First.cc
              /\ order' = [order EXCEPT ![i] = u] /\ Handled(order[i], u)
  BY ESCases
<1>3. PICK s : s = order[i]
  OBVIOUS
<1>4. PICK q : q = First.pid
  OBVIOUS
<1>5. /\ q \in PIDs /\ LogGrows /\ WireGrows /\ pos \in Nat /\ pos + 1 <= Len(wire)
      /\ pc' = pc /\ Got' = pos + 1 /\ pos + 1 \in DOMAIN wire /\ First = wire[pos + 1]
      /\ (~again /\ Got = pos) \/ (again /\ Got = pos + 1)
      /\ WireInv
      /\ wire' = wire /\ log' = log
  BY <1>4, ArrivesFacts
<1>6. s \in Stream(PIDs) /\ delivered \in [PIDs -> Seq(Out)]
  BY <1>2, <1>3, TrackPids DEF LinkInv, LinkTypes
<1>7. flushIdx = 0 /\ \A j \in 1..flushIdx : order'[j].pid = order[j].pid
  BY <1>1 DEF LinkInv, TablesRead
<1>8. Len(wire) \in Nat
  BY LinkFacts
<1>9. Got \in Nat /\ Got' \in Nat /\ Got <= Got' /\ Got <= Len(wire)
  BY <1>5, <1>8
<1>10. CASE delivered' = delivered
  <2>1. Given(q)'
    BY <1>5, <1>7, <1>10, <1>1, OtherGiven
  <2>2. Holds(u)'
    <3>1. CASE Repeated(s, u)
      BY <3>1, <1>2, <1>3, RepeatHolds DEF Repeated
    <3>2. CASE Started(s, u)
      BY <3>2, <1>1, <1>2, <1>3, StartHolds
    <3>3. CASE WentOn(s, u)
      BY <3>3, <1>1, <1>2, <1>3, ContinueHolds
    <3> QED BY <3>1, <3>2, <3>3, <1>2, <1>3 DEF Handled
  <2>3. First.start => u.collecting /\ u.mem[u.cur][1].au = First.body.au
    <3>1. First.start => Started(s, u)
      BY <1>2, <1>3 DEF Handled, Repeated, WentOn
    <3> QED BY <3>1 DEF Started, Begun
  <2> QED BY <2>1, <2>2, <2>3, <1>1, <1>2, <1>4, <1>6, <1>10, TrackKeeps
<1>11. CASE delivered' # delivered
  <2>1. Started(s, u)
    BY <1>2, <1>3, <1>11 DEF Handled, Repeated, WentOn
  <2>2. /\ s.collecting /\ ~again /\ burst[s.pid] = 0 /\ First.start /\ s.pid = q
        /\ delivered' = [delivered EXCEPT ![q] = Append(@, Collection(s, FALSE))]
    BY <2>1, <1>2, <1>3, <1>4, <1>11 DEF Started
  <2>3. PICK e : e = Collection(s, FALSE)
    OBVIOUS
  <2>4. e \in Out
    BY <2>3, <1>6, CollectionTypes
  <2>5. delivered[q] \in Seq(Out)
    BY <1>5, <1>6
  <2>6. /\ delivered'[q] = Append(delivered[q], e) /\ delivered' \in [PIDs -> Seq(Out)]
        /\ \A t \in PIDs : t # q => delivered'[t] = delivered[t]
    <3>1. Append(delivered[q], e) \in Seq(Out)
      BY <2>4, <2>5
    <3> QED BY <3>1, <2>2, <2>3, <1>5, <1>6
  <2>7. PICK a : a = s.mem[s.cur][1].au
    OBVIOUS
  <2>8. /\ a \in DOMAIN log /\ WasSeen(a) /\ IsUnit(e, a) /\ log[a].status = "ok"
        /\ s.rai = log[a].rai
    <3>1. Due(s, FALSE, e, a)
      BY <2>2, <2>3, <2>7, <1>2, <1>3 DEF Arrives, Due
    <3>2. WholeUnit(s, e, a)
      BY <3>1, CollectedWhole
    <3> QED BY <3>2 DEF WholeUnit
  <2>9. e.data[1].au = a /\ e.rai = s.rai /\ e.data # << >>
    <3>1. e.data = s.mem[s.cur] /\ e.rai = s.rai
      BY <2>3 DEF Collection
    <3> QED BY <3>1, <2>7, <2>8 DEF IsUnit
  <2>10. GivenAs(e, q)'
    <3>1. WasSeen(a)'
      BY <2>8, <1>5, <1>9, SeenKept
    <3>2. IsUnit(e, a)' /\ log'[a].status = "ok" /\ a \in DOMAIN log' /\ e.rai = log'[a].rai
      BY <2>8, <2>9, <1>5 DEF IsUnit
    <3> QED BY <3>1, <3>2, <2>9 DEF GivenAs
  <2>11. Given(q)'
    <3>1. Given(q) /\ flushIdx \in Nat /\ flushIdx' = flushIdx /\ flushIdx <= flushIdx'
      BY <1>1, <1>5, <1>7 DEF LinkInv
    <3> QED BY <3>1, <2>4, <2>5, <2>6, <2>10, <1>5, <1>7, <1>9, GivenMore
  <2>12. Holds(u)'
    BY <2>1, <1>1, <1>2, <1>3, StartHolds
  <2>13. First.start => u.collecting /\ u.mem[u.cur][1].au = First.body.au
    BY <2>1 DEF Started, Begun
  <2> QED BY <2>6, <2>11, <2>12, <2>13, <1>1, <1>2, <1>4, TrackKeeps
<1> QED BY <1>10, <1>11

(* The reader receives a packet.                                           *)
LEMMA ReceiveIs ==
  ASSUME LinkInv, NEW stay \in BOOLEAN, Receive(stay)
  PROVE  Arrives /\ Record(FALSE) /\ ReadPacket(First)
<1>1. again \in BOOLEAN
  BY DEF LinkInv, LinkTypes
<1> QED BY <1>1 DEF Receive, Arrives

(* A packet arrives, once or for the first time of two.                    *)
LEMMA ReceiveKeeps ==
  ASSUME LinkInv, GapsShort, NEW stay \in BOOLEAN, Receive(stay)
  PROVE  LinkInv'
<1>1. Arrives /\ Record(FALSE) /\ ReadPacket(First)
  BY ReceiveIs
<1> QED BY <1>1, TablesKeep, OthersKeep, ESKeeps DEF ReadPacket

-----------------------------------------------------------------------------
(* The end of the input, and the flush.                                    *)
LEMMA TrackStill ==
  ASSUME LinkInv, LogGrows, WireGrows, UNCHANGED <<wire, cc, pos, again, burst>>,
         NEW i \in DOMAIN order, order'[i] = order[i],
         delivered'[order[i].pid] = delivered[order[i].pid]
  PROVE  (CounterSeen(order[i]))' /\ (Holds(order[i]))'
<1>1. PICK s : s = order[i]
  OBVIOUS
<1>2. s = order'[i] /\ CounterSeen(s) /\ Holds(s)
  BY <1>1 DEF LinkInv, Collected
<1>3. Got' = Got /\ burst'[s.pid] = burst[s.pid] /\ delivered'[s.pid] = delivered[s.pid]
  BY <1>1 DEF Got
<1>4. Got \in Nat /\ Got <= Len(wire) /\ Len(wire) \in Nat
  BY LinkFacts
<1>5. Got' \in Nat /\ Got <= Got' /\ Got' <= Len(wire') /\ \A j \in (Got + 1)..Got' : FALSE
  BY <1>3, <1>4
<1>6. Holds(s)'
  BY <1>2, <1>3, <1>4, <1>5, HoldsKept
<1>7. CounterSeen(s)'
  BY <1>2, <1>3, <1>4, CounterKept
<1> QED BY <1>2, <1>6, <1>7, HoldsAt, CounterAt

(* The end of the input: io.EOF in NewReader, or the flush begins.         *)
LEMMA EndKeeps ==
  ASSUME LinkInv, EndOfInput
  PROVE  LinkInv'
<1>1. /\ pc = "closed" /\ ~UnderWay /\ phase \in {"pat", "pmt", "read"}
      /\ phase' = IF phase = "read" THEN "flush" ELSE "failed"
      /\ UNCHANGED <<asm, order, flushIdx, delivered, wvars, cvars>>
  BY DEF EndOfInput, ReadEOF
<1>2. UNCHANGED <<pos, burst, again>> /\ UNCHANGED <<wire, cc, log, tracks, pc, job>>
  BY <1>1 DEF cvars, wvars
<1>3. WireInv' /\ LogGrows /\ WireGrows
  BY <1>1, WriterStep DEF LinkInv, WriterMoves
<1>4. LinkTypes'
  <2>1. phase' \in {"flush", "failed"}
    BY <1>1
  <2> QED BY <2>1, <1>1, <1>2 DEF LinkInv, LinkTypes, UnderWay, First
<1>5. TablesRead'
  BY <1>1, <1>2 DEF LinkInv, TablesRead, UnderWay
<1>6. BurstsShort' /\ HandledOnce'
  BY <1>1, <1>2 DEF LinkInv, LinkTypes, BurstsShort, HandledOnce, UnderWay, First, IsES
<1>7. Got' = Got
  BY <1>2 DEF Got
<1>8. Collected'
  BY <1>1, <1>2, <1>3, TrackStill DEF LinkInv, Collected
<1>9. \A t \in PIDs : Given(t)'
  <2> SUFFICES ASSUME NEW t \in PIDs PROVE Given(t)'
    OBVIOUS
  <2>1. Given(t)
    BY DEF LinkInv
  <2>2. Got \in Nat /\ Got <= Len(wire) /\ flushIdx \in Nat
    BY LinkFacts
  <2>3. Got <= Got' /\ flushIdx <= flushIdx'
    BY <2>2, <1>1, <1>7
  <2> QED BY <2>1, <2>2, <2>3, <1>1, <1>2, <1>3, <1>7, GivenKept
<1> QED BY <1>3, <1>4, <1>5, <1>6, <1>8, <1>9 DEF LinkInv

(* The flush is over.                                                      *)
LEMMA EOFKeeps ==
  ASSUME LinkInv, EndOfFlush
  PROVE  LinkInv'
<1>1. /\ phase = "flush" /\ flushIdx = Len(order) /\ phase' = "eof"
      /\ UNCHANGED <<asm, order, flushIdx, delivered, wvars, cvars>>
  BY DEF EndOfFlush, ReportEOF
<1>2. UNCHANGED <<pos, burst, again>> /\ UNCHANGED <<wire, cc, log, tracks, pc, job>>
  BY <1>1 DEF cvars, wvars
<1>3. WireInv' /\ LogGrows /\ WireGrows
  BY <1>1, WriterStep DEF LinkInv, WriterMoves
<1>4. LinkTypes'
  BY <1>1, <1>2 DEF LinkInv, LinkTypes, UnderWay, First
<1>5. TablesRead'
  BY <1>1, <1>2 DEF LinkInv, TablesRead, UnderWay
<1>6. BurstsShort' /\ HandledOnce'
  BY <1>1, <1>2 DEF LinkInv, LinkTypes, BurstsShort, HandledOnce, UnderWay, First, IsES
<1>7. Got' = Got
  BY <1>2 DEF Got
<1>8. Collected'
  BY <1>1, <1>2, <1>3, TrackStill DEF LinkInv, Collected
<1>9. \A t \in PIDs : Given(t)'
  <2> SUFFICES ASSUME NEW t \in PIDs PROVE Given(t)'
    OBVIOUS
  <2>1. Given(t)
    BY DEF LinkInv
  <2>2. Got \in Nat /\ Got <= Len(wire) /\ flushIdx \in Nat
    BY LinkFacts
  <2>3. Got <= Got' /\ flushIdx <= flushIdx'
    BY <2>2, <1>1, <1>7
  <2> QED BY <2>1, <2>2, <2>3, <1>1, <1>2, <1>3, <1>7, GivenKept
<1> QED BY <1>3, <1>4, <1>5, <1>6, <1>8, <1>9 DEF LinkInv

(* One track is flushed: s before, u after.                                *)
LEMMA FlushCases ==
  ASSUME LinkInv, FlushStream
  PROVE  /\ phase = "flush" /\ phase' = "flush" /\ pc = "closed" /\ ~UnderWay /\ ~again
         /\ flushIdx + 1 \in DOMAIN order /\ flushIdx' = flushIdx + 1
         /\ UNCHANGED <<asm, wvars, cvars>>
         /\ \E u \in Stream(PIDs) :
              LET s   == order[flushIdx + 1]
                  cut == burst[s.pid] > 0
              IN /\ order' = [order EXCEPT ![flushIdx + 1] = u]
                 /\ u.pid = s.pid /\ u.cc = s.cc /\ u.hasCC = s.hasCC /\ ~u.collecting
                 /\ u.lastTS = s.lastTS
                 /\ IF s.collecting
                    THEN delivered' = [delivered EXCEPT ![s.pid] = Append(@, Collection(s, cut))]
                    ELSE delivered' = delivered
<1> DEFINE i == flushIdx + 1
           f == Finish(order[i])
<1>1. /\ phase = "flush" /\ flushIdx < Len(order) /\ flushIdx' = i /\ phase' = "flush"
      /\ order' = [order EXCEPT ![i] = f.stream] /\ returned' = Unit(i, order[i], f)
      /\ UNCHANGED <<asm, wvars, cvars>> /\ Record(burst[order[i].pid] > 0)
  BY DEF FlushStream, Flush
<1>2. pc = "closed" /\ ~UnderWay /\ ~again
  BY <1>1 DEF LinkInv, TablesRead, LinkTypes
<1>3. i \in DOMAIN order /\ i # 0
  BY <1>1, LinkFacts
<1> HIDE DEF i
<1>4. PICK s : s = order[i]
  OBVIOUS
<1>5. s \in Stream(PIDs) /\ s.cur \in {0, 1}
  BY <1>3, <1>4, TrackPids DEF Stream
<1>6. PICK u : u = f.stream
  OBVIOUS
<1>7. /\ u \in Stream(PIDs) /\ u.pid = s.pid /\ u.lastTS = s.lastTS
      /\ u.cc = s.cc /\ u.hasCC = s.hasCC /\ ~u.collecting
      /\ IF s.collecting /\ s.mem[s.cur] # << >>
         THEN /\ f.au = 1 + s.cur /\ u.cur = 1 - s.cur
              /\ u.mem[s.cur] = s.mem[s.cur]
         ELSE f.au = 0
  BY <1>4, <1>5, <1>6, FinishGives
<1> HIDE DEF f
<1>8. order' = [order EXCEPT ![i] = u] /\ order'[i] = u
  BY <1>1, <1>3, <1>6
<1>9. s.collecting => s.mem[s.cur] # << >>
  BY <1>3, <1>4 DEF LinkInv, Collected, Holds, PartOf
<1>10. PICK cut : cut = (burst[s.pid] > 0)
  OBVIOUS
<1>11. CASE s.collecting
  <2>1. f.au = 1 + s.cur /\ u.mem[s.cur] = s.mem[s.cur]
    BY <1>7, <1>9, <1>11
  <2>2. 1 + s.cur # 0 /\ (1 + s.cur) - 1 = s.cur
    BY <1>5
  <2>3. returned' = [stream |-> i, pid |-> s.pid, pts |-> s.pts, dts |-> s.dts,
                     rai |-> s.rai, arr |-> s.cur]
    BY <2>1, <2>2, <1>1, <1>4 DEF Unit
  <2>4. Data(returned)' = s.mem[s.cur]
    BY <2>1, <2>3, <1>8 DEF Data
  <2>5. delivered' = [delivered EXCEPT ![s.pid] = Append(@, Collection(s, cut))]
    <3>1. returned'.stream # 0 /\ returned'.pid = s.pid
      BY <2>3, <1>3
    <3>2. /\ returned'.pts = s.pts /\ returned'.dts = s.dts /\ returned'.rai = s.rai
      BY <2>3
    <3>3. Record(cut)
      BY <1>1, <1>4, <1>10
    <3>4. [pts |-> returned'.pts, dts |-> returned'.dts, rai |-> returned'.rai,
           data |-> Data(returned)', cut |-> cut] = Collection(s, cut)
      BY <3>2, <2>4, Zenon DEF Collection
    <3> QED BY <3>1, <3>3, <3>4, Zenon DEF Record
  <2> QED BY <2>5, <1>1, <1>2, <1>3, <1>4, <1>7, <1>8, <1>10, <1>11 DEF i
<1>12. CASE ~s.collecting
  <2>1. returned'.stream = 0
    BY <1>1, <1>7, <1>12 DEF Unit, NoAU
  <2>2. delivered' = delivered
    BY <2>1, <1>1 DEF Record
  <2> QED BY <2>2, <1>1, <1>2, <1>3, <1>4, <1>7, <1>8, <1>12 DEF i
<1> QED BY <1>11, <1>12

(* flush returns what a track has collected.                               *)
LEMMA FlushKeeps ==
  ASSUME LinkInv, FlushStream
  PROVE  LinkInv'
<1> DEFINE i == flushIdx + 1
<1>1. /\ phase = "flush" /\ phase' = "flush" /\ pc = "closed" /\ ~UnderWay /\ ~again
      /\ i \in DOMAIN order /\ flushIdx' = i /\ UNCHANGED <<asm, wvars, cvars>>
  BY FlushCases
<1>2. PICK s : s = order[i]
  OBVIOUS
<1>3. PICK cut : cut = (burst[s.pid] > 0)
  OBVIOUS
<1>4. PICK u \in Stream(PIDs) :
        /\ order' = [order EXCEPT ![i] = u]
        /\ u.pid = s.pid /\ u.cc = s.cc /\ u.hasCC = s.hasCC /\ ~u.collecting
        /\ u.lastTS = s.lastTS
        /\ IF s.collecting
           THEN delivered' = [delivered EXCEPT ![s.pid] = Append(@, Collection(s, cut))]
           ELSE delivered' = delivered
  BY <1>2, <1>3, FlushCases
<1>5. /\ flushIdx \in Nat /\ i \in Nat /\ flushIdx <= i
      /\ DOMAIN order = 1..Len(order) /\ Len(order) \in Nat
      /\ i \in 1..Len(order) /\ \A j \in 1..i : j \in DOMAIN order
  BY <1>1, LinkFacts
<1> HIDE DEF i
<1>6. UNCHANGED <<pos, burst, again>> /\ UNCHANGED <<wire, cc, log, tracks, pc, job>>
  BY <1>1 DEF cvars, wvars
<1>7. WireInv' /\ LogGrows /\ WireGrows
  BY <1>1, WriterStep DEF LinkInv, WriterMoves
<1>8. s \in Stream(PIDs) /\ s.pid \in PIDs /\ delivered \in [PIDs -> Seq(Out)]
      /\ burst \in [PIDs -> Nat]
  BY <1>1, <1>2, TrackPids DEF LinkInv, LinkTypes
<1>9. PICK e : e = Collection(s, cut)
  OBVIOUS
<1>10. e \in Out /\ e.data = s.mem[s.cur] /\ e.cut = cut /\ e.rai = s.rai
  <2>1. cut \in BOOLEAN
    BY <1>3
  <2> QED BY <2>1, <1>8, <1>9, CollectionTypes DEF Collection
<1>11. PICK q : q = s.pid
  OBVIOUS
<1>12. /\ delivered' \in [PIDs -> Seq(Out)]
       /\ delivered'[q] = IF s.collecting THEN Append(delivered[q], e) ELSE delivered[q]
       /\ \A t \in PIDs : t # q => delivered'[t] = delivered[t]
  <2>1. delivered[q] \in Seq(Out)
    BY <1>8, <1>11
  <2>2. Append(delivered[q], e) \in Seq(Out)
    BY <2>1, <1>10
  <2> QED BY <2>2, <1>4, <1>8, <1>9, <1>11
<1>13. /\ order \in Seq(Stream(PIDs)) /\ order'[i] = u /\ DOMAIN order' = DOMAIN order
       /\ \A j \in DOMAIN order : j # i => order'[j] = order[j]
       /\ order' \in Seq(Stream(PIDs)) /\ Len(order') = Len(order)
  BY <1>1, <1>4 DEF LinkInv, LinkTypes
<1>14. \A j \in DOMAIN order : order'[j].pid = order[j].pid
  BY <1>2, <1>4, <1>13
<1>15. LinkTypes'
  <2>1. flushIdx' \in 0..Len(order')
    BY <1>1, <1>5, <1>13
  <2> QED BY <2>1, <1>1, <1>6, <1>12, <1>13 DEF LinkInv, LinkTypes, UnderWay, First
<1>16. TablesRead'
  BY <1>1, <1>6, <1>13, <1>14 DEF LinkInv, TablesRead, UnderWay
<1>17. BurstsShort' /\ HandledOnce'
  BY <1>1, <1>6 DEF BurstsShort, HandledOnce, UnderWay
<1>18. Collected'
  <2> SUFFICES ASSUME NEW j \in DOMAIN order
               PROVE  /\ (CounterSeen(order[j]))' /\ (Holds(order[j]))'
                      /\ j <= flushIdx' => ~order'[j].collecting
    BY <1>13 DEF Collected
  <2>1. CASE j = i
    <3>1. CounterSeen(u)
      BY <1>1, <1>2, <1>4 DEF LinkInv, Collected, CounterSeen
    <3>2. CounterSeen(u)'
      <4>1. Got' = Got
        BY <1>6 DEF Got
      <4> QED BY <3>1, <4>1, <1>6, LinkFacts, CounterKept
    <3>3. Holds(u)'
      BY <1>4 DEF Holds
    <3> QED BY <2>1, <3>2, <3>3, <1>4, <1>13, HoldsAt, CounterAt
  <2>2. CASE j # i
    <3>1. order[j].pid # q /\ order'[j] = order[j] /\ order[j].pid \in PIDs
      BY <2>2, <1>1, <1>2, <1>11, <1>13, TrackPids
    <3>2. (CounterSeen(order[j]))' /\ (Holds(order[j]))'
      BY <3>1, <1>6, <1>7, <1>12, TrackStill
    <3>3. j <= i => j <= flushIdx
      <4>1. j \in Nat
        BY <1>5
      <4> QED BY <4>1, <2>2, <1>5 DEF i
    <3>4. j <= flushIdx => ~order[j].collecting
      BY DEF LinkInv, Collected
    <3> QED BY <3>1, <3>2, <3>3, <3>4, <1>1
  <2> QED BY <2>1, <2>2
<1>19. /\ Got \in Nat /\ Got' = Got /\ Got <= Got' /\ Got <= Len(wire) /\ flushIdx' \in Nat
       /\ flushIdx <= flushIdx'
       /\ \A j \in 1..flushIdx : order'[j].pid = order[j].pid
  <2>1. Got' = Got
    BY <1>6 DEF Got
  <2>2. \A j \in 1..flushIdx : j \in 1..i
    BY <1>5
  <2> QED BY <2>1, <2>2, <1>1, <1>5, <1>14, LinkFacts
<1>20. ASSUME NEW t \in PIDs PROVE Given(t)'
  <2>1. Given(t)
    BY DEF LinkInv
  <2>2. CASE t # q \/ ~s.collecting
    <3>1. delivered'[t] = delivered[t]
      BY <2>2, <1>12
    <3> QED BY <2>1, <3>1, <1>5, <1>6, <1>7, <1>19, GivenKept
  <2>3. CASE t = q /\ s.collecting
    <3>1. delivered[t] \in Seq(Out) /\ delivered'[t] = Append(delivered[t], e)
      BY <2>3, <1>8, <1>12
    <3>2. PICK a : a = e.data[1].au
      OBVIOUS
    <3>3. a \in DOMAIN log /\ WasSeen(a) /\ e.data # << >>
      BY <2>3, <3>2, <1>1, <1>2, <1>10 DEF LinkInv, Collected, Holds, PartOf
    <3>4. a \in DOMAIN log' /\ WasSeen(a)'
      BY <3>3, <1>6, <1>7, <1>19, SeenKept
    <3>5. CASE cut
      <4>1. \E j \in 1..flushIdx' : order'[j].pid = t
        <5>1. i \in 1..flushIdx' /\ order'[i].pid = t
          BY <2>3, <1>1, <1>4, <1>5, <1>11, <1>13
        <5> QED BY <5>1
      <4> QED BY <4>1, <3>1, <3>2, <3>3, <3>4, <3>5, <2>1, <1>1, <1>5, <1>6, <1>7,
                 <1>10, <1>19, GivenMore DEF GivenAs
    <3>6. CASE ~cut
      <4>1. burst[s.pid] = 0
        <5>1. burst[s.pid] \in Nat /\ ~(burst[s.pid] > 0)
          BY <3>6, <1>3, <1>8
        <5>2. \A x \in Nat : ~(x > 0) => x = 0
          OBVIOUS
        <5> QED BY <5>1, <5>2
      <4>2. IsUnit(e, a) /\ log[a].status = "ok" /\ s.rai = log[a].rai
        <5>1. Due(s, cut, e, a)
          BY <4>1, <2>3, <3>2, <1>1, <1>2, <1>9, <1>10 DEF Due
        <5>2. WholeUnit(s, e, a)
          BY <5>1, CollectedWhole
        <5> QED BY <5>2 DEF WholeUnit
      <4>3. IsUnit(e, a)' /\ log'[a].status = "ok" /\ e.rai = log'[a].rai
        BY <4>2, <1>6, <1>10 DEF IsUnit
      <4>4. GivenAs(e, t)'
        BY <4>3, <3>2, <3>3, <3>4 DEF GivenAs
      <4> QED BY <4>4, <3>1, <2>1, <1>5, <1>6, <1>7, <1>10, <1>19, GivenMore
    <3> QED BY <3>5, <3>6
  <2> QED BY <2>2, <2>3
<1> QED BY <1>7, <1>15, <1>16, <1>17, <1>18, <1>20 DEF LinkInv

-----------------------------------------------------------------------------
(* The invariant holds before NewWriter and NewReader.                     *)
LEMMA LinkInit ==
  ASSUME Init
  PROVE  LinkInv
<1>1. WriterInit /\ ReaderInit /\ pos = 0 /\ burst = [p \in PIDs |-> 0] /\ again = FALSE
      /\ delivered = [p \in PIDs |-> << >>]
  BY DEF Init
<1>2. log = << >> /\ wire = << >> /\ tracks = << >> /\ pc = "new" /\ job = NoJob
  BY <1>1 DEF WriterInit
<1>3. Inv
  BY <1>1, InitInv
<1>4. DOMAIN << >> = {} /\ Len(<< >>) = 0
  OBVIOUS
<1>5. ~Writing
  BY <1>2 DEF Writing
<1>6. WireInv
  BY <1>2, <1>3, <1>4, <1>5 DEF WireInv, JobTells, WireTells, WireFlows, LogTimes, LogPids
<1>7. ~UnderWay /\ phase = "pat" /\ order = << >> /\ asm = NoSection /\ flushIdx = 0
      /\ returned = NoAU
  BY <1>1, <1>2, <1>4 DEF UnderWay, ReaderInit
<1>8. LinkTypes
  <2>1. << >> \in Seq(Stream(PIDs)) /\ << >> \in Seq(Out) /\ 0 \in 0..0
    OBVIOUS
  <2> QED BY <2>1, <1>1, <1>2, <1>4, <1>7 DEF LinkTypes
<1>9. TablesRead /\ BurstsShort /\ HandledOnce /\ Collected
  BY <1>1, <1>2, <1>4, <1>7 DEF TablesRead, BurstsShort, HandledOnce, Collected
<1>10. \A t \in PIDs : Given(t)
  BY <1>1, <1>4 DEF Given
<1> QED BY <1>6, <1>8, <1>9, <1>10 DEF LinkInv

(* Every step keeps it while the gaps are short.                           *)
LEMMA LinkNext ==
  ASSUME LinkInv, GapsShort, [Next]_vars
  PROVE  LinkInv'
<1>1. CASE Write
  BY <1>1, WriteKeeps DEF Write
<1>2. CASE Lose
  BY <1>2, GoneKeeps DEF Lose
<1>3. CASE Refused
  <2>1. ~again
    BY <1>3 DEF Refused, LinkInv, LinkTypes
  <2> QED BY <1>3, <2>1, GoneKeeps DEF Refused
<1>4. ASSUME NEW stay \in BOOLEAN, Receive(stay) PROVE LinkInv'
  BY <1>4, ReceiveKeeps
<1>5. CASE EndOfInput
  BY <1>5, EndKeeps
<1>6. CASE FlushStream
  BY <1>6, FlushKeeps
<1>7. CASE EndOfFlush
  BY <1>7, EOFKeeps
<1>8. CASE UNCHANGED vars
  <2>1. UNCHANGED wvars /\ UNCHANGED <<rvars, cvars, delivered>>
    BY <1>8 DEF vars
  <2> QED BY <2>1, WriteKeeps
<1> QED BY <1>1, <1>2, <1>3, <1>4, <1>5, <1>6, <1>7, <1>8 DEF Next, ReaderStep

(* While no gap on a PID spans a cycle of the counter, what is on the      *)
(* wire, what the reader holds and what it has returned fit together.      *)
LEMMA LinkAlways == Spec /\ []GapsShort => []LinkInv
<1>1. Init => LinkInv
  BY LinkInit
<1>2. LinkInv /\ GapsShort /\ [Next]_vars => LinkInv'
  BY LinkNext
<1> QED BY <1>1, <1>2, PTL DEF Spec

-----------------------------------------------------------------------------
(* The refinement: the state of AccessUnitChannel.                         *)
Accepted == [a \in DOMAIN log |-> log[a].pid]

OutOf == [t \in PIDs |-> [k \in DOMAIN delivered[t] |-> AbsUnit(delivered[t][k])]]

Ended == phase \in {"flush", "eof", "failed"}

(* A unit that was delivered stays what it is.                             *)
LEMMA AbsKept ==
  ASSUME LogGrows, pc # "closed" \/ log' = log, NEW t, NEW d, GivenAs(d, t)
  PROVE  AbsUnit(d)' = AbsUnit(d)
<1> DEFINE a == d.data[1].au
<1>1. CASE log' = log
  BY <1>1 DEF AbsUnit, IsUnit
<1>2. CASE pc # "closed"
  <2>1. a \in DOMAIN log /\ IsUnit(d, a) /\ log[a].status = "ok" /\ d.rai = log[a].rai
    BY <1>2 DEF GivenAs
  <2>2. IsUnit(d, a)' /\ SameUnit(log[a], log'[a])
    BY <2>1, UnitKept
  <2>3. log'[a].status = "ok" /\ d.rai = log'[a].rai
    BY <2>1, <2>2 DEF SameUnit
  <2>4. AbsUnit(d) = a /\ AbsUnit(d)' = a
    BY <2>1, <2>2, <2>3 DEF AbsUnit
  <2> QED BY <2>4
<1> QED BY <1>1, <1>2

(* AbsUnit of a unit of the next state, said of its value.                 *)
LEMMA AbsAt ==
  ASSUME NEW t, NEW k, NEW d, d = delivered'[t][k]
  PROVE  (AbsUnit(delivered[t][k]))' = AbsUnit(d)'
BY DEF AbsUnit, IsUnit

(* A step that delivers nothing leaves what the channel gave.              *)
LEMMA OutKept ==
  ASSUME LinkInv, LogGrows, pc # "closed" \/ log' = log, delivered' = delivered
  PROVE  OutOf' = OutOf
<1>1. ASSUME NEW t \in PIDs, NEW k \in DOMAIN delivered[t]
      PROVE  (AbsUnit(delivered[t][k]))' = AbsUnit(delivered[t][k])
  <2>1. PICK d : d = delivered[t][k]
    OBVIOUS
  <2>2. GivenAs(d, t)
    BY <2>1 DEF LinkInv, Given
  <2>3. AbsUnit(d)' = AbsUnit(d)
    BY <2>2, AbsKept
  <2>4. (AbsUnit(delivered[t][k]))' = AbsUnit(d)'
    BY <2>1, AbsAt
  <2> QED BY <2>1, <2>3, <2>4
<1> QED BY <1>1 DEF OutOf

(* A step that delivers a unit appends what the channel gives.             *)
LEMMA OutGrows ==
  ASSUME LinkInv, log' = log, NEW q \in PIDs, NEW e \in Out,
         delivered'[q] = Append(delivered[q], e),
         \A t \in PIDs : t # q => delivered'[t] = delivered[t],
         NEW x \in Int, AbsUnit(e)' = x
  PROVE  OutOf' = [OutOf EXCEPT ![q] = Append(@, x)]
<1>1. delivered \in [PIDs -> Seq(Out)] /\ log \in Seq(WrittenUnit) /\ LogGrows
  BY LinkFacts, LogSame DEF LinkInv, LinkTypes
<1>2. delivered[q] \in Seq(Out)
  BY <1>1
<1> DEFINE n == Len(delivered[q])
<1>3. /\ n \in Nat /\ DOMAIN delivered[q] = 1..n
      /\ delivered'[q] = Append(delivered[q], e)
      /\ \A t \in PIDs : t # q => delivered'[t] = delivered[t]
      /\ DOMAIN Append(delivered[q], e) = 1..(n + 1)
      /\ Append(delivered[q], e)[n + 1] = e
      /\ \A k \in 1..n : Append(delivered[q], e)[k] = delivered[q][k]
  BY <1>1, <1>2
<1>4. PICK m : m = n
  OBVIOUS
<1> HIDE DEF n
<1>5. ASSUME NEW t \in PIDs, NEW k \in DOMAIN delivered[t],
             delivered'[t][k] = delivered[t][k]
      PROVE  (AbsUnit(delivered[t][k]))' = AbsUnit(delivered[t][k])
             /\ AbsUnit(delivered[t][k]) \in Int
  <2>1. PICK d : d = delivered[t][k]
    OBVIOUS
  <2>2. GivenAs(d, t)
    BY <2>1 DEF LinkInv, Given
  <2>3. AbsUnit(d)' = AbsUnit(d)
    BY <2>2, <1>1, AbsKept
  <2>4. (AbsUnit(delivered[t][k]))' = AbsUnit(d)'
    BY <2>1, <1>5, AbsAt
  <2>5. d.data[1].au \in Int
    BY <2>2, LinkFacts DEF GivenAs
  <2>6. AbsUnit(d) \in Int
    BY <2>5 DEF AbsUnit
  <2> QED BY <2>1, <2>3, <2>4, <2>6
<1>6. ASSUME NEW t \in PIDs, t # q PROVE OutOf'[t] = OutOf[t]
  <2>1. delivered'[t] = delivered[t]
    BY <1>3, <1>6
  <2> QED BY <2>1, <1>5 DEF OutOf
<1>7. OutOf'[q] = Append(OutOf[q], x)
  <2> DEFINE old == OutOf[q]
             new == OutOf'[q]
  <2>1. old = [k \in 1..n |-> AbsUnit(delivered[q][k])]
    BY <1>3 DEF OutOf
  <2>2. \A k \in 1..m : old[k] = AbsUnit(delivered[q][k]) /\ old[k] \in Int
    BY <1>3, <1>4, <2>1, <1>5
  <2>3. DOMAIN old = 1..m
    BY <2>1, <1>4
  <2>4. DOMAIN new = 1..(m + 1) /\ \A k \in 1..(m + 1) : new[k] = (AbsUnit(delivered[q][k]))'
    BY <1>3, <1>4 DEF OutOf
  <2>5. \A k \in 1..m : new[k] = old[k]
    <3> SUFFICES ASSUME NEW k \in 1..m PROVE new[k] = old[k]
      OBVIOUS
    <3>1. k \in DOMAIN delivered[q] /\ delivered'[q][k] = delivered[q][k] /\ k \in 1..(m + 1)
      BY <1>3, <1>4
    <3>2. (AbsUnit(delivered[q][k]))' = AbsUnit(delivered[q][k])
      BY <3>1, <1>5
    <3> QED BY <3>1, <3>2, <2>2, <2>4
  <2>6. new[m + 1] = x
    <3>1. e = delivered'[q][m + 1] /\ m + 1 \in 1..(m + 1)
      BY <1>3, <1>4
    <3>2. (AbsUnit(delivered[q][m + 1]))' = AbsUnit(e)'
      BY <3>1, AbsAt
    <3> QED BY <3>1, <3>2, <2>4
  <2>7. new = [k \in 1..(m + 1) |-> new[k]] /\ old = [k \in 1..m |-> old[k]]
    <3>1. new = [k \in DOMAIN new |-> new[k]]
      BY <1>2, <1>3, <1>4 DEF OutOf
    <3>2. old = [k \in DOMAIN old |-> old[k]]
      BY <2>1
    <3> QED BY <3>1, <3>2, <2>3, <2>4
  <2> HIDE DEF old, new
  <2>8. old \in Seq(Int) /\ Len(old) = m
    <3>1. PICK l \in Nat : l = m
      BY <1>3, <1>4
    <3>2. old = [k \in 1..l |-> old[k]] /\ \A k \in 1..l : old[k] \in Int
      BY <3>1, <2>2, <2>7
    <3> QED BY <3>1, <3>2
  <2>9. new \in Seq(Int) /\ Len(new) = m + 1
    <3>1. \A k \in 1..(m + 1) : k \in 1..m \/ k = m + 1
      BY <1>3, <1>4
    <3>2. \A k \in 1..(m + 1) : new[k] \in Int
      BY <3>1, <2>2, <2>5, <2>6
    <3>3. PICK l \in Nat : l = m + 1
      BY <1>3, <1>4
    <3>4. new = [k \in 1..l |-> new[k]] /\ \A k \in 1..l : new[k] \in Int
      BY <3>2, <3>3, <2>7
    <3> QED BY <3>3, <3>4
  <2>10. Append(old, x) \in Seq(Int) /\ Len(Append(old, x)) = m + 1
         /\ Append(old, x)[m + 1] = x /\ \A k \in 1..m : Append(old, x)[k] = old[k]
    BY <2>8, <1>3, <1>4
  <2>11. \A k \in 1..(m + 1) : new[k] = Append(old, x)[k]
    <3>1. \A k \in 1..(m + 1) : k \in 1..m \/ k = m + 1
      BY <1>3, <1>4
    <3> QED BY <3>1, <2>5, <2>6, <2>10
  <2>12. new = Append(old, x)
    BY <2>9, <2>10, <2>11, SeqEqual
  <2> QED BY <2>12 DEF old, new
<1>8. OutOf = [t \in PIDs |-> OutOf[t]] /\ OutOf' = [t \in PIDs |-> OutOf'[t]]
  BY DEF OutOf
<1> QED BY <1>6, <1>7, <1>8

(* What was delivered before a track is flushed is a whole unit.           *)
LEMMA WholeBefore ==
  ASSUME LinkInv, NEW q \in PIDs, \A i \in 1..flushIdx : order[i].pid # q,
         NEW k \in DOMAIN delivered[q]
  PROVE  /\ OutOf[q][k] = delivered[q][k].data[1].au
         /\ OutOf[q][k] \in Nat /\ OutOf[q][k] # 0
<1>1. PICK d : d = delivered[q][k]
  OBVIOUS
<1>2. GivenAs(d, q)
  BY <1>1 DEF LinkInv, Given
<1>3. AbsUnit(d) = d.data[1].au /\ d.data[1].au \in DOMAIN log
  BY <1>2 DEF GivenAs, AbsUnit
<1>4. OutOf[q][k] = AbsUnit(d)
  BY <1>1 DEF OutOf
<1>5. \A a \in DOMAIN log : a \in Nat /\ a # 0
  BY LinkFacts
<1> QED BY <1>1, <1>3, <1>4, <1>5

(* What the channel gave on a track is a sequence of unit numbers.         *)
LEMMA OutSeq ==
  ASSUME LinkInv, NEW q \in PIDs
  PROVE  /\ delivered[q] \in Seq(Out) /\ Len(delivered[q]) \in Nat
         /\ DOMAIN OutOf[q] = 1..Len(delivered[q])
         /\ DOMAIN delivered[q] = 1..Len(delivered[q])
         /\ OutOf[q] = << >> \/ (/\ Len(OutOf[q]) = Len(delivered[q])
                                  /\ Len(delivered[q]) \in DOMAIN delivered[q])
<1>1. delivered \in [PIDs -> Seq(Out)]
  BY DEF LinkInv, LinkTypes
<1>2. delivered[q] \in Seq(Out)
  BY <1>1
<1>3. PICK n \in Nat : n = Len(delivered[q]) /\ DOMAIN delivered[q] = 1..n
  BY <1>2
<1>4. OutOf[q] = [k \in 1..n |-> AbsUnit(delivered[q][k])]
  BY <1>3 DEF OutOf
<1>5. Len(OutOf[q]) = n /\ DOMAIN OutOf[q] = 1..n
  BY <1>4
<1>6. CASE n = 0
  <2>1. OutOf[q] = << >>
    BY <1>4, <1>6
  <2> QED BY <2>1, <1>2, <1>3, <1>5
<1>7. CASE n # 0
  <2>1. n \in 1..n
    BY <1>7
  <2> QED BY <2>1, <1>2, <1>3, <1>5
<1> QED BY <1>6, <1>7

(* A whole unit is a delivery of the channel.                              *)
LEMMA DeliverMaps ==
  ASSUME LinkInv, log' = log, Ended' = Ended, NEW q \in PIDs, NEW e \in Out,
         delivered' = [delivered EXCEPT ![q] = Append(@, e)],
         NEW a \in DOMAIN log, log[a].pid = q, e.data[1].au = a,
         IsUnit(e, a), log[a].status = "ok", e.rai = log[a].rai,
         \A i \in 1..flushIdx : order[i].pid # q,
         \A k \in DOMAIN delivered[q] : delivered[q][k].data[1].au < a
  PROVE  AUC!Next
<1>1. AbsUnit(e)' = a
  BY DEF AbsUnit, IsUnit
<1>2. a \in Int
  BY LinkFacts
<1>3. OutOf' = [OutOf EXCEPT ![q] = Append(@, a)]
  <2>1. /\ delivered'[q] = Append(delivered[q], e)
        /\ \A t \in PIDs : t # q => delivered'[t] = delivered[t]
    BY DEF LinkInv, LinkTypes
  <2> QED BY <2>1, <1>1, <1>2, OutGrows
<1>4. Accepted' = Accepted /\ Accepted[a] = q /\ a \in DOMAIN Accepted
  BY DEF Accepted
<1>5. OutOf[q] = << >> \/ (0 # OutOf[q][Len(OutOf[q])] /\ a > OutOf[q][Len(OutOf[q])])
  <2> SUFFICES ASSUME OutOf[q] # << >>
               PROVE  0 # OutOf[q][Len(OutOf[q])] /\ a > OutOf[q][Len(OutOf[q])]
    OBVIOUS
  <2>1. PICK k \in DOMAIN delivered[q] : k = Len(OutOf[q])
    BY OutSeq
  <2>2. OutOf[q][k] \in Nat /\ OutOf[q][k] # 0 /\ OutOf[q][k] < a
    BY WholeBefore
  <2> QED BY <2>1, <2>2, <1>2
<1>6. AUC!Deliver(q, a)
  BY <1>3, <1>4, <1>5 DEF AUC!Deliver, AUC!Later, Accepted, OutOf, Ended
<1> QED BY <1>4, <1>6 DEF AUC!Next, Accepted

(* A unit cut short by the end of the input is a cut of the channel.       *)
LEMMA CutMaps ==
  ASSUME LinkInv, log' = log, Ended, Ended', NEW q \in PIDs, NEW e \in Out,
         delivered' = [delivered EXCEPT ![q] = Append(@, e)],
         AbsUnit(e)' = 0, \A i \in 1..flushIdx : order[i].pid # q
  PROVE  AUC!Next
<1>1. OutOf' = [OutOf EXCEPT ![q] = Append(@, 0)]
  <2>1. /\ delivered'[q] = Append(delivered[q], e)
        /\ \A t \in PIDs : t # q => delivered'[t] = delivered[t]
    BY DEF LinkInv, LinkTypes
  <2>2. 0 \in Int
    OBVIOUS
  <2> QED BY <2>1, <2>2, OutGrows
<1>2. Accepted' = Accepted
  BY DEF Accepted
<1>3. DOMAIN OutOf[q] = DOMAIN delivered[q]
  BY OutSeq
<1>4. 0 \notin {OutOf[q][k] : k \in DOMAIN OutOf[q]}
  BY <1>3, WholeBefore
<1>5. AUC!DeliverCut(q)
  BY <1>1, <1>2, <1>4 DEF AUC!DeliverCut, Accepted, OutOf, Ended
<1> QED BY <1>5 DEF AUC!Next

(* A step that neither accepts, delivers nor ends.                         *)
LEMMA Stutters ==
  ASSUME LinkInv, log' = log, delivered' = delivered, Ended' = Ended
  PROVE  UNCHANGED AUC!avars
<1>1. log \in Seq(WrittenUnit) /\ LogGrows
  BY LinkFacts, LogSame
<1>2. OutOf' = OutOf
  BY <1>1, OutKept
<1> QED BY <1>2 DEF AUC!avars, OutOf, Ended

(* The writer: a call of WriteAccessUnit is accepted, or nothing is seen.  *)
LEMMA WriteMaps ==
  ASSUME LinkInv, LinkInv', Write
  PROVE  AUC!Next \/ UNCHANGED AUC!avars
<1>1. WriterNext /\ delivered' = delivered /\ phase' = phase
  BY DEF Write, rvars
<1>2. WriterMoves /\ LogGrows
  BY <1>1, WriterStep DEF LinkInv, WriterMoves
<1>3. pc # "closed"
  BY <1>1 DEF WriterNext, NewWriter, WriteAccessUnit, WritePAT, WritePMT, WritePESPacket,
              Close
<1>4. OutOf' = OutOf /\ Ended' = Ended
  BY <1>1, <1>2, <1>3, OutKept DEF Ended
<1>5. PICK n \in Nat : n = Len(log) /\ DOMAIN log = 1..n
  BY LinkFacts
<1>6. /\ \A a \in 1..n : a \in DOMAIN log' /\ log'[a].pid = log[a].pid
      /\ DOMAIN log' = 1..Len(log')
  BY <1>2, <1>5 DEF LogGrows, SameUnit
<1>7. CASE Len(log') = n
  <2>1. Accepted' = Accepted
    BY <1>5, <1>6, <1>7 DEF Accepted
  <2> QED BY <2>1, <1>4 DEF AUC!avars, Accepted, OutOf, Ended
<1>8. CASE Len(log') = n + 1 /\ Writing'
  <2>1. PICK q : q = log'[n + 1].pid
    OBVIOUS
  <2>2. \A a \in DOMAIN log' : log'[a].pid \in PIDs
    <3>1. pc' # "new"
      BY <1>8 DEF Writing
    <3>2. tracks' \in Options /\ LogPids'
      BY <3>1 DEF LinkInv, WireInv, Inv, Made
    <3> QED BY <3>2 DEF LogPids, PIDs
  <2>3. n + 1 \in 1..(n + 1) /\ n + 1 \in DOMAIN log'
    BY <1>6, <1>8
  <2>4. q \in PIDs
    BY <2>1, <2>2, <2>3
  <2>5. Accepted' = Append(Accepted, q)
    <3> DEFINE old == Accepted
               new == Accepted'
    <3>1. /\ old = [a \in 1..n |-> log[a].pid]
          /\ new = [a \in 1..(n + 1) |-> log'[a].pid]
      BY <1>5, <1>6, <1>8 DEF Accepted
    <3>2. /\ old = [a \in 1..n |-> old[a]] /\ \A a \in 1..n : old[a] \in PIDs
      <4>1. \A a \in 1..n : log[a].pid \in PIDs
        BY <1>6, <2>2
      <4> QED BY <4>1, <3>1
    <3>3. \A a \in 1..n : new[a] = old[a] /\ a \in 1..(n + 1)
      BY <3>1, <1>6
    <3>4. new[n + 1] = q
      BY <3>1, <2>1, <2>3
    <3>5. PICK l \in Nat : l = n + 1
      OBVIOUS
    <3>6. new = [a \in 1..l |-> new[a]] /\ \A a \in 1..l : new[a] \in PIDs
      BY <3>1, <3>5, <2>2, <1>6, <1>8
    <3> HIDE DEF old, new
    <3>7. old \in Seq(PIDs) /\ Len(old) = n
      BY <3>2
    <3>8. new \in Seq(PIDs) /\ Len(new) = n + 1
      BY <3>5, <3>6
    <3>9. Append(old, q) \in Seq(PIDs) /\ Len(Append(old, q)) = n + 1
          /\ Append(old, q)[n + 1] = q /\ \A k \in 1..n : Append(old, q)[k] = old[k]
      BY <3>7, <2>4
    <3>10. \A k \in 1..(n + 1) : new[k] = Append(old, q)[k]
      <4>1. \A k \in 1..(n + 1) : k \in 1..n \/ k = n + 1
        OBVIOUS
      <4> QED BY <4>1, <3>3, <3>4, <3>9
    <3>11. new = Append(old, q)
      BY <3>8, <3>9, <3>10, SeqEqual
    <3> QED BY <3>11 DEF old, new
  <2>6. AUC!Accept(q)
    BY <2>5, <1>4 DEF AUC!Accept, Accepted, OutOf, Ended
  <2> QED BY <2>4, <2>6 DEF AUC!Next
<1> QED BY <1>2, <1>5, <1>7, <1>8 DEF WriterMoves

(* The reader: nothing is seen, or the unit of a track is given out.       *)
LEMMA ReceiveMaps ==
  ASSUME LinkInv, GapsShort, NEW stay \in BOOLEAN, Receive(stay)
  PROVE  AUC!Next \/ UNCHANGED AUC!avars
<1>1. Arrives /\ Record(FALSE) /\ ReadPacket(First)
  BY ReceiveIs
<1>2. log' = log
  BY <1>1, ArrivesFacts
<1>3. ASSUME delivered' = delivered, phase \in {"pat", "pmt", "read"},
             phase' \in {"pat", "pmt", "read"}
      PROVE  UNCHANGED AUC!avars
  BY <1>2, <1>3, Stutters DEF Ended
<1>4. CASE ReadPATPacket(First) \/ ReadPMTPacket(First) \/ SkipPacketInTables(First)
  BY <1>1, <1>3, <1>4, TablesKeep
<1>5. CASE SkipPacket(First)
  BY <1>1, <1>3, <1>5, OthersKeep
<1>6. CASE ReadESPacket(First)
  <2>1. /\ IsES(First) /\ phase = "read" /\ phase' = phase
    BY <1>1, <1>6, ESCases
  <2>2. PICK i \in DOMAIN order, u \in Stream(PIDs) :
              order[i].pid = First.pid /\ Handled(order[i], u)
    BY <1>1, <1>6, ESCases
  <2>3. CASE delivered' = delivered
    BY <2>1, <2>3, <1>3
  <2>4. CASE delivered' # delivered
    <3>1. PICK s : s = order[i]
      OBVIOUS
    <3>2. /\ s.collecting /\ ~again /\ burst[s.pid] = 0 /\ First.start
          /\ delivered' = [delivered EXCEPT ![s.pid] = Append(@, Collection(s, FALSE))]
      BY <2>2, <2>4, <3>1 DEF Handled, Started, Repeated, WentOn
    <3>3. PICK q : q = s.pid
      OBVIOUS
    <3>4. PICK e : e = Collection(s, FALSE)
      OBVIOUS
    <3>5. PICK a : a = s.mem[s.cur][1].au
      OBVIOUS
    <3>6. s \in Stream(PIDs) /\ q \in PIDs
      BY <3>1, <3>3, TrackPids
    <3>7. e \in Out /\ e.data[1].au = a /\ e.rai = s.rai
      BY <3>4, <3>5, <3>6, CollectionTypes DEF Collection
    <3>8. /\ a \in DOMAIN log /\ log[a].pid = q /\ IsUnit(e, a) /\ log[a].status = "ok"
          /\ e.rai = log[a].rai
      <4>1. Due(s, FALSE, e, a)
        BY <3>1, <3>2, <3>4, <3>5, <1>1 DEF Arrives, Due
      <4>2. WholeUnit(s, e, a)
        BY <4>1, CollectedWhole
      <4> QED BY <4>2, <3>3, <3>7 DEF WholeUnit
    <3>9. \A k \in DOMAIN delivered[q] : delivered[q][k].data[1].au < a
      BY <3>1, <3>2, <3>3, <3>5 DEF LinkInv, Collected, Holds
    <3>10. \A j \in 1..flushIdx : order[j].pid # q
      <4>1. flushIdx = 0
        BY <2>1 DEF LinkInv, TablesRead
      <4> QED BY <4>1
    <3>11. Ended' = Ended
      BY <2>1 DEF Ended
    <3> QED BY <3>2, <3>3, <3>4, <3>6, <3>7, <3>8, <3>9, <3>10, <3>11, <1>2, DeliverMaps
  <2> QED BY <2>3, <2>4
<1> QED BY <1>1, <1>4, <1>5, <1>6 DEF ReadPacket

(* The flush of a track.                                                   *)
LEMMA FlushMaps ==
  ASSUME LinkInv, FlushStream
  PROVE  AUC!Next \/ UNCHANGED AUC!avars
<1>1. /\ phase = "flush" /\ phase' = "flush" /\ pc = "closed" /\ ~UnderWay /\ ~again
      /\ flushIdx + 1 \in DOMAIN order /\ UNCHANGED <<asm, wvars, cvars>>
  BY FlushCases
<1>2. PICK i \in DOMAIN order : i = flushIdx + 1
  BY <1>1
<1>3. PICK s : s = order[i]
  OBVIOUS
<1>4. PICK cut : cut = (burst[s.pid] > 0)
  OBVIOUS
<1>5. IF s.collecting
      THEN delivered' = [delivered EXCEPT ![s.pid] = Append(@, Collection(s, cut))]
      ELSE delivered' = delivered
  BY <1>2, <1>3, <1>4, FlushCases
<1>6. log' = log /\ Ended /\ Ended'
  BY <1>1 DEF wvars, Ended
<1>7. CASE ~s.collecting
  BY <1>5, <1>6, <1>7, Stutters
<1>8. CASE s.collecting
  <2>1. PICK q : q = s.pid
    OBVIOUS
  <2>2. PICK e : e = Collection(s, cut)
    OBVIOUS
  <2>3. PICK a : a = s.mem[s.cur][1].au
    OBVIOUS
  <2>4. s \in Stream(PIDs) /\ q \in PIDs /\ cut \in BOOLEAN
    BY <1>2, <1>3, <1>4, <2>1, TrackPids
  <2>5. e \in Out /\ e.data[1].au = a /\ e.rai = s.rai /\ e.cut = cut
    BY <2>2, <2>3, <2>4, CollectionTypes DEF Collection
  <2>6. \A j \in 1..flushIdx : order[j].pid # q
    <3>1. \A j \in 1..flushIdx : j \in DOMAIN order /\ j # i
      BY <1>2, LinkFacts
    <3> QED BY <3>1, <1>2, <1>3, <2>1, TrackPids
  <2>7. \A k \in DOMAIN delivered[q] : delivered[q][k].data[1].au < a
    BY <1>3, <1>8, <2>1, <2>3 DEF LinkInv, Collected, Holds
  <2>8. delivered' = [delivered EXCEPT ![q] = Append(@, e)]
    BY <1>5, <1>8, <2>1, <2>2
  <2>9. a \in DOMAIN log /\ log[a].pid = q /\ e.rai = log[a].rai
    BY <1>3, <1>8, <2>1, <2>3, <2>5 DEF LinkInv, Collected, Holds, PartOf
  <2>10. CASE IsUnit(e, a) /\ log[a].status = "ok"
    BY <2>10, <2>4, <2>5, <2>6, <2>7, <2>8, <2>9, <1>6, DeliverMaps
  <2>11. CASE ~(IsUnit(e, a) /\ log[a].status = "ok")
    <3>1. burst[s.pid] # 0
      <4> SUFFICES ASSUME burst[s.pid] = 0 PROVE FALSE
        OBVIOUS
      <4>1. IsUnit(e, a) /\ log[a].status = "ok"
        <5>1. Due(s, cut, e, a)
          BY <1>1, <1>2, <1>3, <1>8, <2>2, <2>3 DEF Due
        <5>2. WholeUnit(s, e, a)
          BY <5>1, CollectedWhole
        <5> QED BY <5>2 DEF WholeUnit
      <4> QED BY <4>1, <2>11
    <3>2. burst[s.pid] \in Nat
      BY <2>1, <2>4 DEF LinkInv, LinkTypes
    <3>3. \A x \in Nat : x # 0 => x > 0
      OBVIOUS
    <3>4. cut
      BY <3>1, <3>2, <3>3, <1>4
    <3>5. AbsUnit(e)' = 0
      <4>1. ~(IsUnit(e, a)' /\ log'[a].status = "ok")
        BY <2>11, <1>6 DEF IsUnit
      <4> QED BY <4>1, <3>4, <2>5 DEF AbsUnit
    <3> QED BY <3>5, <2>4, <2>5, <2>6, <2>8, <1>6, CutMaps
  <2> QED BY <2>10, <2>11
<1> QED BY <1>7, <1>8

(* The end of the input ends the channel.                                  *)
LEMMA EndMaps ==
  ASSUME LinkInv, EndOfInput
  PROVE  AUC!Next
<1>1. /\ phase \in {"pat", "pmt", "read"} /\ phase' \in {"flush", "failed"}
      /\ log' = log /\ delivered' = delivered
  BY DEF EndOfInput, ReadEOF, wvars
<1>2. ~Ended /\ Ended' = TRUE /\ Accepted' = Accepted
  BY <1>1 DEF Ended, Accepted
<1>3. OutOf' = OutOf
  BY <1>1, OutKept, LinkFacts, LogSame
<1>4. AUC!End
  BY <1>2, <1>3 DEF AUC!End, Accepted, OutOf, Ended
<1> QED BY <1>4 DEF AUC!Next

(* Every step of the pair is a step of the channel or none.                *)
LEMMA StepMaps ==
  ASSUME LinkInv, LinkInv', GapsShort, [Next]_vars
  PROVE  [AUC!Next]_AUC!avars
<1>1. CASE Write
  BY <1>1, WriteMaps
<1>2. CASE Lose \/ Refused
  <2>1. log' = log /\ delivered' = delivered /\ phase' = phase
    BY <1>2 DEF Lose, Refused, Gone, wvars, rvars
  <2> QED BY <2>1, Stutters DEF Ended
<1>3. ASSUME NEW stay \in BOOLEAN, Receive(stay) PROVE [AUC!Next]_AUC!avars
  BY <1>3, ReceiveMaps
<1>4. CASE EndOfInput
  BY <1>4, EndMaps
<1>5. CASE FlushStream
  BY <1>5, FlushMaps
<1>6. CASE EndOfFlush
  <2>1. log' = log /\ delivered' = delivered /\ phase = "flush" /\ phase' = "eof"
    BY <1>6 DEF EndOfFlush, ReportEOF, wvars
  <2> QED BY <2>1, Stutters DEF Ended
<1>7. CASE UNCHANGED vars
  <2>1. log' = log /\ delivered' = delivered /\ phase' = phase
    BY <1>7 DEF vars, wvars, rvars
  <2> QED BY <2>1, Stutters DEF Ended
<1> QED BY <1>1, <1>2, <1>3, <1>4, <1>5, <1>6, <1>7 DEF Next, ReaderStep

(* The channel begins with nothing accepted and nothing given.             *)
LEMMA InitMaps ==
  ASSUME Init
  PROVE  AUC!Init
<1>1. log = << >> /\ phase = "pat" /\ delivered = [p \in PIDs |-> << >>]
  BY DEF Init, WriterInit, ReaderInit
<1>2. Accepted = << >>
  BY <1>1 DEF Accepted
<1>3. OutOf = [t \in PIDs |-> << >>]
  BY <1>1 DEF OutOf
<1>4. Ended = FALSE
  BY <1>1 DEF Ended
<1> QED BY <1>2, <1>3, <1>4 DEF AUC!Init, Accepted, OutOf, Ended

(* While no gap on a PID spans a cycle of the counter the pair implements  *)
(* the channel, whatever the number of refused packets.                    *)
LEMMA ChannelWhileShort == Spec /\ []GapsShort => ImplementsChannel
<1>1. Init => AUC!Init
  BY InitMaps
<1>2. LinkInv /\ LinkInv' /\ GapsShort /\ [Next]_vars => [AUC!Next]_AUC!avars
  BY StepMaps
<1>3. Spec /\ []GapsShort => []LinkInv
  BY LinkAlways
<1> QED BY <1>1, <1>2, <1>3, PTL DEF Spec, ImplementsChannel, AUC!Spec

-----------------------------------------------------------------------------
(* Gaps stay short when few calls of dst.Write fail: the refused packets   *)
(* are counted, all of them and those that are gone.                       *)
Refusals == {k \in DOMAIN wire : ~wire[k].ok}

RefusalsGone == {k \in 1..pos : ~wire[k].ok}

GapsCounted ==
  /\ Inv
  /\ pos \in 0..Len(wire) /\ burst \in [PIDs -> Nat]
  /\ Cardinality(Refusals) <= failures
  /\ \A t \in PIDs : burst[t] <= MaxBurst + Cardinality(RefusalsGone)

(* A call of dst.Write makes one more packet, refused or not.              *)
LEMMA FailuresCounted ==
  ASSUME [WriterNext]_wvars
  PROVE  \/ wire' = wire /\ failures' = failures
         \/ \E p : /\ wire' = Append(wire, p)
                   /\ p.ok => failures' = failures
                   /\ ~p.ok => failures' = failures + 1
<1>1. CASE \E opts \in Options : NewWriter(opts)
  BY <1>1 DEF NewWriter
<1>2. CASE \E i \in DOMAIN tracks :
             /\ Len(log) < Len(Calls[tracks])
             /\ \E in \in Calls[tracks][Len(log) + 1] :
                  LET dts == LastDTS + in.step
                  IN WriteAccessUnit(i, in.len, dts, dts + in.reorder,
                                     in.aud, in.rai)
  BY <1>2 DEF WriteAccessUnit
<1>3. ASSUME NEW ok \in BOOLEAN, WritePAT(ok) \/ WritePMT(ok) \/ WritePESPacket(ok)
      PROVE  \E p : /\ wire' = Append(wire, p)
                    /\ p.ok => failures' = failures
                    /\ ~p.ok => failures' = failures + 1
  <2>1. PICK p : p.ok = ok /\ wire' = Append(wire, p)
    <3>1. CASE WritePAT(ok)
      BY <3>1 DEF WritePAT, SectionPacket
    <3>2. CASE WritePMT(ok)
      BY <3>2 DEF WritePMT, SectionPacket
    <3>3. CASE WritePESPacket(ok)
      BY <3>3 DEF WritePESPacket, PESPacket
    <3> QED BY <3>1, <3>2, <3>3, <1>3
  <2>2. (ok => failures' = failures) /\ (~ok => failures' = failures + 1)
    BY <1>3 DEF WritePAT, WritePMT, WritePESPacket, Fail
  <2> QED BY <2>1, <2>2
<1>4. CASE Close
  BY <1>4 DEF Close
<1>5. CASE UNCHANGED wvars
  BY <1>5 DEF wvars
<1> QED BY <1>1, <1>2, <1>3, <1>4, <1>5 DEF WriterNext

(* The refused packets are finitely many, those that are gone among them.  *)
LEMMA RefusalsFinite ==
  ASSUME Inv, pos \in 0..Len(wire)
  PROVE  /\ wire \in Seq(Packet) /\ Len(wire) \in Nat /\ DOMAIN wire = 1..Len(wire)
         /\ IsFiniteSet(Refusals) /\ Cardinality(Refusals) \in Nat
         /\ IsFiniteSet(RefusalsGone) /\ Cardinality(RefusalsGone) \in Nat
         /\ Cardinality(RefusalsGone) <= Cardinality(Refusals)
<1>1. wire \in Seq(Packet)
  BY DEF Inv, TypeOK
<1>2. Len(wire) \in Nat /\ DOMAIN wire = 1..Len(wire)
  BY <1>1
<1>3. IsFiniteSet(1..Len(wire))
  BY <1>2, FS_Interval
<1>4. Refusals \in SUBSET (1..Len(wire))
  BY <1>2 DEF Refusals
<1>5. IsFiniteSet(Refusals)
  BY <1>3, <1>4, FS_Subset
<1>6. RefusalsGone \in SUBSET Refusals
  BY <1>2 DEF Refusals, RefusalsGone
<1>7. IsFiniteSet(RefusalsGone) /\ Cardinality(RefusalsGone) <= Cardinality(Refusals)
  BY <1>5, <1>6, FS_Subset
<1> QED BY <1>1, <1>2, <1>5, <1>7, FS_CardinalityType

(* The writer counts the packets dst.Write refuses.                        *)
LEMMA WriterCounted ==
  ASSUME GapsCounted, [WriterNext]_wvars, pos' = pos, burst' = burst
  PROVE  GapsCounted'
<1>1. Inv'
  BY NextInv DEF GapsCounted
<1>2. /\ wire \in Seq(Packet) /\ Len(wire) \in Nat /\ DOMAIN wire = 1..Len(wire)
      /\ IsFiniteSet(Refusals) /\ Cardinality(Refusals) \in Nat /\ pos \in 0..Len(wire)
  BY RefusalsFinite DEF GapsCounted
<1>3. failures \in Nat /\ Cardinality(Refusals) <= failures
  BY MaxFailuresAssumption DEF GapsCounted, Inv, TypeOK
<1>4. CASE wire' = wire /\ failures' = failures
  BY <1>1, <1>4 DEF GapsCounted, Refusals, RefusalsGone
<1>5. ASSUME NEW p, wire' = Append(wire, p), p.ok => failures' = failures,
             ~p.ok => failures' = failures + 1
      PROVE  GapsCounted'
  <2> DEFINE n == Len(wire) + 1
  <2>0. wire' \in Seq(Packet)
    BY <1>1 DEF Inv, TypeOK
  <2>1. /\ DOMAIN wire' = 1..n /\ Len(wire') = n /\ wire'[n] = p
        /\ \A k \in 1..Len(wire) : wire'[k] = wire[k]
    BY <1>2, <1>5, <2>0
  <2>2. RefusalsGone' = RefusalsGone
    <3>1. 1..pos \subseteq 1..Len(wire)
      BY <1>2
    <3> QED BY <3>1, <2>1 DEF RefusalsGone
  <2>3. \A k \in 1..n : k \in 1..Len(wire) \/ k = n
    BY <1>2
  <2>4. n \in 1..n /\ n \notin 1..Len(wire) /\ \A k \in 1..Len(wire) : k \in 1..n
    BY <1>2
  <2>5. Refusals' = IF p.ok THEN Refusals ELSE Refusals \cup {n}
    <3> HIDE DEF n
    <3> QED BY <1>2, <2>1, <2>3, <2>4 DEF Refusals
  <2>6. Cardinality(Refusals') <= failures'
    <3>1. CASE p.ok
      BY <3>1, <2>5, <1>3, <1>5
    <3>2. CASE ~p.ok
      <4>1. n \notin Refusals
        BY <1>2, <2>4 DEF Refusals
      <4> HIDE DEF n
      <4>2. Cardinality(Refusals \cup {n}) = Cardinality(Refusals) + 1
        BY <4>1, <1>2, FS_AddElement
      <4> QED BY <4>2, <3>2, <2>5, <1>2, <1>3, <1>5
    <3> QED BY <3>1, <3>2
  <2>7. pos' \in 0..Len(wire')
    BY <1>2, <2>1
  <2>8. Cardinality(RefusalsGone)' = Cardinality(RefusalsGone)
    BY <2>2
  <2>9. Cardinality(Refusals)' <= failures'
    BY <2>6
  <2> QED BY <1>1, <2>7, <2>8, <2>9 DEF GapsCounted
<1> QED BY <1>4, <1>5, FailuresCounted

(* A packet leaves the transport: only a refused one lengthens a long gap. *)
LEMMA GoneCounted ==
  ASSUME GapsCounted, UNCHANGED wvars, UnderWay, pos' = pos + 1,
         burst' \in [PIDs -> Nat],
         \A t \in PIDs : \/ burst'[t] <= burst[t]
                         \/ burst'[t] <= MaxBurst
                         \/ burst'[t] = burst[t] + 1 /\ ~First.ok
  PROVE  GapsCounted'
<1>1. Inv' /\ wire' = wire /\ failures' = failures
  BY NextInv DEF GapsCounted, wvars
<1>2. /\ Len(wire) \in Nat /\ DOMAIN wire = 1..Len(wire) /\ pos \in 0..Len(wire)
      /\ IsFiniteSet(RefusalsGone) /\ Cardinality(RefusalsGone) \in Nat
  BY RefusalsFinite DEF GapsCounted
<1>3. pos' \in 0..Len(wire') /\ pos \in Nat
  BY <1>1, <1>2 DEF UnderWay
<1> DEFINE n == pos + 1
<1>4. n \notin 1..pos /\ 1..n = 1..pos \cup {n}
  BY <1>3
<1>5. RefusalsGone' = IF First.ok THEN RefusalsGone ELSE RefusalsGone \cup {n}
  <2>1. First = wire[n]
    BY DEF First
  <2> HIDE DEF n
  <2> QED BY <1>1, <1>4, <2>1 DEF RefusalsGone, n
<1>6. n \notin RefusalsGone
  BY <1>4 DEF RefusalsGone
<1> HIDE DEF n
<1>7. Cardinality(RefusalsGone \cup {n}) = Cardinality(RefusalsGone) + 1
  BY <1>2, <1>6, FS_AddElement
<1>8. /\ Cardinality(RefusalsGone)' \in Nat
      /\ Cardinality(RefusalsGone) <= Cardinality(RefusalsGone)'
      /\ ~First.ok => Cardinality(RefusalsGone)' = Cardinality(RefusalsGone) + 1
  BY <1>2, <1>5, <1>7
<1>9. ASSUME NEW t \in PIDs
      PROVE  burst'[t] <= MaxBurst + Cardinality(RefusalsGone)'
  <2>1. burst[t] \in Nat /\ burst'[t] \in Nat /\ MaxBurst \in Nat
        /\ burst[t] <= MaxBurst + Cardinality(RefusalsGone)
    BY MaxBurstAssumption DEF GapsCounted
  <2>2. \/ burst'[t] <= burst[t]
        \/ burst'[t] <= MaxBurst
        \/ burst'[t] = burst[t] + 1 /\ ~First.ok
    OBVIOUS
  <2> QED BY <2>1, <2>2, <1>2, <1>8
<1>10. Cardinality(Refusals)' <= failures'
  BY <1>1 DEF GapsCounted, Refusals
<1> QED BY <1>1, <1>3, <1>9, <1>10 DEF GapsCounted

(* A count per PID, one of them raised.                                    *)
LEMMA OneMoreGone ==
  ASSUME NEW P, NEW f \in [P -> Nat], NEW q
  PROVE  [f EXCEPT ![q] = @ + 1] \in [P -> Nat]
<1>1. \A t \in P : f[t] + 1 \in Nat
  OBVIOUS
<1>2. PICK g : g = [f EXCEPT ![q] = @ + 1]
  OBVIOUS
<1>3. \A t \in P : g[t] = f[t] \/ g[t] = f[t] + 1
  BY <1>2
<1>4. \A t \in P : g[t] \in Nat
  BY <1>1, <1>3
<1>5. g = [t \in P |-> g[t]]
  BY <1>2
<1> QED BY <1>2, <1>4, <1>5

(* Every step keeps the count.                                             *)
LEMMA GapsNext ==
  ASSUME GapsCounted, [Next]_vars
  PROVE  GapsCounted'
<1>0. burst \in [PIDs -> Nat] /\ MaxBurst \in Nat
  BY MaxBurstAssumption DEF GapsCounted
<1>1. CASE Write
  BY <1>1, WriterCounted DEF Write, cvars
<1>2. CASE Lose
  <2>1. /\ UnderWay /\ UNCHANGED wvars /\ pos' = pos + 1 /\ burst[First.pid] < MaxBurst
        /\ burst' = [burst EXCEPT ![First.pid] = @ + 1]
    BY <1>2 DEF Lose, Gone
  <2>2. burst' \in [PIDs -> Nat]
    BY <2>1, <1>0, OneMoreGone
  <2>3. ASSUME NEW t \in PIDs
        PROVE  burst'[t] <= burst[t] \/ burst'[t] <= MaxBurst
    <3>1. burst[t] \in Nat
      BY <1>0
    <3>2. CASE t = First.pid
      BY <3>1, <3>2, <2>1, <1>0
    <3>3. CASE t # First.pid
      BY <3>1, <3>3, <2>1, <1>0
    <3> QED BY <3>2, <3>3
  <2> QED BY <2>1, <2>2, <2>3, GoneCounted
<1>3. CASE Refused
  <2>1. /\ UnderWay /\ UNCHANGED wvars /\ pos' = pos + 1 /\ ~First.ok
        /\ burst' = [burst EXCEPT ![First.pid] = @ + 1]
    BY <1>3 DEF Refused, Gone
  <2>2. burst' \in [PIDs -> Nat]
    BY <2>1, <1>0, OneMoreGone
  <2>3. ASSUME NEW t \in PIDs
        PROVE  burst'[t] <= burst[t] \/ (burst'[t] = burst[t] + 1 /\ ~First.ok)
    <3>1. burst[t] \in Nat
      BY <1>0
    <3> QED BY <3>1, <2>1, <1>0
  <2> QED BY <2>1, <2>2, <2>3, GoneCounted
<1>4. ASSUME NEW stay \in BOOLEAN, Receive(stay) PROVE GapsCounted'
  <2>1. /\ UnderWay /\ UNCHANGED wvars /\ (pos' = pos \/ pos' = pos + 1)
        /\ burst' = [burst EXCEPT ![First.pid] = 0]
    BY <1>4 DEF Receive
  <2>2. burst' \in [PIDs -> Nat]
    BY <2>1, <1>0
  <2>3. \A t \in PIDs : burst'[t] <= burst[t]
    <3> SUFFICES ASSUME NEW t \in PIDs PROVE burst'[t] <= burst[t]
      OBVIOUS
    <3>1. burst[t] \in Nat
      BY <1>0
    <3> QED BY <3>1, <2>1, <1>0
  <2>4. CASE pos' = pos + 1
    BY <2>1, <2>2, <2>3, <2>4, GoneCounted
  <2>5. CASE pos' = pos
    <3>1. Inv' /\ wire' = wire /\ failures' = failures
      BY <2>1, NextInv DEF GapsCounted, wvars
    <3>2. Cardinality(RefusalsGone)' = Cardinality(RefusalsGone)
          /\ Cardinality(Refusals)' = Cardinality(Refusals)
      BY <3>1, <2>5 DEF RefusalsGone, Refusals
    <3>3. ASSUME NEW t \in PIDs PROVE burst'[t] <= MaxBurst + Cardinality(RefusalsGone)
      <4>1. burst[t] \in Nat /\ burst'[t] \in Nat /\ burst'[t] <= burst[t]
            /\ burst[t] <= MaxBurst + Cardinality(RefusalsGone)
            /\ Cardinality(RefusalsGone) \in Nat
        BY <1>0, <2>2, <2>3, RefusalsFinite DEF GapsCounted
      <4> QED BY <4>1, <1>0
    <3> QED BY <3>1, <3>2, <3>3, <2>2, <2>5 DEF GapsCounted
  <2> QED BY <2>1, <2>4, <2>5
<1>5. CASE EndOfInput \/ FlushStream \/ EndOfFlush \/ UNCHANGED vars
  <2>1. UNCHANGED wvars /\ pos' = pos /\ burst' = burst
    BY <1>5 DEF EndOfInput, FlushStream, EndOfFlush, vars, cvars
  <2> QED BY <2>1, WriterCounted
<1> QED BY <1>1, <1>2, <1>3, <1>4, <1>5 DEF Next, ReaderStep

(* Nothing is lost or refused at first.                                    *)
LEMMA GapsInit ==
  ASSUME Init
  PROVE  GapsCounted
<1>1. WriterInit /\ pos = 0 /\ burst = [p \in PIDs |-> 0] /\ wire = << >> /\ failures = 0
  BY DEF Init, WriterInit
<1>2. Inv
  BY <1>1, InitInv
<1>3. DOMAIN << >> = {} /\ Len(<< >>) = 0 /\ 1..0 = {} /\ 0 \in 0..0
  OBVIOUS
<1>4. Refusals = {} /\ RefusalsGone = {}
  BY <1>1, <1>3 DEF Refusals, RefusalsGone
<1>5. Cardinality(Refusals) = 0 /\ Cardinality(RefusalsGone) = 0
  BY <1>4, FS_EmptySet
<1>6. MaxBurst \in Nat
  BY MaxBurstAssumption
<1> QED BY <1>1, <1>2, <1>3, <1>5, <1>6 DEF GapsCounted

(* Gaps stay short when what may be lost in a row and what dst.Write may   *)
(* refuse together stay below a cycle: only those two lengthen a gap.      *)
LEMMA ShortGaps ==
  ASSUME MaxBurst + MaxFailures < CCMod
  PROVE  Spec => []GapsShort
<1>1. Init => GapsCounted
  BY GapsInit
<1>2. GapsCounted /\ [Next]_vars => GapsCounted'
  BY GapsNext
<1>3. GapsCounted => GapsShort
  <2> SUFFICES ASSUME GapsCounted, NEW t \in PIDs PROVE burst[t] < CCMod
    BY DEF GapsShort
  <2>1. burst[t] \in Nat /\ burst[t] <= MaxBurst + Cardinality(RefusalsGone)
        /\ Cardinality(Refusals) <= failures /\ failures \in 0..MaxFailures
    BY DEF GapsCounted, Inv, TypeOK
  <2>2. Cardinality(RefusalsGone) \in Nat /\ Cardinality(Refusals) \in Nat
        /\ Cardinality(RefusalsGone) <= Cardinality(Refusals)
    BY RefusalsFinite DEF GapsCounted
  <2> QED BY <2>1, <2>2, MaxBurstAssumption, MaxFailuresAssumption, CCModAssumption
<1> QED BY <1>1, <1>2, <1>3, PTL DEF Spec

-----------------------------------------------------------------------------
(* Time stamps.  A value is a multiple of the cycle and its remainder.     *)
LEMMA DivMod ==
  ASSUME NEW a \in Int
  PROVE  \E q \in Int, r \in Int :
           0 <= r /\ r < Wrap /\ a = q * Wrap + r /\ r = a % Wrap
BY WrapAssumption

(* The remainder is the only one in range.                                 *)
LEMMA ModUnique ==
  ASSUME NEW q \in Int, NEW r \in Int, 0 <= r, r < Wrap
  PROVE  (q * Wrap + r) % Wrap = r
BY WrapAssumption

(* A multiple of the cycle does not change what masking leaves of a stamp. *)
LEMMA ModShift ==
  ASSUME NEW a \in Int, NEW b \in Int, b % Wrap = 0
  PROVE  (a + b) % Wrap = a % Wrap
<1>1. PICK q \in Int, r \in Int :
        0 <= r /\ r < Wrap /\ a = q * Wrap + r /\ r = a % Wrap
  BY DivMod
<1>2. PICK k \in Int, s \in Int : b = k * Wrap + s /\ s = b % Wrap
  BY DivMod
<1>3. a + b = (q + k) * Wrap + r
  BY <1>1, <1>2, WrapAssumption
<1>4. ((q + k) * Wrap + r) % Wrap = r
  BY <1>1, ModUnique, q + k \in Int
<1> QED BY <1>1, <1>3, <1>4

(* What masking takes away is a multiple of the cycle.                     *)
LEMMA MaskedOff ==
  ASSUME NEW a \in Int
  PROVE  /\ a % Wrap \in Int /\ a % Wrap >= 0 /\ (a % Wrap) - a \in Int
         /\ ((a % Wrap) - a) % Wrap = 0
<1>1. PICK q \in Int, r \in Int :
        0 <= r /\ r < Wrap /\ a = q * Wrap + r /\ r = a % Wrap
  BY DivMod
<1>2. (a % Wrap) - a = (0 - q) * Wrap + 0
  BY <1>1, WrapAssumption
<1>3. ((0 - q) * Wrap + 0) % Wrap = 0
  BY ModUnique, 0 - q \in Int, WrapAssumption
<1> QED BY <1>1, <1>2, <1>3

(* extendTimestamp recovers a value from its 33 bits and any reference     *)
(* that is less than half a cycle away.                                    *)
LEMMA Extend ==
  ASSUME NEW ref \in Int, ref >= 0,
         NEW x \in Int, ref - Half < x, x < ref + Half
  PROVE  extendTimestamp(ref, x % Wrap) = x
<1>h. Half \in Int /\ Wrap = 2 * Half /\ Half > 0
  BY WrapAssumption DEF Half
<1>1. PICK q \in Int, r \in Int :
        0 <= r /\ r < Wrap /\ ref = q * Wrap + r /\ r = ref % Wrap
  BY DivMod
<1>2. PICK k \in Int, s \in Int :
        0 <= s /\ s < Wrap /\ x = k * Wrap + s /\ s = x % Wrap
  BY DivMod
<1> DEFINE qw == q * Wrap
           kw == k * Wrap
<1>3. /\ qw \in Int /\ kw \in Int
      /\ ref = qw + r /\ 0 <= r /\ r < Wrap /\ r = ref % Wrap
      /\ x = kw + s /\ 0 <= s /\ s < Wrap /\ s = x % Wrap
  BY <1>1, <1>2, WrapAssumption
<1>4. k \in {q - 1, q, q + 1}
  <2>1. CASE k >= q + 2
    <3>1. kw >= qw + 2 * Wrap
      BY <2>1, WrapAssumption
    <3> QED BY <3>1, <1>3, <1>h
  <2>2. CASE k =< q - 2
    <3>1. qw >= kw + 2 * Wrap
      BY <2>2, WrapAssumption
    <3> QED BY <3>1, <1>3, <1>h
  <2> QED BY <2>1, <2>2
<1>5. kw \in {qw - Wrap, qw, qw + Wrap}
  BY <1>4, WrapAssumption
<1> HIDE DEF qw, kw
<1>6. extendTimestamp(ref, s) =
        IF qw + s < ref - Half THEN qw + s + Wrap
        ELSE IF qw + s > ref + Half THEN qw + s - Wrap
        ELSE qw + s
  <2>1. (ref - (ref % Wrap)) + s = qw + s
    BY <1>3
  <2> QED BY <2>1, <1>3, <1>h DEF extendTimestamp
<1>7. extendTimestamp(ref, s) = x
  BY <1>3, <1>5, <1>6, <1>h
<1> QED BY <1>3, <1>7

(* Two units of a recording are less than half a cycle apart.              *)
LEMMA UnitsNear ==
  ASSUME LinkInv, NEW a \in DOMAIN log, NEW b \in DOMAIN log, a <= b
  PROVE  /\ log[a].dts \in Int /\ log[b].dts \in Int /\ log[b].pts \in Int
         /\ 0 <= log[b].dts - log[a].dts /\ log[b].dts - log[a].dts < Half
         /\ -Half < log[b].pts - log[b].dts /\ log[b].pts - log[b].dts < Half
<1>1. Half \in Int /\ Half > 0
  BY WrapAssumption DEF Half
<1>2. /\ log \in Seq(WrittenUnit) /\ DOMAIN log = 1..Len(log) /\ Len(log) \in Nat
      /\ a \in Nat /\ b \in Nat /\ a >= 1 /\ b <= Len(log)
  BY LinkFacts
<1>3. log[a] \in WrittenUnit /\ log[b] \in WrittenUnit
  BY <1>2
<1>4. log[a].dts \in Int /\ log[b].dts \in Int /\ log[b].pts \in Int
  BY <1>3 DEF WrittenUnit
<1>5. LogTimes
  BY DEF LinkInv, WireInv
<1>6. -Half < log[b].pts - log[b].dts /\ log[b].pts - log[b].dts < Half
  BY <1>5 DEF LogTimes
<1>7. CASE a = b
  BY <1>1, <1>4, <1>6, <1>7
<1>8. CASE a < b
  <2> DEFINE n == Len(Calls[tracks])
             D == log[b].dts - log[a].dts
  <2>1. log # << >>
    BY <1>2
  <2>2. /\ tracks \in Options /\ Len(log) <= n
        /\ log[a].dts <= log[b].dts /\ D * n <= (b - a) * (Half - 1)
    BY <2>1, <1>5, <1>8 DEF LogTimes
  <2>3. n \in Nat
    BY <2>2, CallsAssumption
  <2>4. D \in Int /\ 0 <= D
    BY <2>2, <1>4
  <2> HIDE DEF n, D
  <2>5. b - a < n /\ b - a \in Nat /\ n > 0
    BY <2>2, <2>3, <1>2, <1>8
  <2>6. D < Half
    <3> SUFFICES ASSUME D >= Half PROVE FALSE
      BY <2>4, <1>1
    <3>1. D * n >= Half * n
      BY <2>3, <2>4, <1>1
    <3>2. (b - a) * (Half - 1) <= n * (Half - 1)
      <4>1. \A x, y, h \in Nat : x < y => x * h <= y * h
        OBVIOUS
      <4> QED BY <4>1, <2>3, <2>5, <1>1
    <3>3. Half * n = n * (Half - 1) + n
      BY <2>3, <1>1
    <3>4. D * n \in Int /\ Half * n \in Int /\ n * (Half - 1) \in Int
          /\ (b - a) * (Half - 1) \in Int
      BY <2>3, <2>4, <2>5, <1>1
    <3> QED BY <3>1, <3>2, <3>3, <3>4, <2>2, <2>3, <2>5
  <2> QED BY <2>4, <2>6, <1>4, <1>6 DEF D
<1> QED BY <1>2, <1>7, <1>8

(* A start comes after every packet seen before, and repeats only itself.  *)
LEMMA SeenNotLater ==
  ASSUME LinkInv, UnderWay, IsES(First), First.start, NEW a \in DOMAIN log, WasSeen(a)
  PROVE  a <= First.body.au
<1>1. /\ pos \in Nat /\ Len(wire) \in Nat /\ DOMAIN wire = 1..Len(wire)
      /\ Got = pos \/ Got = pos + 1
      /\ DOMAIN log = 1..Len(log)
  BY LinkFacts
<1>2. PICK j \in 1..Got : Carries(wire[j], a)
  BY DEF WasSeen
<1>3. pos + 1 \in DOMAIN wire /\ (pos + 1) - 1 = pos
  BY <1>1 DEF UnderWay
<1>4. UnitPacket(pos + 1) /\ First.body.au \in Nat
  BY <1>3, UnitFields DEF LinkInv, WireInv, WireTells, First
<1>5. IsES(wire[j]) /\ wire[j].body.au = a
  BY <1>2 DEF Carries, IsES
<1>6. \A k \in 1..((pos + 1) - 1) : IsES(wire[k]) => wire[k].body.au < wire[pos + 1].body.au
  BY <1>4 DEF UnitPacket, First
<1>7. CASE j \in 1..pos
  <2>1. a < First.body.au
    BY <1>3, <1>5, <1>6, <1>7 DEF First
  <2> QED BY <2>1, <1>4, LinkFacts
<1>8. CASE j = pos + 1
  BY <1>4, <1>5, <1>8 DEF First
<1>9. j \in 1..pos \/ j = pos + 1
  BY <1>1
<1> QED BY <1>7, <1>8, <1>9

(* The stamps of a unit that starts: ahead by c, which is b once the track *)
(* has a reference.                                                        *)
LEMMA StartAhead ==
  ASSUME LinkInv, Arrives, IsES(First), NEW i \in DOMAIN order, NEW s, s = order[i],
         NEW u, Started(s, u), NEW b \in Int, b % Wrap = 0, TrackAhead(s, b)
  PROVE  \E c \in Int :
           LET v == log[First.body.au]
           IN /\ c % Wrap = 0 /\ (s.lastTS >= 0 => c = b)
              /\ u.dts = v.dts + c /\ u.pts = v.pts + c
              /\ u.lastTS = v.dts + c /\ u.lastTS >= 0
<1> DEFINE n == First.body.au
           v == log[n]
           h == First.body.pes
           dts33 == IF h.ptsDTS = "both" THEN h.dts ELSE h.pts
<1>1. WireInv /\ pos + 1 \in DOMAIN wire /\ First = wire[pos + 1] /\ UnderWay
  BY ArrivesFacts DEF Arrives
<1>2. First.start /\ Begun(s, u)
  BY DEF Started
<1>3. UnitPacket(pos + 1) /\ n \in DOMAIN log
  BY <1>1, UnitFields DEF WireInv, WireTells
<1>4. h = appendPESHeader(v.pts, v.dts)
  BY <1>1, <1>2, <1>3 DEF UnitPacket
<1>5. /\ v.dts \in Int /\ v.pts \in Int
      /\ -Half < v.pts - v.dts /\ v.pts - v.dts < Half
  <2>1. n <= n
    BY <1>3, LinkFacts
  <2> QED BY <2>1, <1>3, UnitsNear
<1>6. h.pts = v.pts % Wrap /\ dts33 = v.dts % Wrap
  BY <1>4, <1>5 DEF appendPESHeader
<1>7. /\ u.dts = extendTimestamp(s.lastTS, dts33) /\ u.lastTS = u.dts
      /\ u.pts = extendTimestamp(u.dts, h.pts)
  BY <1>2 DEF Begun
<1>8. s.lastTS \in Int
  <2>1. s \in Stream(PIDs)
    BY TrackPids
  <2> QED BY <2>1 DEF Stream
<1>h. Half \in Int /\ Half > 0
  BY WrapAssumption DEF Half
<1> HIDE DEF h, dts33, v, n
<1>9. \E c \in Int : /\ c % Wrap = 0 /\ (s.lastTS >= 0 => c = b)
                     /\ u.dts = v.dts + c /\ v.dts + c >= 0
  <2>1. CASE s.lastTS < 0
    <3> DEFINE c == (v.dts % Wrap) - v.dts
    <3>1. c \in Int /\ c % Wrap = 0 /\ v.dts % Wrap \in Int /\ v.dts % Wrap >= 0
      BY <1>5, MaskedOff
    <3>2. u.dts = v.dts % Wrap
      BY <2>1, <3>1, <1>6, <1>7 DEF extendTimestamp
    <3>3. v.dts + c = v.dts % Wrap
      BY <3>1, <1>5
    <3>4. ~(s.lastTS >= 0)
      BY <2>1, <1>8
    <3> HIDE DEF c
    <3> QED BY <3>1, <3>2, <3>3, <3>4
  <2>2. CASE s.lastTS >= 0
    <3>1. PICK a \in DOMAIN log : WasSeen(a) /\ s.lastTS = log[a].dts + b
      BY <2>2 DEF TrackAhead
    <3>2. a <= n
      BY <3>1, <1>1, <1>2, SeenNotLater DEF n
    <3>3. log[a].dts \in Int /\ 0 <= v.dts - log[a].dts /\ v.dts - log[a].dts < Half
      BY <3>2, <1>3, UnitsNear DEF v
    <3> DEFINE x == v.dts + b
    <3>4. x \in Int /\ s.lastTS - Half < x /\ x < s.lastTS + Half /\ x >= 0
      BY <3>1, <3>3, <2>2, <1>5, <1>8, <1>h
    <3>5. x % Wrap = v.dts % Wrap
      BY <1>5, ModShift
    <3> HIDE DEF x
    <3>6. extendTimestamp(s.lastTS, x % Wrap) = x
      BY <3>4, <2>2, <1>8, Extend
    <3>7. u.dts = x
      BY <3>5, <3>6, <1>6, <1>7
    <3> QED BY <3>4, <3>7 DEF x
  <2> QED BY <2>1, <2>2, <1>8
<1>10. PICK c \in Int : /\ c % Wrap = 0 /\ (s.lastTS >= 0 => c = b)
                        /\ u.dts = v.dts + c /\ v.dts + c >= 0
  BY <1>9
<1>11. u.pts = v.pts + c
  <2> DEFINE x == v.pts + c
             r == v.dts + c
  <2>1. x \in Int /\ r \in Int /\ r >= 0 /\ r - Half < x /\ x < r + Half
    BY <1>5, <1>10, <1>h
  <2>2. x % Wrap = v.pts % Wrap
    BY <1>5, <1>10, ModShift
  <2>3. u.dts = r
    BY <1>10
  <2> HIDE DEF x, r
  <2>4. extendTimestamp(r, x % Wrap) = x
    BY <2>1, Extend
  <2> QED BY <2>2, <2>3, <2>4, <1>6, <1>7 DEF x
<1> QED BY <1>7, <1>10, <1>11 DEF v, n

-----------------------------------------------------------------------------
(* The packets seen and the log only grow.                                 *)
Forward ==
  /\ LogGrows /\ WireGrows
  /\ Got \in Nat /\ Got' \in Nat /\ Got <= Got' /\ Got <= Len(wire)

(* The log, the wire and the reader only move forward.                     *)
LEMMA StepForward ==
  ASSUME LinkInv, [Next]_vars
  PROVE  Forward
<1>1. Got \in Nat /\ Got <= Len(wire) /\ pos \in Nat /\ again \in BOOLEAN
  BY LinkFacts DEF LinkInv, LinkTypes
<1>2. LogGrows /\ WireGrows
  <2>1. [WriterNext]_wvars
    BY DEF Next, ReaderStep, Write, Lose, Refused, Gone, Receive, EndOfInput,
           FlushStream, EndOfFlush, vars
  <2> QED BY <2>1, WriterStep DEF LinkInv, WriterMoves
<1>3. \/ UNCHANGED <<pos, again>>
      \/ pos' = pos + 1 /\ again' = again
      \/ Arrives
  <2>1. CASE Lose \/ Refused
    BY <2>1 DEF Lose, Refused, Gone
  <2>2. ASSUME NEW stay \in BOOLEAN, Receive(stay) PROVE Arrives
    BY <2>2, ReceiveIs
  <2>3. CASE Write \/ EndOfInput \/ FlushStream \/ EndOfFlush \/ UNCHANGED vars
    BY <2>3 DEF Write, EndOfInput, FlushStream, EndOfFlush, vars, cvars
  <2> QED BY <2>1, <2>2, <2>3 DEF Next, ReaderStep
<1>4. Got' \in Nat /\ Got <= Got'
  <2>1. CASE Arrives
    <3>1. Got' = pos + 1 /\ ((~again /\ Got = pos) \/ (again /\ Got = pos + 1))
      BY <2>1, ArrivesFacts
    <3> QED BY <3>1, <1>1
  <2>2. CASE UNCHANGED <<pos, again>> \/ (pos' = pos + 1 /\ again' = again)
    BY <2>2, <1>1 DEF Got
  <2> QED BY <2>1, <2>2, <1>3
<1> QED BY <1>1, <1>2, <1>4 DEF Forward

(* The stamps of a delivered unit, while the log grows.                    *)
LEMMA UnitAheadKept ==
  ASSUME LogGrows, NEW b, NEW d, d.data[1].au \in DOMAIN log, UnitAhead(d, b)
  PROVE  UnitAhead(d, b)'
<1>1. SameUnit(log[d.data[1].au], log'[d.data[1].au])
  BY DEF LogGrows
<1> QED BY <1>1 DEF UnitAhead, SameUnit

(* The stamps of a track that is left alone.                               *)
LEMMA TrackAheadKept ==
  ASSUME Forward, NEW b, NEW s, Holds(s), TrackAhead(s, b),
         delivered'[s.pid] = delivered[s.pid]
  PROVE  TrackAhead(s, b)'
<1> DEFINE n == s.mem[s.cur][1].au
<1>1. s.lastTS < 0 => ~s.collecting /\ delivered'[s.pid] = << >>
  BY DEF TrackAhead
<1>2. ASSUME s.lastTS >= 0
      PROVE  \E a \in DOMAIN log' : WasSeen(a)' /\ s.lastTS = log'[a].dts + b
  <2>1. PICK a \in DOMAIN log : WasSeen(a) /\ s.lastTS = log[a].dts + b
    BY <1>2 DEF TrackAhead
  <2>2. WasSeen(a)'
    BY <2>1, SeenKept DEF Forward
  <2>3. a \in DOMAIN log' /\ log'[a].dts = log[a].dts
    BY DEF Forward, LogGrows, SameUnit
  <2> QED BY <2>1, <2>2, <2>3
<1>3. ASSUME s.collecting
      PROVE  s.dts = log'[n].dts + b /\ s.pts = log'[n].pts + b
  <2>1. n \in DOMAIN log
    BY <1>3 DEF Holds, PartOf
  <2>2. log'[n].dts = log[n].dts /\ log'[n].pts = log[n].pts
    BY <2>1 DEF Forward, LogGrows, SameUnit
  <2>3. s.dts = log[n].dts + b /\ s.pts = log[n].pts + b
    BY <1>3 DEF TrackAhead
  <2> QED BY <2>2, <2>3
<1> QED BY <1>1, <1>2, <1>3 DEF TrackAhead

(* Ahead, said of the units and tracks of the next state one by one.       *)
LEMMA AheadNow ==
  ASSUME NEW t, NEW b, b % Wrap = 0,
         \A k \in DOMAIN delivered'[t] : \A d : d = delivered'[t][k] => UnitAhead(d, b)',
         \A i \in DOMAIN order' : \A s :
            s = order'[i] /\ s.pid = t => TrackAhead(s, b)'
  PROVE  Ahead(t, b)'
<1>1. ASSUME NEW k \in DOMAIN delivered'[t] PROVE (UnitAhead(delivered[t][k], b))'
  <2>1. PICK d : d = delivered'[t][k]
    OBVIOUS
  <2>2. UnitAhead(d, b)'
    BY <2>1
  <2> QED BY <2>1, <2>2 DEF UnitAhead
<1>2. ASSUME NEW i \in DOMAIN order', order'[i].pid = t PROVE (TrackAhead(order[i], b))'
  <2>1. PICK s : s = order'[i]
    OBVIOUS
  <2>2. TrackAhead(s, b)'
    BY <2>1, <1>2
  <2> QED BY <2>1, <2>2 DEF TrackAhead, WasSeen
<1> QED BY <1>1, <1>2 DEF Ahead

(* The stamps of a PID whose track is left alone.                          *)
LEMMA AheadKept ==
  ASSUME LinkInv, Forward, NEW t \in PIDs, NEW b, Ahead(t, b),
         delivered'[t] = delivered[t],
         \A i \in DOMAIN order' :
            order'[i].pid = t => i \in DOMAIN order /\ order'[i] = order[i]
  PROVE  Ahead(t, b)'
<1>1. b % Wrap = 0
  BY DEF Ahead
<1>2. ASSUME NEW k \in DOMAIN delivered'[t], NEW d, d = delivered'[t][k]
      PROVE  UnitAhead(d, b)'
  <2>1. UnitAhead(d, b) /\ GivenAs(d, t)
    BY <1>2 DEF Ahead, LinkInv, Given
  <2> QED BY <2>1, UnitAheadKept DEF GivenAs, Forward
<1>3. ASSUME NEW i \in DOMAIN order', NEW s, s = order'[i], s.pid = t
      PROVE  TrackAhead(s, b)'
  <2>1. TrackAhead(s, b) /\ Holds(s)
    BY <1>3 DEF Ahead, LinkInv, Collected
  <2> QED BY <2>1, <1>3, TrackAheadKept
<1> QED BY <1>1, <1>2, <1>3, AheadNow

(* A track that has changed, and what it may have delivered.               *)
LEMMA TrackOnTime ==
  ASSUME LinkInv, Forward, NEW i \in DOMAIN order, NEW s, s = order[i], NEW q, q = s.pid,
         NEW u, u.pid = q, order' = [order EXCEPT ![i] = u],
         NEW b \in Int, NEW c \in Int, Ahead(q, b), c % Wrap = 0, s.lastTS >= 0 => c = b,
         NEW e \in Out,
         \/ delivered'[q] = delivered[q]
         \/ /\ delivered'[q] = Append(delivered[q], e) /\ s.collecting
            /\ UnitAhead(e, b) /\ e.data[1].au \in DOMAIN log,
         TrackAhead(u, c)'
  PROVE  Ahead(q, c)'
<1>1. q \in PIDs /\ s \in Stream(PIDs) /\ delivered \in [PIDs -> Seq(Out)]
  BY TrackPids DEF LinkInv, LinkTypes
<1>2. TrackAhead(s, b) /\ s.lastTS \in Int
  BY <1>1 DEF Ahead, Stream
<1>3. ASSUME NEW k \in DOMAIN delivered[q], NEW d, d = delivered[q][k]
      PROVE  UnitAhead(d, c)'
  <2>1. UnitAhead(d, b) /\ GivenAs(d, q)
    BY <1>1, <1>3 DEF Ahead, LinkInv, Given
  <2>2. delivered[q] # << >>
    <3>1. DOMAIN << >> = {}
      OBVIOUS
    <3> QED BY <3>1
  <2>3. c = b
    BY <2>2, <1>2 DEF TrackAhead
  <2> QED BY <2>1, <2>3, UnitAheadKept DEF GivenAs, Forward
<1>4. ASSUME NEW k \in DOMAIN delivered'[q], NEW d, d = delivered'[q][k]
      PROVE  UnitAhead(d, c)'
  <2>1. CASE delivered'[q] = delivered[q]
    BY <2>1, <1>3, <1>4
  <2>2. CASE /\ delivered'[q] = Append(delivered[q], e) /\ s.collecting
             /\ UnitAhead(e, b) /\ e.data[1].au \in DOMAIN log
    <3>1. PICK D \in Seq(Out) : D = delivered[q]
      BY <1>1
    <3>2. /\ DOMAIN Append(D, e) = 1..(Len(D) + 1) /\ Len(D) \in Nat
          /\ DOMAIN D = 1..Len(D)
          /\ Append(D, e)[Len(D) + 1] = e
          /\ \A j \in 1..Len(D) : Append(D, e)[j] = D[j]
      BY <3>1
    <3>3. k \in 1..Len(D) \/ k = Len(D) + 1
      BY <3>1, <3>2, <2>2
    <3>4. CASE k \in 1..Len(D)
      BY <3>1, <3>2, <3>4, <2>2, <1>3, <1>4
    <3>5. CASE k = Len(D) + 1
      <4>1. d = e
        BY <3>1, <3>2, <3>5, <2>2, <1>4
      <4>3. c = b
        <5>1. ~(s.lastTS < 0)
          BY <2>2, <1>2 DEF TrackAhead
        <5>2. s.lastTS >= 0
          BY <5>1, <1>2
        <5> QED BY <5>2
      <4>2. UnitAhead(e, b)'
        BY <2>2, UnitAheadKept DEF Forward
      <4> QED BY <4>1, <4>2, <4>3
    <3> QED BY <3>3, <3>4, <3>5
  <2> QED BY <2>1, <2>2
<1>5. ASSUME NEW j \in DOMAIN order', NEW v, v = order'[j], v.pid = q
      PROVE  TrackAhead(v, c)'
  <2>1. j \in DOMAIN order /\ (j # i => v = order[j]) /\ (j = i => v = u)
    BY <1>5
  <2>2. j = i
    BY <2>1, <1>5, TrackPids
  <2> QED BY <2>1, <2>2
<1> QED BY <1>4, <1>5, AheadNow

(* A unit is given with the stamps of its track.                           *)
LEMMA CollectionAhead ==
  ASSUME LinkInv, NEW i \in DOMAIN order, NEW s, s = order[i], s.collecting,
         NEW b, TrackAhead(s, b), NEW cut \in BOOLEAN
  PROVE  /\ Collection(s, cut) \in Out /\ UnitAhead(Collection(s, cut), b)
         /\ Collection(s, cut).data[1].au \in DOMAIN log
<1>1. s \in Stream(PIDs)
  BY TrackPids
<1>2. Holds(s)
  BY DEF LinkInv, Collected
<1>3. PICK e : e = Collection(s, cut)
  OBVIOUS
<1>4. e.data = s.mem[s.cur] /\ e.dts = s.dts /\ e.pts = s.pts /\ e \in Out
  BY <1>1, <1>3, CollectionTypes DEF Collection
<1>5. e.data[1].au \in DOMAIN log
  BY <1>2, <1>4 DEF Holds, PartOf
<1>6. UnitAhead(e, b)
  BY <1>4 DEF TrackAhead, UnitAhead
<1> QED BY <1>3, <1>4, <1>5, <1>6

(* A packet of a track.                                                    *)
LEMMA ESOnTime ==
  ASSUME LinkInv, GapsShort, Forward, OnTime, Arrives, Record(FALSE), ReadESPacket(First),
         NEW t \in PIDs
  PROVE  \E b \in Int : Ahead(t, b)'
<1>1. IsES(First) /\ phase = "read"
  BY ESCases
<1>2. PICK i \in DOMAIN order, u \in Stream(PIDs) :
              /\ order[i].pid = First.pid /\ u.pid = First.pid
              /\ u.hasCC /\ u.cc = First.cc
              /\ order' = [order EXCEPT ![i] = u] /\ Handled(order[i], u)
  BY ESCases
<1>3. PICK s : s = order[i]
  OBVIOUS
<1>4. PICK q : q = First.pid
  OBVIOUS
<1>5. s \in Stream(PIDs) /\ q \in PIDs /\ delivered \in [PIDs -> Seq(Out)] /\ s.pid = q
  BY <1>2, <1>3, <1>4, TrackPids DEF LinkInv, LinkTypes
<1>6. PICK b \in Int : Ahead(t, b)
  BY DEF OnTime
<1>7. b % Wrap = 0
  BY <1>6 DEF Ahead
<1>8. PICK e : e = Collection(s, FALSE)
  OBVIOUS
<1>9. e \in Out
  BY <1>5, <1>8, CollectionTypes
<1>10. \/ delivered' = delivered
       \/ /\ delivered' = [delivered EXCEPT ![q] = Append(@, e)] /\ s.collecting
          /\ Started(s, u)
  BY <1>2, <1>3, <1>5, <1>8 DEF Handled, Repeated, Started, WentOn
<1>11. CASE t # q
  <2>1. delivered'[t] = delivered[t]
    BY <1>5, <1>10, <1>11
  <2>2. \A j \in DOMAIN order' :
           order'[j].pid = t => j \in DOMAIN order /\ order'[j] = order[j]
    BY <1>2, <1>4, <1>11
  <2> QED BY <2>1, <2>2, <1>6, AheadKept
<1>12. CASE t = q
  <2>1. TrackAhead(s, b) /\ Holds(s)
    BY <1>2, <1>3, <1>5, <1>6, <1>12 DEF Ahead, LinkInv, Collected
  <2>2. s.collecting => UnitAhead(e, b) /\ e.data[1].au \in DOMAIN log
    BY <2>1, <1>2, <1>3, <1>8, CollectionAhead
  <2>3. \/ delivered'[q] = delivered[q]
        \/ /\ delivered'[q] = Append(delivered[q], e) /\ s.collecting
           /\ UnitAhead(e, b) /\ e.data[1].au \in DOMAIN log
    BY <2>2, <1>5, <1>10
  <2>4. ASSUME NEW c \in Int, c % Wrap = 0, s.lastTS >= 0 => c = b, TrackAhead(u, c)'
        PROVE  Ahead(q, c)'
    BY <2>3, <2>4, <1>2, <1>3, <1>4, <1>5, <1>6, <1>9, <1>12, TrackOnTime
  <2>5. CASE Started(s, u)
    <3>1. PICK n : n = First.body.au
      OBVIOUS
    <3>2. PICK c \in Int : /\ c % Wrap = 0 /\ (s.lastTS >= 0 => c = b)
                           /\ u.dts = log[n].dts + c /\ u.pts = log[n].pts + c
                           /\ u.lastTS = log[n].dts + c /\ u.lastTS >= 0
      BY <3>1, <2>1, <2>5, <1>1, <1>2, <1>3, <1>7, StartAhead
    <3>3. u.mem[u.cur][1].au = n
      BY <3>1, <2>5 DEF Started, Begun
    <3>4. n \in DOMAIN log /\ log' = log /\ WasSeen(n)'
      <4>1. PICK m : m = pos + 1
        OBVIOUS
      <4>2. m \in DOMAIN wire /\ First = wire[m] /\ WireInv /\ log' = log /\ wire' = wire
            /\ Got' = m /\ m \in Nat
        BY <4>1, ArrivesFacts
      <4>3. n \in DOMAIN log
        BY <4>2, <3>1, <1>1, UnitFields
      <4>4. (Carries(wire[m], n))'
        BY <4>2, <3>1, <1>1 DEF Carries, IsES
      <4>5. m \in 1..Got'
        BY <4>2, LinkFacts
      <4> QED BY <4>2, <4>3, <4>4, <4>5 DEF WasSeen
    <3>5. ~(u.lastTS < 0)
      <4>1. u.lastTS \in Int
        BY <1>2 DEF Stream
      <4> QED BY <4>1, <3>2
    <3>6. \E a \in DOMAIN log' : WasSeen(a)' /\ u.lastTS = log'[a].dts + c
      BY <3>2, <3>4
    <3>7. TrackAhead(u, c)'
      BY <3>2, <3>3, <3>4, <3>5, <3>6 DEF TrackAhead
    <3> QED BY <3>2, <3>7, <2>4, <1>12
  <2>6. CASE ~Started(s, u)
    <3>1. delivered' = delivered /\ (Repeated(s, u) \/ WentOn(s, u))
      BY <2>6, <1>2, <1>3, <1>10 DEF Handled
    <3>2. /\ u.lastTS = s.lastTS /\ u.pid = s.pid
          /\ u.collecting => /\ s.collecting /\ u.dts = s.dts /\ u.pts = s.pts
                             /\ u.mem[u.cur][1].au = s.mem[s.cur][1].au
      <4>1. CASE Repeated(s, u)
        BY <4>1 DEF Repeated
      <4>2. CASE WentOn(s, u)
        <5>1. ASSUME u.collecting
              PROVE  s.collecting /\ u.mem[u.cur][1].au = s.mem[s.cur][1].au
          <6>1. s.collecting /\ u.mem[u.cur] = Longer(s)
            BY <5>1, <4>2 DEF WentOn
          <6>2. PICK d \in Seq(Chunk) : d = s.mem[s.cur]
            BY <1>5 DEF Stream
          <6>3. d # << >>
            BY <6>1, <6>2, <2>1 DEF Holds, PartOf
          <6>4. PICK x : Longer(s) = Append(d, x)
            BY <6>2 DEF Longer
          <6>5. Append(d, x)[1] = d[1]
            BY <6>3
          <6> QED BY <6>1, <6>2, <6>4, <6>5
        <5> QED BY <5>1, <4>2, <1>2, <1>3 DEF WentOn
      <4> QED BY <4>1, <4>2, <3>1
    <3>3. TrackAhead(s, b)'
      BY <3>1, <2>1, TrackAheadKept
    <3>4. TrackAhead(u, b)'
      BY <3>2, <3>3 DEF TrackAhead
    <3> QED BY <3>4, <2>4, <1>7, <1>12
  <2> QED BY <2>5, <2>6
<1> QED BY <1>11, <1>12

(* flush returns the stamps the track holds.                               *)
LEMMA FlushOnTime ==
  ASSUME LinkInv, Forward, OnTime, FlushStream, NEW t \in PIDs
  PROVE  \E b \in Int : Ahead(t, b)'
<1>1. PICK i \in DOMAIN order : i = flushIdx + 1
  BY FlushCases
<1>2. PICK s : s = order[i]
  OBVIOUS
<1>3. PICK cut : cut = (burst[s.pid] > 0)
  OBVIOUS
<1>4. PICK u \in Stream(PIDs) :
        /\ order' = [order EXCEPT ![i] = u]
        /\ u.pid = s.pid /\ ~u.collecting /\ u.lastTS = s.lastTS
        /\ IF s.collecting
           THEN delivered' = [delivered EXCEPT ![s.pid] = Append(@, Collection(s, cut))]
           ELSE delivered' = delivered
  BY <1>1, <1>2, <1>3, FlushCases
<1>5. PICK q : q = s.pid
  OBVIOUS
<1>6. s \in Stream(PIDs) /\ q \in PIDs /\ delivered \in [PIDs -> Seq(Out)] /\ cut \in BOOLEAN
  BY <1>1, <1>2, <1>3, <1>5, TrackPids DEF LinkInv, LinkTypes
<1>7. PICK b \in Int : Ahead(t, b)
  BY DEF OnTime
<1>8. b % Wrap = 0
  BY <1>7 DEF Ahead
<1>9. PICK e : e = Collection(s, cut)
  OBVIOUS
<1>10. e \in Out
  BY <1>6, <1>9, CollectionTypes
<1>11. CASE t # q
  <2>1. delivered'[t] = delivered[t]
    BY <1>4, <1>5, <1>6, <1>11
  <2>2. \A j \in DOMAIN order' :
           order'[j].pid = t => j \in DOMAIN order /\ order'[j] = order[j]
    BY <1>4, <1>5, <1>11
  <2> QED BY <2>1, <2>2, <1>7, AheadKept
<1>12. CASE t = q
  <2>1. TrackAhead(s, b) /\ Holds(s)
    BY <1>1, <1>2, <1>5, <1>7, <1>12 DEF Ahead, LinkInv, Collected
  <2>2. s.collecting => UnitAhead(e, b) /\ e.data[1].au \in DOMAIN log
    BY <2>1, <1>1, <1>2, <1>6, <1>9, CollectionAhead
  <2>3. \/ delivered'[q] = delivered[q]
        \/ /\ delivered'[q] = Append(delivered[q], e) /\ s.collecting
           /\ UnitAhead(e, b) /\ e.data[1].au \in DOMAIN log
    BY <2>2, <1>4, <1>5, <1>6, <1>9
  <2>4. TrackAhead(u, b)'
    <3>1. u.lastTS < 0 => delivered'[u.pid] = << >>
      BY <2>1, <1>4 DEF TrackAhead
    <3>2. ASSUME u.lastTS >= 0
          PROVE  \E a \in DOMAIN log' : WasSeen(a)' /\ u.lastTS = log'[a].dts + b
      <4>1. PICK a \in DOMAIN log : WasSeen(a) /\ s.lastTS = log[a].dts + b
        BY <3>2, <2>1, <1>4 DEF TrackAhead
      <4>2. WasSeen(a)'
        BY <4>1, SeenKept DEF Forward
      <4>3. a \in DOMAIN log' /\ log'[a].dts = log[a].dts
        BY DEF Forward, LogGrows, SameUnit
      <4> QED BY <4>1, <4>2, <4>3, <1>4
    <3> QED BY <3>1, <3>2, <1>4 DEF TrackAhead
  <2> QED BY <2>3, <2>4, <1>1, <1>2, <1>4, <1>5, <1>7, <1>8, <1>10, <1>12, TrackOnTime
<1> QED BY <1>11, <1>12

(* A step that neither delivers nor touches a track.                       *)
LEMMA StillOnTime ==
  ASSUME LinkInv, Forward, OnTime, delivered' = delivered, NEW t \in PIDs,
         \/ order' = order
         \/ /\ delivered[t] = << >>
            /\ \A i \in DOMAIN order' : order'[i].lastTS = -1 /\ ~order'[i].collecting
  PROVE  \E b \in Int : Ahead(t, b)'
<1>1. PICK b \in Int : Ahead(t, b)
  BY DEF OnTime
<1>2. CASE order' = order
  BY <1>1, <1>2, AheadKept
<1>3. CASE /\ delivered[t] = << >>
           /\ \A i \in DOMAIN order' : order'[i].lastTS = -1 /\ ~order'[i].collecting
  <2>1. b % Wrap = 0
    BY <1>1 DEF Ahead
  <2>2. DOMAIN << >> = {} /\ -1 < 0 /\ ~(-1 >= 0)
    OBVIOUS
  <2>3. ASSUME NEW k \in DOMAIN delivered'[t], NEW d, d = delivered'[t][k]
        PROVE  UnitAhead(d, b)'
    BY <2>2, <2>3, <1>3
  <2>4. ASSUME NEW i \in DOMAIN order', NEW s, s = order'[i], s.pid = t
        PROVE  TrackAhead(s, b)'
    <3>1. s.lastTS = -1 /\ ~s.collecting /\ delivered'[s.pid] = << >>
      BY <2>4, <1>3
    <3> QED BY <3>1, <2>2 DEF TrackAhead
  <2>5. Ahead(t, b)'
    BY <2>1, <2>3, <2>4, AheadNow
  <2> QED BY <2>5
<1> QED BY <1>2, <1>3

(* Every step keeps the stamps of a track at one distance.                 *)
LEMMA TimeNext ==
  ASSUME LinkInv, GapsShort, OnTime, [Next]_vars
  PROVE  OnTime'
<1>1. Forward
  BY StepForward
<1>2. ASSUME NEW stay \in BOOLEAN, Receive(stay)
      PROVE  OnTime'
  <2>1. Arrives /\ Record(FALSE) /\ ReadPacket(First)
    BY <1>2, ReceiveIs
  <2>2. CASE ReadPATPacket(First) \/ ReadPMTPacket(First) \/ SkipPacketInTables(First)
    <3>1. /\ delivered' = delivered /\ phase \in {"pat", "pmt"}
          /\ \/ order' = order
             \/ \A i \in DOMAIN order' : order'[i].lastTS = -1 /\ ~order'[i].collecting
      BY <2>1, <2>2, TablesKeep
    <3>2. \A t \in PIDs : delivered[t] = << >>
      BY <3>1 DEF OnTime
    <3>3. \A t \in PIDs : \E b \in Int : Ahead(t, b)'
      BY <3>1, <3>2, <1>1, StillOnTime
    <3> QED BY <3>1, <3>2, <3>3 DEF OnTime
  <2>3. CASE SkipPacket(First)
    <3>1. delivered' = delivered /\ phase' = "read" /\ order' = order
      BY <2>1, <2>3, OthersKeep DEF SkipPacket
    <3>2. \A t \in PIDs : \E b \in Int : Ahead(t, b)'
      BY <3>1, <1>1, StillOnTime
    <3> QED BY <3>1, <3>2 DEF OnTime
  <2>4. CASE ReadESPacket(First)
    <3>1. phase' = "read"
      BY <2>1, <2>4, ESCases
    <3>2. \A t \in PIDs : \E b \in Int : Ahead(t, b)'
      BY <2>1, <2>4, <1>1, ESOnTime
    <3> QED BY <3>1, <3>2 DEF OnTime
  <2> QED BY <2>1, <2>2, <2>3, <2>4 DEF ReadPacket
<1>3. CASE FlushStream
  <2>1. phase' = "flush"
    BY <1>3, FlushCases
  <2>2. \A t \in PIDs : \E b \in Int : Ahead(t, b)'
    BY <1>1, <1>3, FlushOnTime
  <2> QED BY <2>1, <2>2 DEF OnTime
<1>4. CASE Write \/ Lose \/ Refused \/ EndOfInput \/ EndOfFlush \/ UNCHANGED vars
  <2>1. delivered' = delivered /\ order' = order
    BY <1>4 DEF Write, Lose, Refused, Gone, EndOfInput, ReadEOF, EndOfFlush, ReportEOF,
                vars, rvars
  <2>2. phase' \in {"pat", "pmt"} => phase' = phase
    BY <1>4 DEF Write, Lose, Refused, Gone, EndOfInput, ReadEOF, EndOfFlush, ReportEOF,
                vars, rvars
  <2>3. \A t \in PIDs : \E b \in Int : Ahead(t, b)'
    BY <2>1, <1>1, StillOnTime
  <2> QED BY <2>1, <2>2, <2>3 DEF OnTime
<1> QED BY <1>2, <1>3, <1>4 DEF Next, ReaderStep

(* No unit has been delivered at first.                                    *)
LEMMA TimeInit ==
  ASSUME Init
  PROVE  OnTime
<1>1. order = << >> /\ delivered = [p \in PIDs |-> << >>]
  BY DEF Init, ReaderInit
<1>2. DOMAIN << >> = {} /\ 0 \in Int /\ 0 % Wrap = 0
  BY WrapAssumption
<1>3. \A t \in PIDs : Ahead(t, 0)
  BY <1>1, <1>2 DEF Ahead
<1> QED BY <1>1, <1>2, <1>3 DEF OnTime

(* Stamps at one distance have the differences of the writer's.            *)
LEMMA TimeKept ==
  ASSUME LinkInv, OnTime
  PROVE  TimelineKept
<1> SUFFICES ASSUME NEW t \in PIDs, NEW j \in DOMAIN delivered[t],
                    NEW k \in DOMAIN delivered[t], NEW d, NEW e, NEW a, NEW b,
                    d = delivered[t][j], e = delivered[t][k],
                    a = log[d.data[1].au], b = log[e.data[1].au]
             PROVE  /\ d.dts - e.dts = a.dts - b.dts
                    /\ d.pts - e.dts = a.pts - b.dts
  BY DEF TimelineKept
<1>1. PICK c \in Int : Ahead(t, c)
  BY DEF OnTime
<1>2. d.dts = a.dts + c /\ d.pts = a.pts + c /\ e.dts = b.dts + c
  BY <1>1 DEF Ahead, UnitAhead
<1>3. d.data[1].au \in DOMAIN log /\ e.data[1].au \in DOMAIN log
  BY DEF LinkInv, Given, GivenAs
<1>4. a \in WrittenUnit /\ b \in WrittenUnit
  BY <1>3, LinkFacts
<1>5. PICK x \in Int, y \in Int, z \in Int : x = a.dts /\ y = a.pts /\ z = b.dts
  BY <1>4 DEF WrittenUnit
<1>6. d.dts = x + c /\ d.pts = y + c /\ e.dts = z + c
  BY <1>2, <1>5
<1>7. (x + c) - (z + c) = x - z /\ (y + c) - (z + c) = y - z
  OBVIOUS
<1> QED BY <1>5, <1>6, <1>7

(* The time line under the same condition.                                 *)
LEMMA TimelineWhileShort == Spec /\ []GapsShort => []TimelineKept
<1>1. Init => OnTime
  BY TimeInit
<1>2. LinkInv /\ GapsShort /\ OnTime /\ [Next]_vars => OnTime'
  BY TimeNext
<1>3. LinkInv /\ OnTime => TimelineKept
  BY TimeKept
<1>4. Spec /\ []GapsShort => []LinkInv
  BY LinkAlways
<1> QED BY <1>1, <1>2, <1>3, <1>4, PTL DEF Spec

-----------------------------------------------------------------------------
(* No needless loss.                                                       *)
LEMMA AddsKept ==
  ASSUME LogGrows, NEW s, Holds(s), AddsUp(s)
  PROVE  AddsUp(s)'
<1> SUFFICES ASSUME s.collecting PROVE AddsUp(s)'
  BY DEF AddsUp
<1> DEFINE n == s.mem[s.cur][1].au
<1>1. n \in DOMAIN log
  BY DEF Holds, PartOf
<1>2. log'[n].hdr = log[n].hdr
  BY <1>1 DEF LogGrows, SameUnit
<1> QED BY <1>2 DEF AddsUp, EndOf

(* AddsUp of a track of the next state, said of its value.                 *)
LEMMA AddsAt ==
  ASSUME NEW i, NEW s, s = order'[i], AddsUp(s)'
  PROVE  (AddsUp(order[i]))'
BY DEF AddsUp, EndOf

(* A unit that is being collected is accounted for.                        *)
LEMMA CollectsAccounts ==
  ASSUME NEW i \in DOMAIN order', NEW s, s = order'[i], NEW a, Collects(s, a)'
  PROVE  Accounted(a)'
<1>1. (Collects(order[i], a))'
  BY DEF Collects
<1> QED BY <1>1 DEF Accounted

(* A unit that is delivered whole is accounted for.                        *)
LEMMA DeliveredAccounts ==
  ASSUME NEW a, NEW t, t = log'[a].pid, NEW k \in DOMAIN delivered'[t], NEW d,
         d = delivered'[t][k], IsUnit(d, a)'
  PROVE  Accounted(a)'
<1>1. (IsUnit(delivered[t][k], a))'
  BY DEF IsUnit
<1>2. (\E j \in DOMAIN delivered[log[a].pid] : IsUnit(delivered[log[a].pid][j], a))'
  BY <1>1 DEF IsUnit
<1> QED BY <1>2 DEF Accounted

(* What is delivered stays so; it remains to see to what is collected.     *)
LEMMA AccountedKept ==
  ASSUME LogGrows, NEW a \in DOMAIN log, Accounted(a), NEW t, t = log[a].pid,
         \A k \in DOMAIN delivered[t] :
            k \in DOMAIN delivered'[t] /\ delivered'[t][k] = delivered[t][k],
         \A i \in DOMAIN order :
            Collects(order[i], a) /\ log[a].total - log[a].hdr <= MaxAUSize => Accounted(a)'
  PROVE  Accounted(a)'
<1>1. /\ log'[a].pid = t /\ log'[a].hdr = log[a].hdr /\ log'[a].total = log[a].total
  BY DEF LogGrows, SameUnit
<1> SUFFICES ASSUME log[a].total - log[a].hdr <= MaxAUSize PROVE Accounted(a)'
  BY <1>1 DEF Accounted
<1>2. ASSUME NEW k \in DOMAIN delivered[t], IsUnit(delivered[t][k], a)
      PROVE  Accounted(a)'
  <2>1. PICK d : d = delivered[t][k]
    OBVIOUS
  <2>2. k \in DOMAIN delivered'[t] /\ d = delivered'[t][k] /\ IsUnit(d, a)
    BY <2>1, <1>2
  <2>3. IsUnit(d, a)'
    BY <2>2, UnitKept
  <2> QED BY <2>2, <2>3, <1>1, DeliveredAccounts
<1> QED BY <1>2 DEF Accounted

(* The buffer of a unit that starts.                                       *)
LEMMA StartAddsUp ==
  ASSUME LinkInv, Arrives, IsES(First), NEW s, NEW u, Started(s, u)
  PROVE  AddsUp(u)'
<1> DEFINE b == First.body
           x == [au |-> b.au, off |-> b.off + b.pes.len, len |-> b.len - b.pes.len]
<1>1. WireInv /\ pos + 1 \in DOMAIN wire /\ First = wire[pos + 1] /\ log' = log
  BY ArrivesFacts
<1>2. First.start /\ u.mem[u.cur] = <<x>>
  BY DEF Started, Begun
<1>3. /\ b.len \in Nat /\ b.off = 0 /\ b.pes \in Header /\ b.len > b.pes.len
      /\ b.pes.len = log[b.au].hdr
  BY <1>1, <1>2, UnitFields
<1>4. b.pes.len \in Nat
  BY <1>3 DEF Header
<1>5. x.len \in Nat /\ x.au = b.au /\ (x.off + x.len) - log[b.au].hdr = x.len
  BY <1>3, <1>4
<1> HIDE DEF x
<1>6. PICK d : d = <<x>>
  OBVIOUS
<1>7. PieceLen(d) = x.len
  BY <1>5, <1>6, PieceLenOne
<1>8. EndOf(d) = x.off + x.len /\ d[1].au = b.au
  BY <1>5, <1>6 DEF EndOf
<1>9. PieceLen(d) = EndOf(d) - log'[d[1].au].hdr
  <2>1. log'[d[1].au].hdr = log[b.au].hdr
    BY <1>1, <1>8
  <2>2. EndOf(d) - log[b.au].hdr = x.len
    BY <1>5, <1>8, Zenon
  <2> QED BY <2>1, <2>2, <1>7
<1>10. u.mem[u.cur] = d
  BY <1>2, <1>6
<1> QED BY <1>9, <1>10 DEF AddsUp, EndOf

(* The next piece of a unit follows the ones before, and adds up.          *)
LEMMA NextPiece ==
  ASSUME LinkInv, Arrives, IsES(First), ~First.start, ~again,
         NEW i \in DOMAIN order, NEW s, s = order[i], s.pid = First.pid,
         s.collecting, burst[s.pid] = 0, AddsUp(s),
         NEW l, l = Longer(s), NEW a, a = s.mem[s.cur][1].au
  PROVE  /\ l[1].au = a /\ a \in DOMAIN log /\ First.body.au = a
         /\ PieceLen(l) = EndOf(l) - log[a].hdr
         /\ EndOf(l) <= log[a].total
         /\ log[a].total \in Int /\ log[a].hdr \in Int /\ EndOf(l) \in Int
<1>1. PICK d \in Seq(Chunk) : d = s.mem[s.cur]
  <2>1. s \in Stream(PIDs)
    BY TrackPids
  <2> QED BY <2>1 DEF Stream
<1>2. a = d[1].au
  BY <1>1
<1>3. Holds(s)
  BY DEF LinkInv, Collected
<1>4. PartOf(d, a) /\ \E m \in 1..Got : UpTo(d, s.pid, m)
  BY <1>1, <1>2, <1>3 DEF Holds
<1>5. /\ First.body.off = EndOf(d) /\ First.body.au = a
      /\ RunEnd(First) <= log[a].total
  BY <1>2, <1>4, FollowsLast DEF Arrives
<1>6. WireInv /\ pos + 1 \in DOMAIN wire /\ First = wire[pos + 1]
  BY ArrivesFacts
<1>7. First.body.au \in Nat /\ First.body.off \in Nat /\ First.body.len \in Nat
      /\ First.body.len > 0
  BY <1>6, UnitFields
<1> DEFINE x == [au |-> First.body.au, off |-> First.body.off, len |-> First.body.len]
<1>8. x \in Chunk /\ x.len = First.body.len /\ x.off = First.body.off
  BY <1>7 DEF Chunk
<1>10. l = Append(d, x)
  BY <1>1 DEF Longer
<1> HIDE DEF x
<1>11. d # << >> /\ a \in DOMAIN log
  BY <1>4 DEF PartOf
<1>12. l[1] = d[1] /\ Len(l) = Len(d) + 1 /\ l[Len(d) + 1] = x
  BY <1>8, <1>10, <1>11
<1>13. EndOf(l) = First.body.off + First.body.len
  BY <1>8, <1>12 DEF EndOf
<1>14. PieceLen(l) = PieceLen(d) + First.body.len
  BY <1>8, <1>10, PieceLenAdd
<1>15. PieceLen(d) = EndOf(d) - log[a].hdr
  BY <1>1, <1>2 DEF AddsUp
<1>16. log[a].total \in Int /\ log[a].hdr \in Int
  <2>1. PICK w \in WrittenUnit : w = log[a]
    BY <1>11, LinkFacts
  <2>2. w.total \in Int /\ w.hdr \in Int
    BY DEF WrittenUnit
  <2> QED BY <2>1, <2>2
<1>17. PieceLen(l) = EndOf(l) - log[a].hdr /\ EndOf(l) \in Int
  <2>1. PICK h \in Int : h = log[a].hdr
    BY <1>16
  <2>2. PICK o \in Nat : o = First.body.off
    BY <1>7
  <2>3. PICK n \in Nat : n = First.body.len
    BY <1>7
  <2>4. PieceLen(d) = o - h /\ PieceLen(l) = PieceLen(d) + n /\ EndOf(l) = o + n
    BY <2>1, <2>2, <2>3, <1>5, <1>13, <1>14, <1>15
  <2>5. PieceLen(l) = (o - h) + n
    BY <2>4
  <2>6. (o - h) + n = (o + n) - h /\ o + n \in Int
    OBVIOUS
  <2> QED BY <2>1, <2>4, <2>5, <2>6
<1>18. EndOf(l) <= log[a].total
  BY <1>5, <1>13 DEF RunEnd
<1> QED BY <1>1, <1>2, <1>5, <1>11, <1>12, <1>16, <1>17, <1>18

(* The buffer of a unit that goes on.                                      *)
LEMMA ContinueAddsUp ==
  ASSUME LinkInv, Arrives, IsES(First), NEW i \in DOMAIN order, NEW s, s = order[i],
         s.pid = First.pid, AddsUp(s), NEW u, WentOn(s, u)
  PROVE  AddsUp(u)'
<1> SUFFICES ASSUME u.collecting PROVE AddsUp(u)'
  BY DEF AddsUp
<1>1. /\ s.collecting /\ burst[s.pid] = 0 /\ u.mem[u.cur] = Longer(s)
      /\ ~First.start /\ ~again
  BY DEF WentOn
<1>2. PICK l : l = Longer(s)
  OBVIOUS
<1>3. PICK a : a = s.mem[s.cur][1].au
  OBVIOUS
<1>4. l[1].au = a /\ PieceLen(l) = EndOf(l) - log[a].hdr
  BY <1>1, <1>2, <1>3, NextPiece
<1>5. log' = log
  BY ArrivesFacts
<1>6. PieceLen(l) = EndOf(l) - log'[l[1].au].hdr
  BY <1>4, <1>5
<1>7. u.mem[u.cur] = l
  BY <1>1, <1>2
<1> QED BY <1>6, <1>7 DEF AddsUp, EndOf

(* A unit that is being collected goes on being collected, is delivered    *)
(* when the next one starts, or is above the limit.                        *)
LEMMA ESAccounts ==
  ASSUME LinkInv, GapsShort, Arrives, IsES(First),
         NEW i \in DOMAIN order, NEW s, s = order[i], s.pid = First.pid,
         NEW u, u.pid = s.pid, order' = [order EXCEPT ![i] = u], Handled(s, u),
         AddsUp(s), NEW a \in DOMAIN log, Collects(s, a),
         log[a].total - log[a].hdr <= MaxAUSize
  PROVE  Accounted(a)'
<1>1. /\ log' = log /\ burst'[First.pid] = 0 /\ WireInv
      /\ i \in DOMAIN order' /\ u = order'[i]
  BY ArrivesFacts
<1>2. s.collecting /\ s.pid = log[a].pid /\ burst[s.pid] = 0 /\ s.mem[s.cur][1].au = a
  BY DEF Collects
<1>3. ASSUME u.collecting, u.mem[u.cur][1].au = a PROVE Accounted(a)'
  <2>1. Collects(u, a)'
    BY <1>1, <1>2, <1>3 DEF Collects
  <2> QED BY <2>1, <1>1, CollectsAccounts
<1>4. CASE Repeated(s, u)
  BY <1>2, <1>3, <1>4 DEF Repeated
<1>5. CASE Started(s, u)
  <2>1. First.start /\ u.collecting /\ u.mem[u.cur][1].au = First.body.au
    BY <1>5 DEF Started, Begun
  <2>2. CASE again
    <3>1. s.mem[s.cur][1].au = First.body.au
      BY <2>1, <2>2 DEF LinkInv, HandledOnce
    <3> QED BY <3>1, <2>1, <1>2, <1>3
  <2>3. CASE ~again
    <3>1. delivered' = [delivered EXCEPT ![s.pid] = Append(@, Collection(s, FALSE))]
      <4>1. ~(burst[s.pid] > 0)
        BY <1>2
      <4> QED BY <4>1, <2>3, <1>2, <1>5 DEF Started
    <3>2. PICK e : e = Collection(s, FALSE)
      OBVIOUS
    <3>3. IsUnit(e, a)
      <4>1. Due(s, FALSE, e, a)
        BY <3>2, <2>1, <2>3, <1>2 DEF Arrives, Due
      <4>2. WholeUnit(s, e, a)
        BY <4>1, CollectedWhole
      <4> QED BY <4>2 DEF WholeUnit
    <3>4. IsUnit(e, a)'
      BY <3>3, <1>1 DEF IsUnit
    <3>5. PICK t : t = s.pid
      OBVIOUS
    <3>6. t \in PIDs /\ delivered \in [PIDs -> Seq(Out)] /\ e \in Out
      <4>1. s \in Stream(PIDs)
        BY TrackPids
      <4> QED BY <4>1, <3>2, <3>5, TrackPids, CollectionTypes DEF LinkInv, LinkTypes
    <3>7. delivered'[t] = Append(delivered[t], e) /\ delivered[t] \in Seq(Out)
      BY <3>1, <3>2, <3>5, <3>6
    <3>8. PICK k : k = Len(delivered[t]) + 1
      OBVIOUS
    <3>9. k \in DOMAIN delivered'[t] /\ e = delivered'[t][k]
      BY <3>6, <3>7, <3>8
    <3>10. t = log'[a].pid
      BY <3>5, <1>1, <1>2
    <3> QED BY <3>4, <3>9, <3>10, DeliveredAccounts
  <2> QED BY <2>2, <2>3
<1>6. CASE WentOn(s, u)
  <2>1. ~First.start /\ ~again
    BY <1>6 DEF WentOn
  <2>2. PICK l : l = Longer(s)
    OBVIOUS
  <2>3. /\ l[1].au = a /\ PieceLen(l) = EndOf(l) - log[a].hdr /\ EndOf(l) <= log[a].total
        /\ log[a].total \in Int /\ log[a].hdr \in Int /\ EndOf(l) \in Int
    BY <2>1, <2>2, <1>2, NextPiece
  <2>4. PieceLen(l) <= MaxAUSize
    BY <2>3, MaxAUSizeAssumption
  <2>5. u.collecting /\ u.mem[u.cur] = l
    <3>1. ~(burst[s.pid] > 0)
      BY <1>2
    <3> QED BY <3>1, <2>2, <2>4, <1>2, <1>6 DEF WentOn
  <2> QED BY <2>3, <2>5, <1>3
<1> QED BY <1>4, <1>5, <1>6 DEF Handled

-----------------------------------------------------------------------------
(* A packet of a track.                                                    *)
LEMMA ESMissed ==
  ASSUME LinkInv, GapsShort, Forward, NothingMissed, Arrives, Record(FALSE),
         ReadESPacket(First), hit' = hit,
         joined' = IF phase = "read" /\ IsES(First) /\ First.start
                   THEN joined \cup {First.body.au} ELSE joined
  PROVE  NothingMissed'
<1>1. IsES(First) /\ phase = "read" /\ phase' = "read"
  BY ESCases
<1>2. PICK i \in DOMAIN order, u \in Stream(PIDs) :
              /\ order[i].pid = First.pid /\ u.pid = First.pid
              /\ u.hasCC /\ u.cc = First.cc
              /\ order' = [order EXCEPT ![i] = u] /\ Handled(order[i], u)
  BY ESCases
<1>3. PICK s : s = order[i]
  OBVIOUS
<1>4. PICK q : q = First.pid
  OBVIOUS
<1>5. s \in Stream(PIDs) /\ q \in PIDs /\ delivered \in [PIDs -> Seq(Out)] /\ s.pid = q
  BY <1>2, <1>3, <1>4, TrackPids DEF LinkInv, LinkTypes
<1>6. PICK n : n = First.body.au
  OBVIOUS
<1>7. /\ log' = log /\ WireInv /\ n \in DOMAIN log /\ burst'[q] = 0
      /\ \A t \in PIDs : t # q => burst'[t] = burst[t]
      /\ log[n].pid = q /\ burst \in [PIDs -> Nat]
  <2>1. /\ log' = log /\ WireInv /\ pos + 1 \in DOMAIN wire /\ First = wire[pos + 1]
        /\ burst'[q] = 0 /\ \A t \in PIDs : t # q => burst'[t] = burst[t]
        /\ burst \in [PIDs -> Nat]
    BY <1>4, ArrivesFacts
  <2>2. UnitPacket(pos + 1)
    BY <2>1, <1>1 DEF WireInv, WireTells
  <2>3. n \in DOMAIN log /\ log[n].pid = q
    BY <2>1, <2>2, <1>4, <1>6 DEF UnitPacket
  <2> QED BY <2>1, <2>3
<1>8. /\ joined \subseteq DOMAIN log /\ \A j \in DOMAIN order : AddsUp(order[j])
      /\ \A a \in joined \ hit : Accounted(a)
  BY DEF NothingMissed
<1>9. DOMAIN order' = DOMAIN order /\ order'[i] = u
      /\ \A j \in DOMAIN order : j # i => order'[j] = order[j]
  BY <1>2
<1>10. AddsUp(s) /\ Holds(s)
  BY <1>2, <1>3, <1>8 DEF LinkInv, Collected
<1>11. AddsUp(u)'
  <2>1. CASE Repeated(s, u)
    BY <2>1, <1>10, AddsKept DEF Repeated, Forward
  <2>2. CASE Started(s, u)
    BY <2>2, <1>1, StartAddsUp
  <2>3. CASE WentOn(s, u)
    BY <2>3, <1>1, <1>2, <1>3, <1>10, ContinueAddsUp
  <2> QED BY <2>1, <2>2, <2>3, <1>2, <1>3 DEF Handled
<1>12. ASSUME NEW j \in DOMAIN order' PROVE (AddsUp(order[j]))'
  <2>1. CASE j = i
    BY <2>1, <1>9, <1>11, AddsAt
  <2>2. CASE j # i
    <3>1. PICK v : v = order[j]
      OBVIOUS
    <3>2. AddsUp(v) /\ Holds(v) /\ v = order'[j]
      BY <3>1, <2>2, <1>8, <1>9 DEF LinkInv, Collected
    <3>3. AddsUp(v)'
      BY <3>2, AddsKept DEF Forward
    <3> QED BY <3>2, <3>3, AddsAt
  <2> QED BY <2>1, <2>2
<1>13. \A t \in PIDs : \A k \in DOMAIN delivered[t] :
          k \in DOMAIN delivered'[t] /\ delivered'[t][k] = delivered[t][k]
  <2> SUFFICES ASSUME NEW t \in PIDs, NEW k \in DOMAIN delivered[t]
               PROVE  k \in DOMAIN delivered'[t] /\ delivered'[t][k] = delivered[t][k]
    OBVIOUS
  <2>1. \/ delivered'[t] = delivered[t]
        \/ \E e : delivered'[t] = Append(delivered[t], e)
    <3>1. \/ delivered' = delivered
          \/ \E e : delivered' = [delivered EXCEPT ![q] = Append(@, e)]
      BY <1>2, <1>3, <1>5 DEF Handled, Repeated, Started, WentOn
    <3> QED BY <3>1, <1>5
  <2>2. delivered[t] \in Seq(Out)
    BY <1>5
  <2> QED BY <2>1, <2>2
<1>14. ASSUME NEW a \in joined \ hit PROVE Accounted(a)'
  <2>1. a \in DOMAIN log /\ Accounted(a)
    BY <1>8
  <2>2. PICK t : t = log[a].pid
    OBVIOUS
  <2>3. t \in PIDs
    <3>1. log[a].pid \in {tracks[j].pid : j \in DOMAIN tracks} /\ log # << >>
      BY <2>1, LinkFacts DEF LinkInv, WireInv, LogPids
    <3>2. tracks \in Options
      BY <3>1 DEF LinkInv, WireInv, LogTimes
    <3> QED BY <3>1, <3>2, <2>2 DEF PIDs
  <2>4. ASSUME NEW j \in DOMAIN order, Collects(order[j], a),
               log[a].total - log[a].hdr <= MaxAUSize
        PROVE  Accounted(a)'
    <3>1. CASE j = i
      BY <3>1, <2>1, <2>4, <1>1, <1>2, <1>3, <1>10, ESAccounts
    <3>2. CASE j # i
      <4>1. PICK v : v = order[j]
        OBVIOUS
      <4>2. v = order'[j] /\ j \in DOMAIN order' /\ v.pid # q /\ v.pid \in PIDs
        BY <4>1, <3>2, <1>2, <1>4, <1>9, TrackPids
      <4>3. Collects(v, a)'
        BY <4>1, <4>2, <2>4, <1>7 DEF Collects
      <4> QED BY <4>2, <4>3, CollectsAccounts
    <3> QED BY <3>1, <3>2
  <2> QED BY <2>1, <2>2, <2>3, <2>4, <1>13, AccountedKept DEF Forward
<1>15. ASSUME First.start PROVE Accounted(n)'
  <2>1. Started(s, u)
    BY <1>2, <1>3, <1>15 DEF Handled, Repeated, WentOn
  <2>2. u.collecting /\ u.mem[u.cur][1].au = n
    BY <2>1, <1>6 DEF Started, Begun
  <2>3. Collects(u, n)'
    BY <2>2, <1>2, <1>4, <1>7 DEF Collects
  <2> QED BY <2>3, <1>9, CollectsAccounts
<1>16. joined' \subseteq DOMAIN log' /\ \A a \in joined' \ hit' : Accounted(a)'
  BY <1>6, <1>7, <1>8, <1>14, <1>15
<1> QED BY <1>1, <1>12, <1>16 DEF NothingMissed

(* Packets of the tables; and a start packet always belongs to a track.    *)
LEMMA OthersMissed ==
  ASSUME LinkInv, NothingMissed, Arrives, Record(FALSE), SkipPacket(First)
  PROVE  ~IsES(First)
<1>1. phase = "read" /\ ~Relevant(First)
  BY DEF SkipPacket
<1> SUFFICES ASSUME IsES(First) PROVE FALSE
  OBVIOUS
<1>2. WireInv /\ pos + 1 \in DOMAIN wire /\ First = wire[pos + 1] /\ First \in Packet
  BY ArrivesFacts
<1>3. First.pid \in {tracks[i].pid : i \in DOMAIN tracks}
  BY <1>2, WirePids
<1>4. PICK i \in DOMAIN order : order[i].pid = First.pid
  BY <1>1, <1>3 DEF LinkInv, TablesRead
<1>5. StreamIndex(First.pid) = i /\ i # 0
  BY <1>4, TrackPids, LinkFacts
<1>6. First.fault = "none"
  BY <1>2 DEF Packet
<1> QED BY <1>1, <1>5, <1>6 DEF Relevant, parsePacketHeader, IsES

(* A step that neither delivers nor touches a track that collects.         *)
LEMMA StillAccounted ==
  ASSUME LinkInv, Forward, NothingMissed, UNCHANGED <<joined, delivered>>,
         hit \subseteq hit',
         phase' \in {"pat", "pmt", "failed"} => phase \in {"pat", "pmt", "failed"},
         \/ order' = order
         \/ joined = {} /\ \A i \in DOMAIN order' : ~order'[i].collecting,
         \A i \in DOMAIN order : \A a :
           Collects(order[i], a) => a \in hit' \/ burst'[order[i].pid] = 0
  PROVE  NothingMissed'
<1>1. /\ joined \subseteq DOMAIN log /\ \A j \in DOMAIN order : AddsUp(order[j])
      /\ \A a \in joined \ hit : Accounted(a)
      /\ phase \in {"pat", "pmt", "failed"} => joined = {}
  BY DEF NothingMissed
<1>2. /\ joined' \subseteq DOMAIN log'
      /\ phase' \in {"pat", "pmt", "failed"} => joined' = {}
  BY <1>1 DEF Forward, LogGrows
<1>3. ASSUME NEW j \in DOMAIN order' PROVE (AddsUp(order[j]))'
  <2>1. PICK v : v = order'[j]
    OBVIOUS
  <2>2. CASE order' = order
    <3>1. AddsUp(v) /\ Holds(v)
      BY <2>1, <2>2, <1>1, <1>3 DEF LinkInv, Collected
    <3>2. AddsUp(v)'
      BY <3>1, AddsKept DEF Forward
    <3> QED BY <3>2, <2>1, AddsAt
  <2>3. CASE ~order'[j].collecting
    <3>1. AddsUp(v)'
      BY <2>1, <2>3 DEF AddsUp
    <3> QED BY <3>1, <2>1, AddsAt
  <2> QED BY <2>2, <2>3, <1>3
<1>4. ASSUME NEW a \in joined' \ hit' PROVE Accounted(a)'
  <2>1. a \in joined \ hit /\ a \in DOMAIN log /\ Accounted(a) /\ order' = order
    BY <1>1, <1>4
  <2>2. PICK t : t = log[a].pid
    OBVIOUS
  <2>3. ASSUME NEW j \in DOMAIN order, Collects(order[j], a) PROVE Accounted(a)'
    <3>1. PICK v : v = order[j]
      OBVIOUS
    <3>2. v = order'[j] /\ j \in DOMAIN order' /\ burst'[v.pid] = 0
      BY <3>1, <2>1, <2>3, <1>4
    <3>3. Collects(v, a)'
      <4>1. log'[a].pid = log[a].pid
        BY <2>1 DEF Forward, LogGrows, SameUnit
      <4> QED BY <4>1, <3>1, <3>2, <2>3 DEF Collects
    <3> QED BY <3>2, <3>3, CollectsAccounts
  <2> QED BY <2>1, <2>2, <2>3, AccountedKept DEF Forward
<1> QED BY <1>2, <1>3, <1>4 DEF NothingMissed

(* The loss of a packet marks the unit its track collects as hit.          *)
LEMMA GoneMissed ==
  ASSUME LinkInv, Forward, NothingMissed, UnderWay, Gone(First)
  PROVE  NothingMissed'
<1>1. /\ burst' = [burst EXCEPT ![First.pid] = @ + 1]
      /\ hit' = IF IsES(First) THEN hit \cup {First.body.au} \cup Pending(First.pid) ELSE hit
      /\ UNCHANGED <<joined, delivered>> /\ phase' = phase /\ order' = order
  BY DEF Gone, rvars, IsES
<1>2. WireInv /\ pos + 1 \in DOMAIN wire /\ First = wire[pos + 1]
  <2>1. pos \in Nat /\ Len(wire) \in Nat /\ DOMAIN wire = 1..Len(wire) /\ pos < Len(wire)
    BY LinkFacts DEF UnderWay
  <2> QED BY <2>1 DEF LinkInv, First
<1>3. burst \in [PIDs -> Nat] /\ First.pid \in PIDs
  BY <1>2, WirePids DEF LinkInv, LinkTypes
<1>4. ASSUME NEW i \in DOMAIN order, NEW a, Collects(order[i], a)
      PROVE  a \in hit' \/ burst'[order[i].pid] = 0
  <2>1. PICK s : s = order[i]
    OBVIOUS
  <2>2. s.collecting /\ burst[s.pid] = 0 /\ s.mem[s.cur][1].au = a /\ s.pid \in PIDs
    BY <1>4, <2>1, TrackPids DEF Collects
  <2>3. CASE s.pid # First.pid
    BY <2>1, <2>2, <2>3, <1>1, <1>3
  <2>4. CASE s.pid = First.pid
    <3>1. StreamIndex(First.pid) = i /\ First.pid \notin {pidPAT, writerPMTPID} /\ i # 0
      BY <2>1, <2>4, TrackPids, LinkFacts
    <3>2. IsES(First)
      BY <3>1, <1>2, WirePids
    <3>3. PICK d : d = s.mem[s.cur]
      OBVIOUS
    <3>4. d \in Seq(Chunk) /\ d # << >>
      <4>1. s \in Stream(PIDs) /\ Holds(s)
        BY <2>1, TrackPids DEF LinkInv, Collected
      <4> QED BY <4>1, <2>2, <3>3 DEF Stream, Holds, PartOf
    <3>5. 1 \in DOMAIN d
      BY <3>4
    <3>6. 1 \in DOMAIN order[i].mem[order[i].cur] /\ order[i].collecting
          /\ order[i].mem[order[i].cur][1].au = a
      BY <3>3, <3>5, <2>1, <2>2
    <3>7. a \in Pending(First.pid)
      BY <3>1, <3>6 DEF Pending
    <3> QED BY <3>2, <3>7, <1>1
  <2> QED BY <2>3, <2>4
<1>5. hit \subseteq hit'
  BY <1>1
<1> QED BY <1>1, <1>4, <1>5, StillAccounted

(* A unit that was collected without a gap is flushed whole.               *)
LEMMA FlushMissed ==
  ASSUME LinkInv, Forward, NothingMissed, FlushStream
  PROVE  NothingMissed'
<1>1. /\ phase = "flush" /\ phase' = "flush" /\ pc = "closed" /\ ~UnderWay /\ ~again
      /\ UNCHANGED <<asm, wvars, cvars>>
  BY FlushCases
<1>2. PICK i \in DOMAIN order : i = flushIdx + 1
  BY FlushCases
<1>3. PICK u \in Stream(PIDs) :
        LET s   == order[i]
            cut == burst[s.pid] > 0
        IN /\ order' = [order EXCEPT ![i] = u]
           /\ u.pid = s.pid /\ ~u.collecting
           /\ IF s.collecting
              THEN delivered' = [delivered EXCEPT ![s.pid] = Append(@, Collection(s, cut))]
              ELSE delivered' = delivered
  BY <1>2, FlushCases
<1>4. PICK s : s = order[i]
  OBVIOUS
<1>5. PICK q : q = s.pid
  OBVIOUS
<1>6. s \in Stream(PIDs) /\ q \in PIDs /\ delivered \in [PIDs -> Seq(Out)]
      /\ burst \in [PIDs -> Nat]
  BY <1>4, <1>5, TrackPids DEF LinkInv, LinkTypes
<1>7. log' = log /\ joined' = joined /\ hit' = hit /\ burst' = burst
  BY <1>1 DEF wvars, cvars
<1>8. /\ joined \subseteq DOMAIN log /\ \A j \in DOMAIN order : AddsUp(order[j])
      /\ \A a \in joined \ hit : Accounted(a)
  BY DEF NothingMissed
<1>9. DOMAIN order' = DOMAIN order /\ order'[i] = u
      /\ \A j \in DOMAIN order : j # i => order'[j] = order[j]
  BY <1>3
<1>10. ASSUME NEW j \in DOMAIN order' PROVE (AddsUp(order[j]))'
  <2>1. PICK v : v = order'[j]
    OBVIOUS
  <2>2. CASE j = i
    <3>1. AddsUp(v)'
      BY <2>1, <2>2, <1>3, <1>9 DEF AddsUp
    <3> QED BY <3>1, <2>1, AddsAt
  <2>3. CASE j # i
    <3>1. AddsUp(v) /\ Holds(v)
      BY <2>1, <2>3, <1>8, <1>9 DEF LinkInv, Collected
    <3>2. AddsUp(v)'
      BY <3>1, AddsKept DEF Forward
    <3> QED BY <3>2, <2>1, AddsAt
  <2> QED BY <2>2, <2>3
<1>11. \A t \in PIDs : \A k \in DOMAIN delivered[t] :
          k \in DOMAIN delivered'[t] /\ delivered'[t][k] = delivered[t][k]
  <2> SUFFICES ASSUME NEW t \in PIDs, NEW k \in DOMAIN delivered[t]
               PROVE  k \in DOMAIN delivered'[t] /\ delivered'[t][k] = delivered[t][k]
    OBVIOUS
  <2>1. \/ delivered'[t] = delivered[t]
        \/ \E e : delivered'[t] = Append(delivered[t], e)
    <3>1. \/ delivered' = delivered
          \/ \E e : delivered' = [delivered EXCEPT ![q] = Append(@, e)]
      BY <1>3, <1>4, <1>5
    <3> QED BY <3>1, <1>6
  <2>2. delivered[t] \in Seq(Out)
    BY <1>6
  <2> QED BY <2>1, <2>2
<1>12. ASSUME NEW a \in joined \ hit PROVE Accounted(a)'
  <2>1. a \in DOMAIN log /\ Accounted(a)
    BY <1>8, <1>12
  <2>2. PICK t : t = log[a].pid
    OBVIOUS
  <2>3. t \in PIDs
    <3>1. log[a].pid \in {tracks[j].pid : j \in DOMAIN tracks} /\ log # << >>
      BY <2>1, LinkFacts DEF LinkInv, WireInv, LogPids
    <3>2. tracks \in Options
      BY <3>1 DEF LinkInv, WireInv, LogTimes
    <3> QED BY <3>1, <3>2, <2>2 DEF PIDs
  <2>4. ASSUME NEW j \in DOMAIN order, Collects(order[j], a) PROVE Accounted(a)'
    <3>1. CASE j = i
      <4>1. /\ s.collecting /\ q = log[a].pid /\ burst[s.pid] = 0
            /\ s.mem[s.cur][1].au = a
        BY <2>4, <3>1, <1>4, <1>5 DEF Collects
      <4>2. PICK e : e = Collection(s, FALSE)
        OBVIOUS
      <4>3. delivered' = [delivered EXCEPT ![q] = Append(@, e)]
        <5>1. (burst[s.pid] > 0) = FALSE
          BY <4>1
        <5> QED BY <5>1, <4>1, <4>2, <1>3, <1>4, <1>5
      <4>4. IsUnit(e, a)
        <5>1. Due(s, FALSE, e, a)
          BY <4>1, <4>2, <1>1, <1>4 DEF Due
        <5>2. WholeUnit(s, e, a)
          BY <5>1, CollectedWhole
        <5> QED BY <5>2 DEF WholeUnit
      <4>5. IsUnit(e, a)'
        BY <4>4, <1>7 DEF IsUnit
      <4>6. e \in Out
        BY <4>2, <1>6, CollectionTypes
      <4>7. delivered'[q] = Append(delivered[q], e) /\ delivered[q] \in Seq(Out)
        BY <4>3, <1>6
      <4>8. PICK k : k = Len(delivered[q]) + 1
        OBVIOUS
      <4>9. k \in DOMAIN delivered'[q] /\ e = delivered'[q][k]
        BY <4>6, <4>7, <4>8
      <4>10. q = log'[a].pid
        BY <4>1, <1>7
      <4> QED BY <4>5, <4>9, <4>10, DeliveredAccounts
    <3>2. CASE j # i
      <4>1. PICK v : v = order[j]
        OBVIOUS
      <4>2. v = order'[j] /\ j \in DOMAIN order'
        BY <4>1, <3>2, <1>9
      <4>3. Collects(v, a)'
        BY <4>1, <2>4, <1>7 DEF Collects
      <4> QED BY <4>2, <4>3, CollectsAccounts
    <3> QED BY <3>1, <3>2
  <2> QED BY <2>1, <2>2, <2>3, <2>4, <1>11, AccountedKept DEF Forward
<1> QED BY <1>1, <1>7, <1>8, <1>10, <1>12 DEF NothingMissed

(* Every step keeps the account of the units nothing happened to.          *)
LEMMA MissedNext ==
  ASSUME LinkInv, GapsShort, NothingMissed, [Next]_vars
  PROVE  NothingMissed'
<1>1. Forward
  BY StepForward
<1>2. ASSUME NEW stay \in BOOLEAN, Receive(stay)
      PROVE  NothingMissed'
  <2>1. Arrives /\ Record(FALSE) /\ ReadPacket(First)
    BY <1>2, ReceiveIs
  <2>2. /\ hit' = hit
        /\ joined' = IF phase = "read" /\ IsES(First) /\ First.start
                     THEN joined \cup {First.body.au} ELSE joined
    BY <1>2 DEF Receive, IsES
  <2>3. CASE ReadPATPacket(First) \/ ReadPMTPacket(First) \/ SkipPacketInTables(First)
    <3>1. /\ delivered' = delivered /\ phase \in {"pat", "pmt"}
          /\ \/ order' = order
             \/ \A i \in DOMAIN order' : ~order'[i].collecting
      BY <2>1, <2>3, TablesKeep
    <3>2. joined = {} /\ joined' = joined
      BY <3>1, <2>2 DEF NothingMissed
    <3>3. order = << >>
      BY <3>1 DEF LinkInv, TablesRead
    <3>4. DOMAIN order = {}
      BY <3>3
    <3> QED BY <3>1, <3>2, <3>4, <2>2, <1>1, StillAccounted
  <2>4. CASE SkipPacket(First)
    <3>1. delivered' = delivered /\ phase' = "read" /\ order' = order
      BY <2>1, <2>4, OthersKeep DEF SkipPacket
    <3>2. joined' = joined
      BY <2>1, <2>2, <2>4, OthersMissed
    <3>3. ASSUME NEW i \in DOMAIN order, NEW a, Collects(order[i], a)
          PROVE  burst'[order[i].pid] = 0
      BY <3>3, <2>1, ArrivesFacts, TrackPids DEF Collects
    <3> QED BY <3>1, <3>2, <3>3, <2>2, <1>1, StillAccounted
  <2>5. CASE ReadESPacket(First)
    BY <2>1, <2>2, <2>5, <1>1, ESMissed
  <2> QED BY <2>1, <2>3, <2>4, <2>5 DEF ReadPacket
<1>3. CASE FlushStream
  BY <1>1, <1>3, FlushMissed
<1>4. CASE Lose \/ Refused
  BY <1>1, <1>4, GoneMissed DEF Lose, Refused
<1>5. CASE Write \/ EndOfInput \/ EndOfFlush \/ UNCHANGED vars
  <2>1. delivered' = delivered /\ order' = order /\ joined' = joined /\ hit' = hit
        /\ burst' = burst
    BY <1>5 DEF Write, EndOfInput, ReadEOF, EndOfFlush, ReportEOF, vars, rvars, cvars
  <2>2. phase' \in {"pat", "pmt", "failed"} => phase \in {"pat", "pmt", "failed"}
    BY <1>5 DEF Write, EndOfInput, ReadEOF, EndOfFlush, ReportEOF, vars, rvars
  <2>3. \A i \in DOMAIN order : \A a :
           Collects(order[i], a) => burst'[order[i].pid] = 0
    BY <2>1 DEF Collects
  <2> QED BY <2>1, <2>2, <2>3, <1>1, StillAccounted
<1> QED BY <1>2, <1>3, <1>4, <1>5 DEF Next, ReaderStep

(* No unit has started at first.                                           *)
LEMMA MissedInit ==
  ASSUME Init
  PROVE  NothingMissed
<1>1. order = << >> /\ joined = {}
  BY DEF Init, ReaderInit
<1>2. DOMAIN << >> = {}
  OBVIOUS
<1> QED BY <1>1, <1>2 DEF NothingMissed

(* At io.EOF no track is collecting: what was accounted for is delivered.  *)
LEMMA NoLoss ==
  ASSUME LinkInv, NothingMissed
  PROVE  NoNeedlessLoss
<1> SUFFICES ASSUME phase = "eof", NEW a \in joined \ hit,
                    log[a].total - log[a].hdr <= MaxAUSize
             PROVE  \E k \in DOMAIN delivered[log[a].pid] :
                      IsUnit(delivered[log[a].pid][k], a)
  BY DEF NoNeedlessLoss
<1>1. flushIdx = Len(order) /\ Len(order) \in Nat /\ DOMAIN order = 1..Len(order)
  BY LinkFacts DEF LinkInv, TablesRead
<1>2. \A i \in DOMAIN order : ~order[i].collecting
  <2> SUFFICES ASSUME NEW i \in DOMAIN order PROVE ~order[i].collecting
    OBVIOUS
  <2>1. i <= flushIdx
    BY <1>1
  <2> QED BY <2>1 DEF LinkInv, Collected
<1>3. Accounted(a)
  BY DEF NothingMissed
<1> QED BY <1>2, <1>3 DEF Accounted, Collects

(* No needless loss under the same condition.                              *)
LEMMA LossWhileShort == Spec /\ []GapsShort => []NoNeedlessLoss
<1>1. Init => NothingMissed
  BY MissedInit
<1>2. LinkInv /\ GapsShort /\ NothingMissed /\ [Next]_vars => NothingMissed'
  BY MissedNext
<1>3. LinkInv /\ NothingMissed => NoNeedlessLoss
  BY NoLoss
<1>4. Spec /\ []GapsShort => []LinkInv
  BY LinkAlways
<1> QED BY <1>1, <1>2, <1>3, <1>4, PTL DEF Spec

-----------------------------------------------------------------------------
(* The results for the link: each needs that the packets of a PID which    *)
(* may be lost in a row and the calls of dst.Write which may fail together *)
(* stay below a cycle of the counter (16), for a longer gap is invisible   *)
(* to handleES.                                                            *)

(* Wire, reader and returned units always fit together: the reader's       *)
(* tracks are those of the writer's PMT, a buffer holds the bytes of one   *)
(* unit from its first on, and a returned unit is a whole one with the     *)
(* flag it was written with, or one a flush cut short (readPAT, readPMT,   *)
(* handleES, finish, flush).                                               *)
THEOREM LinkInvHolds ==
  ASSUME MaxBurst + MaxFailures < CCMod
  PROVE  Spec => []LinkInv
<1>1. Spec => []GapsShort
  BY ShortGaps
<1> QED BY <1>1, LinkAlways, PTL

(* Writer, transport and reader implement AccessUnitChannel: per track     *)
(* NextAccessUnit returns units of successful WriteAccessUnit calls,       *)
(* whole, in order, at most once, and only flush may return part of one.   *)
THEOREM ChannelImplemented ==
  ASSUME MaxBurst + MaxFailures < CCMod
  PROVE  Spec => ImplementsChannel
<1>1. Spec => []GapsShort
  BY ShortGaps
<1> QED BY <1>1, ChannelWhileShort, PTL

(* The unwrapped stamps of the units returned on a track are at the same   *)
(* distances as those given to WriteAccessUnit (startUnit, pesHeader).     *)
THEOREM TimelineHolds ==
  ASSUME MaxBurst + MaxFailures < CCMod
  PROVE  Spec => []TimelineKept
<1>1. Spec => []GapsShort
  BY ShortGaps
<1> QED BY <1>1, TimelineWhileShort, PTL

(* A unit that started after the reader was ready, stays within the size   *)
(* limit and met no loss has been returned whole when NextAccessUnit       *)
(* returns io.EOF (handleES, finish, flush).                               *)
THEOREM NoLossHolds ==
  ASSUME MaxBurst + MaxFailures < CCMod
  PROVE  Spec => []NoNeedlessLoss
<1>1. Spec => []GapsShort
  BY ShortGaps
<1> QED BY <1>1, LossWhileShort, PTL
=============================================================================
