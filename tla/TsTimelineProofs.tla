-------------------------- MODULE TsTimelineProofs --------------------------
(* Proofs about TsTimeline, for every even cycle length and any timeline.  *)
EXTENDS TsTimeline, TLAPS

(* A value is a multiple of the cycle and its remainder.                   *)
LEMMA DivMod ==
  ASSUME NEW a \in Int
  PROVE  \E q \in Int, r \in Int :
           /\ 0 <= r /\ r < Wrap
           /\ a = q * Wrap + r
           /\ r = a % Wrap
BY WrapAssumption

(* The remainder is the only one in range.                                 *)
LEMMA ModUnique ==
  ASSUME NEW q \in Int, NEW r \in Int, 0 <= r, r < Wrap
  PROVE  (q * Wrap + r) % Wrap = r
BY WrapAssumption

(* A multiple of the cycle does not change what masking leaves of a stamp. *)
LEMMA ModShift ==
  ASSUME NEW a \in Int, NEW b \in Int, b % Wrap = 0
  PROVE  (a + b) % Wrap = a % Wrap
<1>1. PICK q \in Int, r \in Int :
        0 <= r /\ r < Wrap /\ a = q * Wrap + r /\ r = a % Wrap
  BY DivMod
<1>2. PICK k \in Int, s \in Int : b = k * Wrap + s /\ s = b % Wrap
  BY DivMod
<1>3. a + b = (q + k) * Wrap + r
  BY <1>1, <1>2, WrapAssumption
<1>4. ((q + k) * Wrap + r) % Wrap = r
  BY <1>1, ModUnique, q + k \in Int
<1> QED BY <1>1, <1>3, <1>4

(* extendTimestamp recovers a value from its 33 bits and any reference     *)
(* that is less than half a cycle away.                                    *)
LEMMA Extend ==
  ASSUME NEW ref \in Int, ref >= 0,
         NEW x \in Int, ref - Half < x, x < ref + Half
  PROVE  extendTimestamp(ref, x % Wrap) = x
<1>h. Half \in Int /\ Wrap = 2 * Half /\ Half > 0
  BY WrapAssumption DEF Half
<1>1. PICK q \in Int, r \in Int :
        0 <= r /\ r < Wrap /\ ref = q * Wrap + r /\ r = ref % Wrap
  BY DivMod
<1>2. PICK k \in Int, s \in Int :
        0 <= s /\ s < Wrap /\ x = k * Wrap + s /\ s = x % Wrap
  BY DivMod
<1> DEFINE qw == q * Wrap
           kw == k * Wrap
<1>3. /\ qw \in Int /\ kw \in Int
      /\ ref = qw + r /\ 0 <= r /\ r < Wrap /\ r = ref % Wrap
      /\ x = kw + s /\ 0 <= s /\ s < Wrap /\ s = x % Wrap
  BY <1>1, <1>2, WrapAssumption
<1>4. k \in {q - 1, q, q + 1}
  <2>1. CASE k >= q + 2
    <3>1. kw >= qw + 2 * Wrap
      BY <2>1, WrapAssumption
    <3> QED BY <3>1, <1>3, <1>h
  <2>2. CASE k =< q - 2
    <3>1. qw >= kw + 2 * Wrap
      BY <2>2, WrapAssumption
    <3> QED BY <3>1, <1>3, <1>h
  <2> QED BY <2>1, <2>2
<1>5. kw \in {qw - Wrap, qw, qw + Wrap}
  BY <1>4, WrapAssumption
<1> HIDE DEF qw, kw
<1>6. extendTimestamp(ref, s) =
        IF qw + s < ref - Half THEN qw + s + Wrap
        ELSE IF qw + s > ref + Half THEN qw + s - Wrap
        ELSE qw + s
  <2>1. (ref - (ref % Wrap)) + s = qw + s
    BY <1>3
  <2> QED BY <2>1, <1>3, <1>h DEF extendTimestamp
<1>7. extendTimestamp(ref, s) = x
  BY <1>3, <1>5, <1>6, <1>h
<1> QED BY <1>3, <1>7

(* With no reference the masked stamp is taken as it is.                   *)
LEMMA ExtendFirst ==
  ASSUME NEW ref \in Int, ref < 0, NEW ts \in Int
  PROVE  extendTimestamp(ref, ts) = ts
BY DEF extendTimestamp

(* The header tells the reader the masked PTS and the masked DTS, whether  *)
(* or not it carries the DTS.                                              *)
LEMMA HeaderCarries ==
  ASSUME NEW p \in Int, NEW d \in Int
  PROVE  LET hdr == appendPESHeader(p, d)
         IN /\ hdr.pts = p % Wrap
            /\ (IF hdr.ptsDTS = "both" THEN hdr.dts ELSE hdr.pts) = d % Wrap
BY DEF appendPESHeader

(* One unit received: the unwrapped stamps are the given ones plus b, when *)
(* that puts the DTS within half a cycle of the reference.                 *)
LEMMA ReceiveUnit ==
  ASSUME TypeOK,
         NEW d \in Int, NEW c \in Reorders, NEW b \in Int,
         b % Wrap = 0, d + b >= 0,
         extendTimestamp(lastTS, d % Wrap) = d + b,
         Receive(d + c, d)
  PROVE  /\ sent' = [pts |-> d + c, dts |-> d]
         /\ lastTS' = d + b /\ dts' = d + b /\ pts' = d + c + b
<1>h. Half \in Int /\ Half > 0 /\ c \in Int /\ 0 <= c /\ c < Half
  BY WrapAssumption, ReordersAssumption DEF Half
<1>1. lastTS' = d + b /\ dts' = d + b /\ sent' = [pts |-> d + c, dts |-> d]
  BY <1>h, HeaderCarries DEF Receive
<1>2. pts' = extendTimestamp(d + b, (d + c) % Wrap)
  BY <1>h, <1>1, HeaderCarries DEF Receive
<1>3. (d + c) % Wrap = (d + c + b) % Wrap
  BY <1>h, ModShift
<1>4. extendTimestamp(d + b, (d + c + b) % Wrap) = d + c + b
  BY <1>h, Extend
<1> QED BY <1>1, <1>2, <1>3, <1>4

(* Init establishes the inductive invariant.                               *)
LEMMA InitInv == Init => Inv
BY DEF Init, Inv, TypeOK, Tracking

(* Every step preserves it.                                                *)
LEMMA NextInv == Inv /\ [Next]_vars => Inv'
<1> SUFFICES ASSUME Inv, [Next]_vars PROVE Inv'
  OBVIOUS
<1>h. Half \in Int /\ Wrap = 2 * Half /\ Half > 0
  BY WrapAssumption DEF Half
<1>1. ASSUME NEW d \in First, NEW c \in Reorders, FirstUnit(d, c)
      PROVE  Inv'
  <2> DEFINE b == (d % Wrap) - d
  <2>1. d \in Int /\ c \in Int /\ lastTS \in Int /\ TypeOK
    BY FirstAssumption, ReordersAssumption DEF Inv, TypeOK
  <2>2. PICK q \in Int, r \in Int :
          0 <= r /\ r < Wrap /\ d = q * Wrap + r /\ r = d % Wrap
    BY <2>1, DivMod
  <2>3. b \in Int /\ d + b = d % Wrap /\ d + b >= 0
    BY <2>1, <2>2
  <2>4. b % Wrap = 0
    <3>1. b = (0 - q) * Wrap + 0
      BY <2>1, <2>2, WrapAssumption
    <3>2. ((0 - q) * Wrap + 0) % Wrap = 0
      BY ModUnique, WrapAssumption, 0 - q \in Int
    <3> QED BY <3>1, <3>2
  <2>5. extendTimestamp(lastTS, d % Wrap) = d + b
    BY <1>1, <2>1, <2>2, <2>3, ExtendFirst DEF FirstUnit
  <2>6. /\ sent' = [pts |-> d + c, dts |-> d]
        /\ lastTS' = d + b /\ dts' = d + b /\ pts' = d + c + b
    <3> HIDE DEF b
    <3> QED BY <1>1, <2>1, <2>3, <2>4, <2>5, ReceiveUnit DEF FirstUnit
  <2>7. base' = b
    BY <1>1 DEF FirstUnit
  <2> HIDE DEF b
  <2> QED BY <1>1, <2>1, <2>3, <2>4, <2>6, <2>7
          DEF Inv, TypeOK, Tracking, FirstUnit
<1>2. ASSUME NEW j \in Jumps, NEW c \in Reorders, NextUnit(j, c)
      PROVE  Inv'
  <2> DEFINE d == sent.dts + j
  <2>1. /\ c \in Int /\ j \in Int /\ -Half < j /\ j < Half
        /\ lastTS \in Int /\ lastTS >= 0 /\ base \in Int /\ sent.dts \in Int
        /\ d \in Int /\ TypeOK /\ dts \in Int
    BY <1>2, <1>h, JumpsAssumption, ReordersAssumption DEF Inv, TypeOK, NextUnit
  <2>2. lastTS = sent.dts + base /\ base % Wrap = 0 /\ dts = sent.dts + base
    BY <2>1 DEF Inv, Tracking
  <2>3. d + base = lastTS + j
    BY <2>1, <2>2
  <2>4. extendTimestamp(lastTS, (d + base) % Wrap) = d + base
    BY <1>h, <2>1, <2>3, Extend
  <2>5. extendTimestamp(lastTS, d % Wrap) = d + base
    BY <2>1, <2>2, <2>4, ModShift
  <2>6. Receive(d + c, d) /\ base' = base
    BY <1>2 DEF NextUnit
  <2> HIDE DEF d
  <2>7. CASE d + base >= 0
    <3>1. /\ sent' = [pts |-> d + c, dts |-> d]
          /\ lastTS' = d + base /\ dts' = d + base /\ pts' = d + c + base
      BY <2>1, <2>2, <2>5, <2>6, <2>7, ReceiveUnit
    <3> QED BY <2>1, <2>2, <2>6, <3>1 DEF Inv, TypeOK, Tracking
  <2>8. CASE d + base < 0
    <3>1. /\ sent' = [pts |-> d + c, dts |-> d]
          /\ lastTS' = d + base /\ dts' = d + base
          /\ pts' = extendTimestamp(d + base, (d + c) % Wrap)
      BY <2>1, <2>5, <2>6, HeaderCarries DEF Receive
    <3>2. (d + c) % Wrap \in Int
      BY <2>1, WrapAssumption
    <3>3. pts' \in Int
      BY <2>1, <2>8, <3>1, <3>2, ExtendFirst
    <3> QED BY <2>1, <2>6, <2>8, <3>1, <3>3 DEF Inv, TypeOK, Tracking
  <2> QED BY <2>1, <2>7, <2>8
<1>3. CASE UNCHANGED vars
  BY <1>3 DEF Inv, TypeOK, Tracking, vars
<1> QED BY <1>1, <1>2, <1>3 DEF Next

(* Type correctness of the two timelines.                                  *)
THEOREM TypeCorrect == Spec => []TypeOK
<1>1. Inv => TypeOK
  BY DEF Inv
<1> QED BY InitInv, NextInv, <1>1, PTL DEF Spec

(* However often the 33-bit clock wraps, whatever the encoder's epoch and  *)
(* however many units are lost in between (as long as less than half a     *)
(* cycle is), every unwrapped DTS and PTS is off by one constant, until    *)
(* the timeline steps back before the reader's zero.                       *)
THEOREM TrackingHolds == Spec => []Tracking
<1>1. Inv => Tracking
  BY DEF Inv
<1> QED BY InitInv, NextInv, <1>1, PTL DEF Spec
=============================================================================
