----------------------------- MODULE MCNalFile -----------------------------
EXTENDS NalFile

(* Zeros, ones and SEI headers in every order behind either start code;    *)
(* short streams with slices, delimiters, random access points, and        *)
(* streams without a prefix.                                               *)
MCStreams(c) ==
  LET sei   == IF c = "H264" THEN 6 ELSE 78
      aud   == IF c = "H264" THEN 9 ELSE 70
      idr   == IF c = "H264" THEN 101 ELSE 38
      Words(S, n) == UNION {[1..m -> S] : m \in 0..n}
  IN {p \o w : p \in {<<0, 0, 1>>, <<0, 0, 0, 1>>}, w \in Words({0, 1, sei}, 6)}
     \cup {<<0, 0, 1, u, 1, 0, 0, 1, v>> \o w :
             u \in {aud, idr, sei}, v \in {aud, idr, sei}, w \in Words({0, 1, 2}, 2)}
     \cup Words({0, 1, 2}, 4)

One(u) == [bytes |-> u, nals |-> <<u>>, opens |-> <<u>>]

(* Single units, aggregation packets with a parameter set first or behind  *)
(* another unit, and a picture in two fragments.                           *)
MCPayloads(c) ==
  IF c = "H264"
  THEN {One(<<65, 2, 3, 4>>), One(<<6, 5, 5, 5>>), One(<<103, 1, 0, 5>>),
        [bytes |-> <<24, 0, 2, 103, 9, 0, 2, 6, 9>>,
         nals  |-> << <<103, 9>>, <<6, 9>> >>, opens |-> << <<103, 9>>, <<6, 9>> >>],
        [bytes |-> <<24, 0, 2, 6, 9, 0, 2, 103, 9>>,
         nals  |-> << <<6, 9>>, <<103, 9>> >>, opens |-> << <<6, 9>>, <<103, 9>> >>]}
  ELSE {One(<<2, 1, 7>>), One(<<78, 1, 7>>),
        [bytes |-> <<96, 1, 0, 2, 78, 1, 0, 0, 0, 2, 64, 1>>,
         nals  |-> << <<78, 1>>, <<64, 1>> >>, opens |-> << <<78, 1>>, <<64, 1>> >>],
        [bytes |-> <<98, 1, 147, 7>>, nals |-> << >>, opens |-> << <<38, 1, 7, 8>> >>],
        [bytes |-> <<98, 1, 83, 8>>, nals |-> << <<38, 1, 7, 8>> >>, opens |-> << >>]}
=============================================================================
