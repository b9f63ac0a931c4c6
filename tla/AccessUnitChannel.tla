-------------------------- MODULE AccessUnitChannel --------------------------
(***************************************************************************)
(* What a pair of mpegts.Writer and mpegts.Reader promises to its users,   *)
(* whatever transport packets are refused, lost or repeated between them:  *)
(* on every track the units that come out are units that went in, whole,   *)
(* in order and at most once.  Units may be missing.  When the input ends  *)
(* each track may give out one last unit that was cut short.               *)
(***************************************************************************)
EXTENDS Integers, Sequences

CONSTANT Tracks, Cut   \* Cut: the content of a unit that was cut short

VARIABLES accepted,    \* units the writer accepted: sequence of [track]
          out,         \* per track, the units given out, as positions of accepted
          ended        \* the input has ended

avars == <<accepted, out, ended>>

Init ==
  /\ accepted = << >>
  /\ out = [t \in Tracks |-> << >>]
  /\ ended = FALSE

Accept(t) ==
  /\ accepted' = Append(accepted, t)
  /\ UNCHANGED <<out, ended>>

Later(t, a) == out[t] = << >> \/ (Cut # out[t][Len(out[t])] /\ a > out[t][Len(out[t])])

Deliver(t, a) ==
  /\ accepted[a] = t
  /\ Later(t, a)
  /\ out' = [out EXCEPT ![t] = Append(@, a)]
  /\ UNCHANGED <<accepted, ended>>

DeliverCut(t) ==
  /\ ended
  /\ Cut \notin {out[t][k] : k \in DOMAIN out[t]}
  /\ out' = [out EXCEPT ![t] = Append(@, Cut)]
  /\ UNCHANGED <<accepted, ended>>

End ==
  /\ ~ended
  /\ ended' = TRUE
  /\ UNCHANGED <<accepted, out>>

Next ==
  \/ \E t \in Tracks : Accept(t) \/ DeliverCut(t)
  \/ \E t \in Tracks, a \in DOMAIN accepted : Deliver(t, a)
  \/ End

Spec == Init /\ [][Next]_avars
=============================================================================
