------------------------------- MODULE Stream -------------------------------
(***************************************************************************)
(* What a byte channel of this code base promises, whatever its locks and  *)
(* wake-ups: items are accepted until the stream is closed, and the items  *)
(* delivered are at all times the first ones accepted, in their order.     *)
(***************************************************************************)
EXTENDS Integers, Sequences

VARIABLES
    accepted,   \* the items accepted so far
    delivered,  \* the items delivered so far
    ended       \* the stream accepts nothing any more

vars == <<accepted, delivered, ended>>

\* s is an initial part of t.
Prefix(s, t) == Len(s) <= Len(t) /\ \A i \in 1..Len(s) : s[i] = t[i]

Init == accepted = <<>> /\ delivered = <<>> /\ ended = FALSE

Accept ==
    /\ ~ended
    /\ Prefix(accepted, accepted') /\ Len(accepted) < Len(accepted')
    /\ UNCHANGED <<delivered, ended>>

Deliver ==
    /\ Prefix(delivered, delivered') /\ Len(delivered) < Len(delivered')
    /\ Prefix(delivered', accepted)
    /\ UNCHANGED <<accepted, ended>>

End == ended' = TRUE /\ UNCHANGED <<accepted, delivered>>

Next == Accept \/ Deliver \/ End

Spec == Init /\ [][Next]_vars
=============================================================================
