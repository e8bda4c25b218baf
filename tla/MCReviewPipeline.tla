------------------------- MODULE MCReviewPipeline -------------------------
(* Small instances of ReviewPipeline.                                      *)
EXTENDS ReviewPipeline, TLC

CONSTANTS p1, p2, t1, t2, past, open, closed, u1, nightly, manual, v1, nothing

Live(t) == [terms |-> t, status |-> open]

\* One programme, published; or nothing published yet.
OneSeed == {[p \in Programs |-> Live(t1)]}
EmptyOrOne == OneSeed \cup {[p \in Programs |-> nothing]}
\* One programme, published; or stored, and suppressed, as a past award.
LiveOrPast == OneSeed \cup {[p \in Programs |-> Live(past)]}
===========================================================================
