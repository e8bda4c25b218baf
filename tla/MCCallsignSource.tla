------------------------- MODULE MCCallsignSource -------------------------
(* One user with two windows open, and another user.                       *)
EXTENDS CallsignSource, TLC

CONSTANTS p1, p2, p3, ann, ben

MCOwner       == (p1 :> ann) @@ (p2 :> ann) @@ (p3 :> ben)
MCRetryAfters == {0, 3, 9}
=============================================================================
