------------------------- MODULE MCConcurrencyGate -------------------------
(* Instances of ConcurrencyGate for TLC.                                    *)
EXTENDS ConcurrencyGate, TLC

CONSTANTS a1, a2, b1, c1, d1

(* One peer sends through both routes and, on one of them, for two origins; *)
(* a second peer sends one request.                                         *)
LaneOf(r) ==
  CASE r \in {a1, a2} -> <<"p", "sign-in", "a">>
    [] r = b1         -> <<"p", "sign-in", "b">>
    [] r = c1         -> <<"p", "sign-up", "c">>
    [] r = d1         -> <<"q", "sign-up", "d">>

Five     == {a1, a2, b1, c1, d1}
LaneFive == [r \in Five |-> LaneOf(r)]
=============================================================================
