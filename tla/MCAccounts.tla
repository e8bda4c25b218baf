----------------------------- MODULE MCAccounts -----------------------------
(* Two clients behind one address, so that every key is contended, and so  *)
(* that clients and addresses can be exchanged.                            *)
EXTENDS Accounts, TLC

CONSTANTS c1, c2, here, campus, e1, e2

MCConnection == (c1 :> here) @@ (c2 :> here)
MCNetwork    == (c1 :> campus) @@ (c2 :> campus)
MCCeiling    == [connection |-> 2, network |-> 2, server |-> 1] @@ ("sign-in" :> 1)

Alike == Permutations(Clients) \cup Permutations(Emails)
=============================================================================
