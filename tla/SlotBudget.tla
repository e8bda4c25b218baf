----------------------------- MODULE SlotBudget -----------------------------
(***************************************************************************)
(* What createRateLimiter (packages/server/src/auth/rateLimit.ts) promises *)
(* a route, without dates and without the sweep: a slot is taken only      *)
(* while the key has room, counting the slots others hold; what is given   *)
(* back was held; an entry comes from a slot or is recorded while there is *)
(* room; and all else that happens only forgets entries.                   *)
(* RateLimiter implements it, and Accounts relies on it.                   *)
(***************************************************************************)
EXTENDS Naturals

CONSTANTS
  Keys,     (* what attempts are counted under                              *)
  Allowed   (* [Keys -> how many entries and slots a key may have]          *)

VARIABLES
  held,     (* per key, the slots of the attempts in flight                 *)
  spent     (* per key, the entries inside the window                       *)

vars == <<held, spent>>

Free(k) == held[k] + spent[k] < Allowed[k]

(* At most one entry more on each of some keys, and no more on the others. *)
AtMostOneMore(ks) ==
  /\ spent' \in [Keys -> Nat]
  /\ \A k \in Keys : spent'[k] <= IF k \in ks THEN spent[k] + 1 ELSE spent[k]

Init ==
  /\ held = [k \in Keys |-> 0]
  /\ spent = [k \in Keys |-> 0]

(* begin(), on every key at once.                                          *)
Takes(ks) ==
  /\ \A k \in ks : Free(k)
  /\ held' = [k \in Keys |-> IF k \in ks THEN held[k] + 1 ELSE held[k]]
  /\ UNCHANGED spent

(* charge(), release() or reset() and release().                           *)
GivesBack(ks) ==
  /\ \A k \in ks : held[k] > 0
  /\ held' = [k \in Keys |-> IF k \in ks THEN held[k] - 1 ELSE held[k]]
  /\ AtMostOneMore(ks)

(* check() and recordFailure() in one breath.                              *)
Records(k) ==
  /\ Free(k)
  /\ AtMostOneMore({k})
  /\ UNCHANGED held

(* The window moves on.                                                    *)
Forgets ==
  /\ AtMostOneMore({})
  /\ UNCHANGED held

(* The process is replaced: a limiter lives in memory.                     *)
Restarts ==
  /\ held' = [k \in Keys |-> 0]
  /\ spent' = [k \in Keys |-> 0]

Next ==
  \/ \E ks \in SUBSET Keys : Takes(ks) \/ GivesBack(ks)
  \/ \E k \in Keys : Records(k)
  \/ Forgets
  \/ Restarts

Spec == Init /\ [][Next]_vars
=============================================================================
