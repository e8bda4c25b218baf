----------------------------- MODULE RateLimiter -----------------------------
(***************************************************************************)
(* The sliding-window budget of packages/server/src/auth/rateLimit.ts      *)
(* (createRateLimiter), as its three kinds of caller use it:               *)
(*   "ladder"  the registration rungs: begin, then charge once an account  *)
(*             exists, release in a finally; the budget counts successes   *)
(*   "login"   sign-in: begin, charge on a wrong password, reset on a      *)
(*             right one, release in a finally                             *)
(*   "ration"  callsign lookups and calendar feeds: check, then            *)
(*             recordFailure with no await between them                    *)
(* A tick of the clock is one second, the unit of retryAfterSec.           *)
(***************************************************************************)
EXTENDS Integers, Sequences, FiniteSets

CONSTANTS
  Attempts,     (* requests that meet the limiter, each once                *)
  Keys,         (* the keys requests are counted under                      *)
  KeyOf,        (* [Attempts -> Keys]                                       *)
  Uses,         (* which of the three callers to consider                   *)
  Window,       (* windowMs                                                 *)
  MaxFailures,  (* maxFailures                                              *)
  SweepFloor,   (* LIMITER_SWEEP_ABOVE                                      *)
  MaxTime       (* bound on the clock                                       *)

ASSUME LimiterAssumption ==
  /\ IsFiniteSet(Attempts) /\ IsFiniteSet(Keys) /\ KeyOf \in [Attempts -> Keys]
  /\ Uses \subseteq {"ladder", "login", "ration"}
  /\ Window \in Nat \ {0} /\ MaxFailures \in Nat \ {0}
  /\ SweepFloor \in Nat \ {0} /\ MaxTime \in Nat

VARIABLES
  use,         (* the caller this limiter was created for                  *)
  now,
  phase,       (* where each attempt is                                     *)
  start,       (* when it called begin (or recordFailure)                   *)
  failures,    (* per key, the recorded timestamps in the order recorded    *)
  inFlight,    (* per key, the start times of the slots held                *)
  sweepAbove,  (* keys above which the next new key sweeps the map          *)
  promise,     (* history: per key, the earliest moment a refusal has said  *)
               (* a slot frees, since a slot was last taken; 0 when none    *)
  lost         (* history: the keys a sweep took with an entry in its window*)

vars == <<use, now, phase, start, failures, inFlight, sweepAbove, promise, lost>>

Times == 0..MaxTime
Least(x, y)    == IF x < y THEN x ELSE y
Greatest(x, y) == IF x > y THEN x ELSE y
On(k) == {a \in Attempts : KeyOf[a] = k}

-----------------------------------------------------------------------------
(* What stands at some places of a sequence, in its order.                 *)
Filtered(s, places) ==
  [j \in 1..Cardinality(places) |->
     s[CHOOSE i \in places : Cardinality({h \in places : h <= i}) = j]]

Young(s, t) == {i \in 1..Len(s) : t - s[i] < Window}

(* recent(): what a key still holds of the window that ends at t.          *)
Recent(k, t) == Filtered(failures[k], Young(failures[k], t))

(* Mutant: check-then-act, blind to the attempts still running.            *)
OpenRecordedOnly(k, t) == Len(Recent(k, t)) < MaxFailures

(* decide(): is the budget open, and if it is shut, the wait quoted: until  *)
(* the first recorded entry leaves the window or, on the ladder, the first  *)
(* slot held does.  Only running attempts on a failure budget: one second.  *)
Open(k, t) == Len(Recent(k, t)) + Len(inFlight[k]) < MaxFailures

OldestSlots(k, t) ==
  {s[1] : s \in {Recent(k, t)} \ {<<>>}} \cup
  {s[1] : s \in (IF use = "ladder" THEN {inFlight[k]} \ {<<>>} ELSE {})}

RetryAfter(k, t) ==
  IF OldestSlots(k, t) = {} THEN 1
  ELSE LET oldest == CHOOSE x \in OldestSlots(k, t) : \A y \in OldestSlots(k, t) : x <= y
       IN  Greatest(1, Window - (t - oldest))

Held(f) == {k \in Keys : f[k] # <<>>}

(* Mutant: the sweep empties the map.                                      *)
SweepAll(f, t) ==
  IF Cardinality(Held(f)) < sweepAbove THEN f ELSE [k \in Keys |-> <<>>]

(* sweep(): with sweepAbove keys in the map, drop each key whose last       *)
(* recorded entry has left the window that ends at t.                       *)
Sweep(f, t) ==
  IF Cardinality(Held(f)) < sweepAbove THEN f
  ELSE [k \in Keys |-> IF f[k] # <<>> /\ t - f[k][Len(f[k])] >= Window THEN <<>> ELSE f[k]]

(* record(): prune the key, sweep if it is new to the map, append.         *)
Record(k, at) ==
  LET hits   == Recent(k, at)
      pruned == [failures EXCEPT ![k] = hits]
      swept  == IF hits = <<>> THEN Sweep(pruned, at) ELSE pruned
  IN  /\ failures' = [swept EXCEPT ![k] = Append(hits, at)]
      /\ sweepAbove' = IF hits = <<>> /\ Cardinality(Held(pruned)) >= sweepAbove
                       THEN Greatest(SweepFloor, 2 * Cardinality(Held(swept)))
                       ELSE sweepAbove
      /\ lost' = lost \cup {j \in Keys : swept[j] = <<>> /\ Young(failures[j], now) # {}}

Places(s, x) == {i \in 1..Len(s) : s[i] = x}
Without(s, i) == Filtered(s, (1..Len(s)) \ {i})

(* release(): give back one slot, found by the moment it was taken.        *)
RemoveOne(s, at) ==
  IF Places(s, at) = {} THEN s
  ELSE Without(s, CHOOSE i \in Places(s, at) : \A j \in Places(s, at) : i <= j)

-----------------------------------------------------------------------------
(* begin() with the budget open: the slot is claimed as it is read.        *)
Begin(a) ==
  LET k == KeyOf[a] IN
  /\ use # "ration" /\ phase[a] = "idle" /\ Open(k, now)
  /\ failures' = [failures EXCEPT ![k] = Recent(k, now)]
  /\ inFlight' = [inFlight EXCEPT ![k] = Append(@, now)]
  /\ phase' = [phase EXCEPT ![a] = "running"]
  /\ start' = [start EXCEPT ![a] = now]
  /\ promise' = [promise EXCEPT ![k] = 0]
  /\ UNCHANGED <<use, now, sweepAbove, lost>>

(* begin() or check() with the budget shut: nothing is recorded, and the    *)
(* caller is told when to come back.                                        *)
Refuse(a) ==
  LET k    == KeyOf[a]
      when == now + RetryAfter(k, now)
  IN
  /\ phase[a] = "idle" /\ ~Open(k, now)
  /\ failures' = [failures EXCEPT ![k] = Recent(k, now)]
  /\ promise' = [promise EXCEPT ![k] = IF @ = 0 THEN when ELSE Least(@, when)]
  /\ UNCHANGED <<use, now, phase, start, inFlight, sweepAbove, lost>>

(* Mutants: the entry is dated from the moment the attempt settles; or it   *)
(* records when the entry is to leave the window.                           *)
ChargeAtSettle(a) ==
  LET k == KeyOf[a] IN
  /\ phase[a] = "running"
  /\ inFlight' = [inFlight EXCEPT ![k] = RemoveOne(@, start[a])]
  /\ Record(k, now)
  /\ phase' = [phase EXCEPT ![a] = "charged"]
  /\ UNCHANGED <<use, now, start, promise>>

(* charge(): the slot held becomes an entry dated from the attempt's start. *)
Charge(a) ==
  LET k == KeyOf[a] IN
  /\ phase[a] = "running"
  /\ inFlight' = [inFlight EXCEPT ![k] = RemoveOne(@, start[a])]
  /\ Record(k, start[a])
  /\ phase' = [phase EXCEPT ![a] = "charged"]
  /\ UNCHANGED <<use, now, start, promise>>

(* Mutant: no settled flag, so charge and release both give a slot back.   *)
ReleaseTwice(a) ==
  LET k == KeyOf[a] IN
  /\ phase[a] = "charged"
  /\ inFlight' = [inFlight EXCEPT ![k] = RemoveOne(@, start[a])]
  /\ phase' = [phase EXCEPT ![a] = "over"]
  /\ UNCHANGED <<use, now, start, failures, sweepAbove, promise, lost>>

(* The finally block of an attempt already charged: settled, so a no-op.   *)
ReleaseCharged(a) ==
  /\ phase[a] = "charged"
  /\ phase' = [phase EXCEPT ![a] = "over"]
  /\ UNCHANGED <<use, now, start, failures, inFlight, sweepAbove, promise, lost>>

(* The finally block of an attempt that charged nothing.                   *)
Release(a) ==
  LET k == KeyOf[a] IN
  /\ phase[a] = "running"
  /\ inFlight' = [inFlight EXCEPT ![k] = RemoveOne(@, start[a])]
  /\ phase' = [phase EXCEPT ![a] = "released"]
  /\ UNCHANGED <<use, now, start, failures, sweepAbove, promise, lost>>

(* A right password: the recorded failures are forgotten, then the finally  *)
(* block releases the slot.                                                 *)
Reset(a) ==
  LET k == KeyOf[a] IN
  /\ use = "login" /\ phase[a] = "running"
  /\ failures' = [failures EXCEPT ![k] = <<>>]
  /\ inFlight' = [inFlight EXCEPT ![k] = RemoveOne(@, start[a])]
  /\ phase' = [b \in Attempts |->
                 IF b = a THEN "released"
                 ELSE IF b \in On(k) /\ phase[b] \in {"charged", "over"} THEN "forgiven"
                 ELSE phase[b]]
  /\ UNCHANGED <<use, now, start, sweepAbove, promise, lost>>

(* check() then recordFailure() in one synchronous breath.                 *)
CheckAndRecord(a) ==
  LET k == KeyOf[a] IN
  /\ use = "ration" /\ phase[a] = "idle" /\ Open(k, now)
  /\ Record(k, now)
  /\ phase' = [phase EXCEPT ![a] = "over"]
  /\ start' = [start EXCEPT ![a] = now]
  /\ promise' = [promise EXCEPT ![k] = 0]
  /\ UNCHANGED <<use, now, inFlight>>

Tick ==
  /\ now < MaxTime
  /\ now' = now + 1
  /\ UNCHANGED <<use, phase, start, failures, inFlight, sweepAbove, promise, lost>>

Init ==
  /\ use \in Uses
  /\ now = 0
  /\ phase = [a \in Attempts |-> "idle"]
  /\ start = [a \in Attempts |-> 0]
  /\ failures = [k \in Keys |-> <<>>]
  /\ inFlight = [k \in Keys |-> <<>>]
  /\ sweepAbove = SweepFloor
  /\ promise = [k \in Keys |-> 0]
  /\ lost = {}

Next ==
  \/ \E a \in Attempts : \/ Begin(a) \/ Refuse(a) \/ Charge(a) \/ ReleaseCharged(a)
                         \/ Release(a) \/ Reset(a) \/ CheckAndRecord(a)
  \/ Tick

Spec == Init /\ [][Next]_vars

-----------------------------------------------------------------------------
TypeOK ==
  /\ use \in Uses /\ now \in Times
  /\ phase \in [Attempts -> {"idle", "running", "charged", "over", "released", "forgiven"}]
  /\ start \in [Attempts -> Times]
  /\ failures \in [Keys -> Seq(Times)] /\ inFlight \in [Keys -> Seq(Times)]
  /\ sweepAbove \in Nat /\ promise \in [Keys -> Nat] /\ lost \subseteq Keys

(* The budget means what it says over every interleaving of attempts that   *)
(* settle in any order: of the attempts on a key that counted, or still     *)
(* may, never more than MaxFailures started within one window.              *)
Counted(k) == {a \in On(k) : phase[a] \in {"running", "charged", "over"}}
WindowBudget ==
  \A k \in Keys \ lost : Cardinality({a \in Counted(k) : now - start[a] < Window}) <= MaxFailures

(* No slot leaks and none is given back twice: the slots held on a key are  *)
(* exactly the start times of its running attempts, oldest first.           *)
SlotsMatchAttempts ==
  \A k \in Keys :
    LET running == {a \in On(k) : phase[a] = "running"} IN
    /\ Len(inFlight[k]) = Cardinality(running)
    /\ \A t \in Times : Cardinality({i \in 1..Len(inFlight[k]) : inFlight[k][i] = t})
                          = Cardinality({a \in running : start[a] = t})
    /\ \A i \in 1..(Len(inFlight[k]) - 1) : inFlight[k][i] <= inFlight[k][i + 1]

(* "The sweep took nothing live with it": an entry leaves the map only when *)
(* it has left the window, or by the reset a right password earns.          *)
LiveKept ==
  \A k \in Keys : \A i \in 1..Len(failures[k]) :
    now - failures[k][i] < Window =>
      \/ \E j \in 1..Len(failures'[k]) : failures'[k][j] = failures[k][i]
      \/ \E a \in On(k) : use = "login" /\ phase[a] = "running" /\ phase'[a] = "released"
SweepSparesLive == [][LiveKept]_vars

(* The same of a ration alone, whose entries are recorded in the order of   *)
(* their dates: there the last entry of a key is its newest.                *)
RationSweepSparesLive == [][use = "ration" => LiveKept]_vars

(* "A caller who waits exactly the wait they were given arrives after that  *)
(* slot has gone": on the ladder, once the moment quoted has come, no slot  *)
(* was taken since and no attempt has outlived the window, the budget is    *)
(* open again.                                                              *)
QuoteIsKept ==
  use = "ladder" =>
    \A k \in Keys :
      (/\ promise[k] # 0 /\ promise[k] <= now
       /\ \A a \in On(k) : phase[a] = "running" => now - start[a] < Window)
      => Open(k, now)

(* The limiter keeps the promise the routes rely on: seen as the slots a    *)
(* key holds and the entries in its window, every call is a step of         *)
(* SlotBudget, whatever order attempts settle in and whatever a sweep takes.*)
Promised == INSTANCE SlotBudget WITH
  Allowed <- [k \in Keys |-> MaxFailures],
  held    <- [k \in Keys |-> Len(inFlight[k])],
  spent   <- [k \in Keys |-> Cardinality(Young(failures[k], now))]

KeepsItsPromise == Promised!Spec
=============================================================================
