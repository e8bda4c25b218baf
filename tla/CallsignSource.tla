---------------------------- MODULE CallsignSource ----------------------------
(***************************************************************************)
(* The server's half of the callsign lookup: POST /callsign/lookup         *)
(* (packages/server/src/api/callsign.ts), the question it may put to       *)
(* callook.info (callsign/callook.ts) and the hold and lane it keeps for   *)
(* that host (callsign/cooldown.ts).                                       *)
(*                                                                         *)
(* A press is one request of one user; several run at once.  The handler   *)
(* is synchronous up to the transport's await: it decides twice whether    *)
(* the press would reach the source (once to charge it, once to send it),  *)
(* reading the clock each time.  Time is counted in units; AwaitTransport  *)
(* and AwaitBody are the two awaits, both under one AbortSignal.           *)
(***************************************************************************)
EXTENDS Integers, FiniteSets

CONSTANTS
  Presses,     (* presses that may be unanswered at once                    *)
  Owner,       (* [Presses -> who pressed]                                  *)
  Ration,      (* LOOKUP_MAX_PER_WINDOW                                     *)
  FloorWait,   (* COOLDOWN_FLOOR_MS, in units                               *)
  CapWait,     (* COOLDOWN_CAP_MS                                           *)
  Timeout,     (* the AbortSignal's delay                                   *)
  RetryAfters  (* what a Retry-After header may ask for                     *)

Users == {Owner[p] : p \in Presses}

ASSUME CallsignAssumption ==
  /\ IsFiniteSet(Presses)
  /\ Ration \in Nat \ {0}
  /\ FloorWait \in Nat \ {0}
  /\ CapWait \in Nat /\ FloorWait <= CapWait
  /\ Timeout \in Nat \ {0}
  /\ RetryAfters \subseteq Nat

VARIABLES
  phase,   (* where each press is                                           *)
  age,     (* units since its AbortSignal was made                          *)
  asking,  (* the host's lane is taken (HostCooldown.asking)                *)
  hold,    (* units the host's hold has left (HostCooldown.until)           *)
  spent,   (* questions charged to a user in the current window             *)
  owed     (* what callook.info asked for and this process has not waited   *)

vars == <<phase, age, asking, hold, spent, owed>>

Phases == {"idle", "transport", "body"}

InFlight == {p \in Presses : phase[p] # "idle"}

(* What refuseBeforeRequest tells apart without a clock: a callsign of     *)
(* another country, no callsign, a base URL on the blocklist.              *)
PressKinds == {"foreign", "malformed", "blocked", "us"}

(* wouldReachTheSource, for a clock that reads as the hold now stands.     *)
WouldReach(kind) == kind = "us" /\ hold = 0 /\ ~asking

Larger(a, b)  == IF a > b THEN a ELSE b
Smaller(a, b) == IF a < b THEN a ELSE b

Clamp(wait)   == Smaller(CapWait, Larger(FloorWait, wait))

Sends(p) ==
  /\ asking' = TRUE
  /\ phase' = [phase EXCEPT ![p] = "transport"]
  /\ age' = [age EXCEPT ![p] = 0]

(* However askTheSource ends, the finally reopens the lane.                *)
Settled(p) ==
  /\ phase' = [phase EXCEPT ![p] = "idle"]
  /\ age' = [age EXCEPT ![p] = 0]
  /\ asking' = FALSE

-----------------------------------------------------------------------------
(* POST /callsign/lookup.                                                  *)

(* Mutant: every press during a hold starts the hold again.                *)
PressRefusedRenews(p, kind) ==
  /\ phase[p] = "idle"
  /\ ~WouldReach(kind)
  /\ hold' = IF hold > 0 THEN CapWait ELSE 0
  /\ UNCHANGED <<phase, age, asking, spent, owed>>

(* Answered from this process: not_us, malformed, or unavailable.          *)
PressRefused(p, kind) ==
  /\ phase[p] = "idle"
  /\ ~WouldReach(kind)
  /\ UNCHANGED vars

PressRationed(p) ==
  /\ phase[p] = "idle"
  /\ WouldReach("us")
  /\ spent[Owner[p]] >= Ration
  /\ UNCHANGED vars

PressSends(p) ==
  /\ phase[p] = "idle"
  /\ WouldReach("us")
  /\ spent[Owner[p]] < Ration
  /\ spent' = [spent EXCEPT ![Owner[p]] = spent[Owner[p]] + 1]
  /\ Sends(p)
  /\ UNCHANGED <<hold, owed>>

(* The hold's last instant: over when lookupCallsign reads the clock, but  *)
(* not yet when the route did, so the press is sent and was not charged.   *)
PressAtHoldEnd(p) ==
  /\ phase[p] = "idle"
  /\ hold = 1 /\ ~asking
  /\ hold' = 0
  /\ owed' = IF owed > 0 THEN owed - 1 ELSE 0
  /\ Sends(p)
  /\ UNCHANGED spent

-----------------------------------------------------------------------------
(* askTheSource.                                                           *)

(* The transport rejects: the network, or the AbortSignal.                 *)
TransportFails(p) ==
  /\ phase[p] = "transport"
  /\ Settled(p)
  /\ UNCHANGED <<hold, spent, owed>>

(* Mutant: a 503 that says when to come back is read as mere trouble.      *)
AskedToWaitOnly429(p, status, wait) ==
  /\ phase[p] = "transport"
  /\ hold' = IF status = 429 THEN Larger(hold, Clamp(wait)) ELSE hold
  /\ owed' = Smaller(CapWait, wait)
  /\ Settled(p)
  /\ UNCHANGED spent

(* A 429, or a 503 with a Retry-After: the hold is set and never shortened.*)
(* A 429 without a readable header asks for the floor.                     *)
AskedToWait(p, status, wait) ==
  /\ phase[p] = "transport"
  /\ hold' = Larger(hold, Clamp(wait))
  /\ owed' = Smaller(CapWait, wait)
  /\ Settled(p)
  /\ UNCHANGED spent

Asks(p) ==
  \/ \E wait \in RetryAfters : AskedToWait(p, 503, wait)
  \/ \E wait \in RetryAfters \cup {FloorWait} : AskedToWait(p, 429, wait)

(* A redirect, a bare 503, or any other status but 200.                    *)
NotARecord(p) ==
  /\ phase[p] = "transport"
  /\ Settled(p)
  /\ UNCHANGED <<hold, spent, owed>>

BodyFollows(p) ==
  /\ phase[p] = "transport"
  /\ phase' = [phase EXCEPT ![p] = "body"]
  /\ UNCHANGED <<age, asking, hold, spent, owed>>

(* The body arrives, or never does; what it says (UPDATING, INVALID, a     *)
(* record, nothing readable) decides only the answer.                      *)
BodyEnds(p) ==
  /\ phase[p] = "body"
  /\ Settled(p)
  /\ UNCHANGED <<hold, spent, owed>>

-----------------------------------------------------------------------------
(* A unit of time.  No AbortSignal lets one pass beyond its delay.         *)
Tick ==
  /\ \A p \in InFlight : age[p] < Timeout
  /\ hold > 0 \/ owed > 0 \/ InFlight # {}
  /\ hold' = IF hold > 0 THEN hold - 1 ELSE 0
  /\ owed' = IF owed > 0 THEN owed - 1 ELSE 0
  /\ age' = [p \in Presses |-> IF p \in InFlight THEN age[p] + 1 ELSE age[p]]
  /\ UNCHANGED <<phase, asking, spent>>

(* A charged question leaves its user's window.                            *)
WindowPasses(u) ==
  /\ spent[u] > 0
  /\ spent' = [spent EXCEPT ![u] = spent[u] - 1]
  /\ UNCHANGED <<phase, age, asking, hold, owed>>

(* A new process knows of no question, no hold and no ration.              *)
Restart ==
  /\ phase' = [p \in Presses |-> "idle"]
  /\ asking' = FALSE
  /\ hold' = 0
  /\ owed' = 0
  /\ spent' = [u \in Users |-> 0]
  /\ age' = [p \in Presses |-> 0]

SourceAnswers(p) ==
  \/ TransportFails(p) \/ Asks(p) \/ NotARecord(p) \/ BodyFollows(p)
  \/ BodyEnds(p)

Init ==
  /\ phase = [p \in Presses |-> "idle"]
  /\ age = [p \in Presses |-> 0]
  /\ asking = FALSE
  /\ hold = 0
  /\ spent = [u \in Users |-> 0]
  /\ owed = 0

Next ==
  \/ \E p \in Presses :
       \/ \E kind \in PressKinds : PressRefused(p, kind)
       \/ PressRationed(p)
       \/ PressSends(p)
       \/ PressAtHoldEnd(p)
       \/ SourceAnswers(p)
  \/ Tick
  \/ \E u \in Users : WindowPasses(u)
  \/ Restart

Spec == Init /\ [][Next]_vars

(* The AbortSignal ends every wait, and clocks run.                        *)
Fairness ==
  /\ \A p \in Presses : WF_vars(SourceAnswers(p))
  /\ WF_vars(Tick)

FairSpec == Spec /\ Fairness

-----------------------------------------------------------------------------
(* Every variable keeps its type.                                          *)
TypeOK ==
  /\ phase \in [Presses -> Phases]
  /\ age \in [Presses -> 0..Timeout]
  /\ asking \in BOOLEAN
  /\ hold \in 0..CapWait
  /\ spent \in [Users -> 0..Ration]
  /\ owed \in 0..CapWait

(* At most one question is in flight, the lane is taken exactly while it   *)
(* is, and every way out of askTheSource reopens it (beginAsking and the   *)
(* finally in lookupCallsign).                                             *)
OneQuestionAtATime ==
  /\ \A p, q \in InFlight : p = q
  /\ asking <=> InFlight # {}

(* No question leaves before this process has waited as long as            *)
(* callook.info last asked it to, up to the day's cap, whichever answer    *)
(* asked and however long the answers before it did.                       *)
HoldIsHonoured == [][asking' /\ ~asking => owed' = 0]_vars

(* A user's ration is charged by the press that sends a question and by no *)
(* other: a foreign or mistyped callsign, a held host and a busy lane cost *)
(* nothing, and a question goes uncharged only in the instant a hold ends. *)
ChargedIffAsked ==
  [][\A u \in Users :
       spent'[u] > spent[u]
         <=> /\ hold = 0
             /\ \E p \in Presses : /\ Owner[p] = u
                                   /\ phase[p] = "idle" /\ phase'[p] = "transport"]_vars

(* The source can be asked again, again and again: no answer, timeout or   *)
(* hold closes the lookup for the life of the process.                     *)
LookupReopens == []<>~asking /\ []<>(hold = 0)
=============================================================================
