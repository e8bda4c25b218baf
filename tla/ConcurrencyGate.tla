--------------------------- MODULE ConcurrencyGate ---------------------------
(***************************************************************************)
(* The gate in front of argon2id (createConcurrencyGate in                 *)
(* packages/server/src/auth/rateLimit.ts): at most MaxConcurrent hashes    *)
(* run, at most MaxQueued requests wait, the slots are handed out          *)
(* round-robin over peers, then over the routes of a peer, then over the   *)
(* origins of a route, and a full queue sheds the heaviest lane.           *)
(*                                                                         *)
(* A group of the round is a prefix of a lane: <<peer>>, <<peer, route>>   *)
(* or <<peer, route, origin>>.  The code keeps the groups in nested        *)
(* JavaScript Maps, which iterate in insertion order; turn[g] is the       *)
(* insertion stamp of group g, so that the front of a Map is its group     *)
(* with the smallest stamp.                                                *)
(***************************************************************************)
EXTENDS Integers, FiniteSets

CONSTANTS
  Requests,       (* calls of run(lane, work), each made at most once       *)
  Lane,           (* [Requests -> <<peer, route, origin>>]                  *)
  MaxConcurrent,  (* how many hashes may run at once                        *)
  MaxQueued       (* how many requests may wait                             *)

Depth == 3

GroupAt(r, d) == [i \in 1..d |-> Lane[r][i]]
Path(r)       == {GroupAt(r, d) : d \in 1..Depth}
Groups        == UNION {Path(r) : r \in Requests}

ASSUME GateAssumption ==
  /\ IsFiniteSet(Requests)
  /\ MaxConcurrent \in Nat \ {0}
  /\ MaxQueued \in Nat \ {0}
  /\ \A r \in Requests : DOMAIN Lane[r] = 1..Depth

VARIABLES
  status,    (* where each request is                                       *)
  running,   (* the slots taken: the code's counter, not a count of status  *)
  seq,       (* arrival stamp of a waiting request                          *)
  turn,      (* insertion stamp of a group in its parent's Map              *)
  newest,    (* highest arrival stamp ever inserted below a group           *)
  clock,     (* the next stamp                                              *)
  overdue,   (* requests that have waited longer than maxWaitMs             *)
  handing,   (* TRUE inside release(): a freed slot looks for its next user *)
  passedBy   (* history: the siblings taken since a group last had its turn *)

vars == <<status, running, seq, turn, newest, clock, overdue, handing, passedBy>>

Statuses == {"idle", "waiting", "running", "done", "shed", "expired"}

WaitingSet == {r \in Requests : status[r] = "waiting"}
RunningSet == {r \in Requests : status[r] = "running"}

Below(W, g)    == {r \in W : g \in Path(r)}
Count(W, g)    == Cardinality(Below(W, g))

(* r and q wait below the same group but in different children of it.      *)
PartAt(r, q, d) ==
  /\ GroupAt(r, d - 1) = GroupAt(q, d - 1)
  /\ GroupAt(r, d) # GroupAt(q, d)

-----------------------------------------------------------------------------
(* Mutant: only a waiter that is still in time is looked for.              *)
IsNextInTime(r) ==
  /\ r \in WaitingSet \ overdue
  /\ \A q \in WaitingSet, d \in 1..Depth :
       PartAt(r, q, d) => turn[GroupAt(r, d)] < turn[GroupAt(q, d)]
  /\ \A q \in WaitingSet : Lane[q] = Lane[r] => seq[r] <= seq[q]

(* takeFrom: the oldest request of the front lane of the front route of the *)
(* front peer.                                                              *)
IsNext(r) ==
  /\ r \in WaitingSet
  /\ \A q \in WaitingSet, d \in 1..Depth :
       PartAt(r, q, d) => turn[GroupAt(r, d)] < turn[GroupAt(q, d)]
  /\ \A q \in WaitingSet : Lane[q] = Lane[r] => seq[r] <= seq[q]

(* Mutant: the newest arrival is turned away, whoever holds the queue.     *)
IsNewest(v, W, nw, sq) == v \in W /\ \A q \in W : sq[q] <= sq[v]

(* heaviestIn: at each level the group with the most waiters, ties going to *)
(* the one inserted into last; in the lane the newest request.              *)
IsHeaviest(v, W, nw, sq) ==
  /\ v \in W
  /\ \A q \in W, d \in 1..Depth :
       PartAt(v, q, d) =>
         LET g == GroupAt(v, d)
             h == GroupAt(q, d)
         IN  \/ Count(W, g) > Count(W, h)
             \/ Count(W, g) = Count(W, h) /\ nw[g] > nw[h]
  /\ \A q \in W : Lane[q] = Lane[v] => sq[q] <= sq[v]

(* insert: a group that did not exist joins at the back of its round.      *)
Insert(r) ==
  /\ seq'    = [seq EXCEPT ![r] = clock]
  /\ newest' = [g \in Groups |-> IF g \in Path(r) THEN clock ELSE newest[g]]
  /\ turn'   = [g \in Groups |->
                  IF g \in Path(r) /\ Below(WaitingSet, g) = {} THEN clock ELSE turn[g]]
  /\ passedBy' = [g \in Groups |->
                  IF g \in Path(r) /\ Below(WaitingSet, g) = {} THEN {} ELSE passedBy[g]]
  /\ clock' = clock + 1

(* Mutant: a group that was served keeps its place at the front.           *)
RotateNot(r) ==
  /\ passedBy' = [h \in Groups |->
       IF h \in Path(r) THEN {}
       ELSE passedBy[h] \cup
              {GroupAt(r, d) : d \in {e \in 1..Depth :
                  \E q \in Requests : h = GroupAt(q, e) /\ PartAt(r, q, e)}}]
  /\ clock' = clock + 1
  /\ UNCHANGED turn

(* A group taken from goes to the back of its parent's round.              *)
Rotate(r) ==
  /\ turn' = [g \in Groups |-> IF g \in Path(r) THEN clock ELSE turn[g]]
  /\ passedBy' = [h \in Groups |->
       IF h \in Path(r) THEN {}
       ELSE passedBy[h] \cup
              {GroupAt(r, d) : d \in {e \in 1..Depth :
                  \E q \in Requests : h = GroupAt(q, e) /\ PartAt(r, q, e)}}]
  /\ clock' = clock + 1

-----------------------------------------------------------------------------
(* run(lane, work) finds a free slot.                                      *)
Start(r) ==
  /\ status[r] = "idle" /\ ~handing
  /\ running < MaxConcurrent
  /\ running' = running + 1
  /\ status' = [status EXCEPT ![r] = "running"]
  /\ UNCHANGED <<seq, turn, newest, clock, overdue, handing, passedBy>>

(* run(lane, work) finds none: enqueue first, then shed the heaviest if the *)
(* queue has outgrown its ceiling.                                          *)
Enqueue(r) ==
  /\ status[r] = "idle" /\ ~handing
  /\ ~ (running < MaxConcurrent)
  /\ Insert(r)
  /\ LET W == WaitingSet \cup {r} IN
       IF Cardinality(W) > MaxQueued
       THEN \E v \in W :
              /\ IsHeaviest(v, W, newest', seq')
              /\ status' = [status EXCEPT ![r] = "waiting", ![v] = "shed"]
              /\ overdue' = overdue \ {v}
       ELSE /\ status' = [status EXCEPT ![r] = "waiting"]
            /\ UNCHANGED overdue
  /\ UNCHANGED <<running, handing>>

(* Mutant: the slot is dropped on settling, to be claimed again.           *)
FinishDropsSlot(r) ==
  /\ status[r] = "running" /\ ~handing
  /\ status' = [status EXCEPT ![r] = "done"]
  /\ running' = running - 1
  /\ handing' = TRUE
  /\ UNCHANGED <<seq, turn, newest, clock, overdue, passedBy>>

(* The work settles, and its finally block enters release().               *)
Finish(r) ==
  /\ status[r] = "running" /\ ~handing
  /\ status' = [status EXCEPT ![r] = "done"]
  /\ handing' = TRUE
  /\ UNCHANGED <<running, seq, turn, newest, clock, overdue, passedBy>>

(* release(): the slot goes straight to the next waiter, and running does   *)
(* not move.                                                                *)
Admit(r) ==
  /\ handing /\ IsNext(r) /\ r \notin overdue
  /\ Rotate(r)
  /\ status' = [status EXCEPT ![r] = "running"]
  /\ handing' = FALSE
  /\ UNCHANGED <<running, seq, newest, overdue>>

(* release(): a waiter past maxWaitMs is refused and the loop goes on.     *)
Expire(r) ==
  /\ handing /\ IsNext(r) /\ r \in overdue
  /\ Rotate(r)
  /\ status' = [status EXCEPT ![r] = "expired"]
  /\ overdue' = overdue \ {r}
  /\ UNCHANGED <<running, seq, newest, handing>>

(* release(): nobody is waiting, so the slot is given up.                  *)
GiveUp ==
  /\ handing /\ WaitingSet = {}
  /\ running' = running - 1
  /\ handing' = FALSE
  /\ UNCHANGED <<status, seq, turn, newest, clock, overdue, passedBy>>

(* The clock passes maxWaitMs for the oldest request not yet overdue.      *)
WaitTooLong(r) ==
  /\ ~handing /\ r \in WaitingSet \ overdue
  /\ \A q \in WaitingSet \ overdue : seq[r] <= seq[q]
  /\ overdue' = overdue \cup {r}
  /\ UNCHANGED <<status, running, seq, turn, newest, clock, handing, passedBy>>

-----------------------------------------------------------------------------
Init ==
  /\ status   = [r \in Requests |-> "idle"]
  /\ running  = 0
  /\ seq      = [r \in Requests |-> 0]
  /\ turn     = [g \in Groups |-> 0]
  /\ newest   = [g \in Groups |-> 0]
  /\ clock    = 1
  /\ overdue  = {}
  /\ handing  = FALSE
  /\ passedBy = [g \in Groups |-> {}]

Next ==
  \/ \E r \in Requests : \/ Start(r)  \/ Enqueue(r) \/ Finish(r)
                         \/ Admit(r)  \/ Expire(r)  \/ WaitTooLong(r)
  \/ GiveUp

(* A hash that was started settles, and release() runs to its end.         *)
Fairness ==
  /\ \A r \in Requests : WF_vars(Finish(r)) /\ WF_vars(Admit(r)) /\ WF_vars(Expire(r))
  /\ WF_vars(GiveUp)

Spec     == Init /\ [][Next]_vars
FairSpec == Spec /\ Fairness

-----------------------------------------------------------------------------
TypeOK ==
  /\ status \in [Requests -> Statuses]
  /\ running \in Nat
  /\ seq \in [Requests -> Nat]
  /\ turn \in [Groups -> Nat]
  /\ newest \in [Groups -> Nat]
  /\ clock \in Nat
  /\ overdue \subseteq WaitingSet
  /\ handing \in BOOLEAN
  /\ passedBy \in [Groups -> SUBSET Groups]

(* The counter never loses or mints a slot, across hand-overs, refusals and *)
(* sheds: it is the number of hashes running, plus the one being handed on; *)
(* it stays within the ceiling; and nobody waits while a slot is free.      *)
SlotsAccounted ==
  /\ running = Cardinality(RunningSet) + (IF handing THEN 1 ELSE 0)
  /\ running <= MaxConcurrent
  /\ WaitingSet # {} => running = MaxConcurrent

(* The queue never holds more than MaxQueued between two calls.            *)
QueueBounded == Cardinality(WaitingSet) <= MaxQueued

(* "Every lane is served every round": between two turns of a group that    *)
(* has somebody waiting, each of its siblings is taken from at most once,   *)
(* however many requests it sends and however it is shed and comes back.    *)
TakenFrom(r) == handing /\ status[r] = "waiting" /\ status'[r] # "waiting"
RoundRobin ==
  [][\A r \in Requests : TakenFrom(r) =>
       \A q \in WaitingSet, d \in 1..Depth :
          PartAt(r, q, d) => GroupAt(r, d) \notin passedBy[GroupAt(q, d)]]_vars

(* Shedding never costs a peer its share: the request shed belongs to a     *)
(* peer holding more than MaxQueued / n of the queue, n being the number of *)
(* peers that want a place in it.                                           *)
Shed(v) == status[v] # "shed" /\ status'[v] = "shed"
FairShare ==
  [][\A v \in Requests : Shed(v) =>
       LET W == WaitingSet \cup {r \in Requests : status[r] = "idle" /\ status'[r] # "idle"}
           peers == {GroupAt(r, 1) : r \in W}
       IN  Count(W, GroupAt(v, 1)) * Cardinality(peers) > MaxQueued]_vars

(* Everybody who waits is answered: started, shed or told it took too long. *)
EveryWaiterAnswered ==
  \A r \in Requests : status[r] = "waiting" ~> status[r] # "waiting"

=============================================================================
