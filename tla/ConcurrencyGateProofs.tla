----------------------- MODULE ConcurrencyGateProofs -----------------------
(***************************************************************************)
(* What the gate promises for every number of slots, every queue ceiling   *)
(* and every set of lanes.                                                 *)
(***************************************************************************)
EXTENDS ConcurrencyGate, FiniteSetTheorems, FunctionTheorems, TLAPS

(* A group passed by h since its own last turn stands before h in the round *)
TurnOrder ==
  /\ \A g \in Groups : turn[g] < clock
  /\ \A g \in Groups : \A h \in passedBy[g] : turn[h] > turn[g]

IInv == TypeOK /\ SlotsAccounted /\ QueueBounded /\ TurnOrder

(* A group of a request is one of the groups of the round.                 *)
LEMMA PathInGroups ==
  ASSUME NEW r \in Requests, NEW d \in 1..Depth
  PROVE  GroupAt(r, d) \in Groups /\ GroupAt(r, d) \in Path(r)
BY DEF Groups, Path

(* Sets of requests are finite, and so are their cardinalities numbers.    *)
LEMMA RequestSetsFinite ==
  ASSUME NEW S \in SUBSET Requests
  PROVE  IsFiniteSet(S) /\ Cardinality(S) \in Nat
BY GateAssumption, FS_Subset, FS_CardinalityType

(* Initially nobody runs, waits or has been passed.                        *)
LEMMA InitIInv == Init => IInv
<1> SUFFICES ASSUME Init PROVE IInv
  OBVIOUS
<1>1. WaitingSet = {} /\ RunningSet = {}
  BY DEF Init, WaitingSet, RunningSet
<1>2. TypeOK
  BY <1>1 DEF Init, TypeOK, Statuses
<1>3. SlotsAccounted /\ QueueBounded
  BY <1>1, FS_EmptySet, GateAssumption DEF Init, SlotsAccounted, QueueBounded
<1>4. TurnOrder
  BY DEF Init, TurnOrder
<1> QED
  BY <1>2, <1>3, <1>4 DEF IInv

(* insert() and the rotation keep every stamp below the clock and the       *)
(* passers of a group behind it.                                            *)
LEMMA InsertKeepsOrder ==
  ASSUME TypeOK, TurnOrder, NEW r \in Requests, Insert(r)
  PROVE  /\ TurnOrder'
         /\ seq' \in [Requests -> Nat] /\ turn' \in [Groups -> Nat]
         /\ newest' \in [Groups -> Nat] /\ clock' \in Nat
         /\ passedBy' \in [Groups -> SUBSET Groups]
BY DEF TypeOK, TurnOrder, Insert

LEMMA RotateKeepsOrder ==
  ASSUME TypeOK, TurnOrder, NEW r \in Requests, Rotate(r)
  PROVE  /\ TurnOrder'
         /\ turn' \in [Groups -> Nat] /\ clock' \in Nat
         /\ passedBy' \in [Groups -> SUBSET Groups]
<1> DEFINE Takers(h) == {GroupAt(r, d) : d \in {e \in 1..Depth :
                           \E q \in Requests : h = GroupAt(q, e) /\ PartAt(r, q, e)}}
<1>1. \A h : Takers(h) \subseteq Groups /\ Takers(h) \subseteq Path(r)
  BY PathInGroups
<1>2. /\ \A h \in Groups : passedBy'[h] = IF h \in Path(r) THEN {}
                                          ELSE passedBy[h] \cup Takers(h)
      /\ DOMAIN passedBy' = Groups
      /\ passedBy' = [h \in Groups |-> IF h \in Path(r) THEN {} ELSE passedBy[h] \cup Takers(h)]
  BY DEF Rotate
<1> HIDE DEF Takers
<1>3. passedBy' \in [Groups -> SUBSET Groups]
  BY <1>1, <1>2 DEF TypeOK
<1>4. /\ turn' = [g \in Groups |-> IF g \in Path(r) THEN clock ELSE turn[g]]
      /\ clock' = clock + 1
  BY DEF Rotate
<1>5. turn' \in [Groups -> Nat] /\ clock' \in Nat
  BY <1>4 DEF TypeOK
<1>6. \A g \in Groups : turn'[g] < clock'
  BY <1>4 DEF TypeOK, TurnOrder
<1>7. ASSUME NEW g \in Groups, NEW h \in passedBy'[g] PROVE turn'[h] > turn'[g]
  <2>1. g \notin Path(r) /\ h \in passedBy[g] \cup Takers(g) /\ h \in Groups
    BY <1>2, <1>3, <1>7
  <2>2. turn'[g] = turn[g] /\ turn[g] < clock /\ turn[g] \in Nat /\ clock \in Nat
    BY <1>4, <2>1 DEF TurnOrder, TypeOK
  <2>3. CASE h \in Path(r)
    BY <2>1, <2>2, <2>3, <1>4
  <2>4. CASE h \notin Path(r)
    <3>1. h \in passedBy[g]
      BY <2>1, <2>4, <1>1
    <3>2. turn[h] > turn[g] /\ turn'[h] = turn[h]
      BY <3>1, <2>1, <2>4, <1>4 DEF TurnOrder
    <3> QED BY <3>2, <2>2
  <2> QED BY <2>3, <2>4
<1> QED
  BY <1>3, <1>5, <1>6, <1>7 DEF TurnOrder

(* Each step of the gate keeps the inductive invariant.                    *)
LEMMA NextIInv == IInv /\ [Next]_vars => IInv'
<1> SUFFICES ASSUME IInv, [Next]_vars PROVE IInv'
  OBVIOUS
<1> USE GateAssumption
<1>0. TypeOK /\ SlotsAccounted /\ QueueBounded /\ TurnOrder
  BY DEF IInv
<1>a. WaitingSet \in SUBSET Requests /\ RunningSet \in SUBSET Requests
  BY DEF WaitingSet, RunningSet
<1>b. /\ IsFiniteSet(WaitingSet) /\ Cardinality(WaitingSet) \in Nat
      /\ IsFiniteSet(RunningSet) /\ Cardinality(RunningSet) \in Nat
  BY <1>a, RequestSetsFinite
<1>1. ASSUME NEW r \in Requests, Start(r) PROVE IInv'
  <2>1. WaitingSet' = WaitingSet /\ RunningSet' = RunningSet \cup {r} /\ r \notin RunningSet
    BY <1>0, <1>1 DEF Start, WaitingSet, RunningSet, TypeOK
  <2>2. Cardinality(RunningSet') = Cardinality(RunningSet) + 1
    BY <2>1, <1>b, FS_AddElement
  <2>3. TypeOK'
    BY <2>1, <1>0, <1>1 DEF Start, TypeOK, Statuses
  <2>4. SlotsAccounted' /\ QueueBounded'
    BY <2>1, <2>2, <1>0, <1>1, <1>b DEF Start, SlotsAccounted, QueueBounded, TypeOK
  <2>5. TurnOrder'
    BY <1>0, <1>1 DEF Start, TurnOrder
  <2> QED BY <2>3, <2>4, <2>5 DEF IInv
<1>2. ASSUME NEW r \in Requests, Enqueue(r) PROVE IInv'
  <2> DEFINE W == WaitingSet \cup {r}
  <2>1. Insert(r) /\ status[r] = "idle" /\ r \notin WaitingSet /\ r \notin RunningSet
        /\ running' = running /\ handing' = handing /\ ~ (running < MaxConcurrent)
    BY <1>2 DEF Enqueue, WaitingSet, RunningSet
  <2>2. TurnOrder' /\ seq' \in [Requests -> Nat] /\ turn' \in [Groups -> Nat]
        /\ newest' \in [Groups -> Nat] /\ clock' \in Nat
        /\ passedBy' \in [Groups -> SUBSET Groups]
    BY <2>1, <1>0, InsertKeepsOrder
  <2>3. IsFiniteSet(W) /\ Cardinality(W) = Cardinality(WaitingSet) + 1
    BY <2>1, <1>b, FS_AddElement
  <2>4. CASE Cardinality(W) > MaxQueued
    <3>1. PICK v \in W :
            /\ status' = [status EXCEPT ![r] = "waiting", ![v] = "shed"]
            /\ overdue' = overdue \ {v}
      BY <2>4, <1>2 DEF Enqueue
    <3>2. v \in Requests
      BY <1>a
    <3>3. status' \in [Requests -> Statuses]
      BY <3>1, <1>0 DEF TypeOK, Statuses
    <3>4. WaitingSet' = W \ {v}
      BY <3>1, <3>2, <1>0 DEF WaitingSet, TypeOK
    <3>5. RunningSet' = RunningSet
      <4>1. status[v] # "running"
        BY <2>1 DEF WaitingSet, RunningSet
      <4> QED BY <4>1, <3>1, <3>2, <2>1, <1>0 DEF RunningSet, TypeOK
    <3>6. Cardinality(WaitingSet') = Cardinality(WaitingSet)
      <4>1. Cardinality(W \ {v}) = Cardinality(W) - 1
        BY <2>3, FS_RemoveElement
      <4> QED BY <4>1, <3>4, <2>3, <1>b
    <3>7. overdue' \subseteq WaitingSet'
      BY <3>1, <3>4, <1>0 DEF TypeOK
    <3> QED
      BY <2>1, <2>2, <3>3, <3>5, <3>6, <3>7, <1>0, <1>b
      DEF IInv, TypeOK, SlotsAccounted, QueueBounded
  <2>5. CASE ~ (Cardinality(W) > MaxQueued)
    <3>1. status' = [status EXCEPT ![r] = "waiting"] /\ overdue' = overdue
      BY <2>5, <1>2 DEF Enqueue
    <3>2. status' \in [Requests -> Statuses]
      BY <3>1, <1>0 DEF TypeOK, Statuses
    <3>3. WaitingSet' = W
      BY <3>1, <2>1, <1>0 DEF TypeOK, WaitingSet
    <3>4. RunningSet' = RunningSet
      BY <3>1, <2>1, <1>0 DEF TypeOK, RunningSet
    <3>5. TypeOK' /\ TurnOrder'
      BY <2>1, <2>2, <3>1, <3>2, <3>3, <1>0 DEF TypeOK
    <3>6. QueueBounded'
      BY <2>3, <2>5, <3>3, <1>0, <1>b DEF QueueBounded, TypeOK
    <3>7. SlotsAccounted'
      BY <2>1, <3>4, <1>0 DEF SlotsAccounted
    <3> QED
      BY <3>5, <3>6, <3>7 DEF IInv
  <2> QED BY <2>4, <2>5
<1>3. ASSUME NEW r \in Requests, Finish(r) PROVE IInv'
  <2>1. WaitingSet' = WaitingSet /\ RunningSet' = RunningSet \ {r} /\ r \in RunningSet
    BY <1>0, <1>3 DEF Finish, WaitingSet, RunningSet, TypeOK
  <2>2. Cardinality(RunningSet') = Cardinality(RunningSet) - 1
    BY <2>1, <1>b, FS_RemoveElement
  <2>3. TypeOK'
    BY <2>1, <1>0, <1>3 DEF Finish, TypeOK, Statuses
  <2>4. SlotsAccounted' /\ QueueBounded'
    BY <2>1, <2>2, <1>0, <1>3, <1>b DEF Finish, SlotsAccounted, QueueBounded, TypeOK
  <2>5. TurnOrder'
    BY <1>0, <1>3 DEF Finish, TurnOrder
  <2> QED BY <2>3, <2>4, <2>5 DEF IInv
<1>4. ASSUME NEW r \in Requests, Admit(r) PROVE IInv'
  <2>1. Rotate(r) /\ handing /\ ~handing' /\ r \in WaitingSet /\ r \notin overdue
        /\ running' = running /\ overdue' = overdue /\ seq' = seq /\ newest' = newest
        /\ status' = [status EXCEPT ![r] = "running"]
    BY <1>4, <1>0 DEF Admit, IsNext, TypeOK
  <2>2. TurnOrder' /\ turn' \in [Groups -> Nat] /\ clock' \in Nat
        /\ passedBy' \in [Groups -> SUBSET Groups]
    BY <2>1, <1>0, RotateKeepsOrder
  <2>3. WaitingSet' = WaitingSet \ {r} /\ RunningSet' = RunningSet \cup {r} /\ r \notin RunningSet
    BY <2>1, <1>0 DEF WaitingSet, RunningSet, TypeOK
  <2>4. /\ Cardinality(RunningSet') = Cardinality(RunningSet) + 1
        /\ Cardinality(WaitingSet') = Cardinality(WaitingSet) - 1
    BY <2>1, <2>3, <1>b, FS_AddElement, FS_RemoveElement
  <2>5. TypeOK'
    BY <1>4, <2>1, <2>2, <2>3, <1>0 DEF Admit, TypeOK, Statuses
  <2>6. SlotsAccounted' /\ QueueBounded'
    BY <2>1, <2>3, <2>4, <1>0, <1>b DEF SlotsAccounted, QueueBounded, TypeOK
  <2> QED BY <2>2, <2>5, <2>6 DEF IInv
<1>5. ASSUME NEW r \in Requests, Expire(r) PROVE IInv'
  <2>1. Rotate(r) /\ handing' = handing /\ r \in WaitingSet
        /\ running' = running /\ overdue' = overdue \ {r} /\ seq' = seq /\ newest' = newest
        /\ status' = [status EXCEPT ![r] = "expired"]
    BY <1>5, <1>0 DEF Expire, IsNext, TypeOK
  <2>2. TurnOrder' /\ turn' \in [Groups -> Nat] /\ clock' \in Nat
        /\ passedBy' \in [Groups -> SUBSET Groups]
    BY <2>1, <1>0, RotateKeepsOrder
  <2>3. WaitingSet' = WaitingSet \ {r} /\ RunningSet' = RunningSet
    BY <2>1, <1>0 DEF WaitingSet, RunningSet, TypeOK
  <2>4. Cardinality(WaitingSet') = Cardinality(WaitingSet) - 1
    BY <2>1, <2>3, <1>b, FS_RemoveElement
  <2>5. TypeOK'
    BY <2>1, <2>2, <2>3, <1>0 DEF TypeOK, Statuses
  <2>6. SlotsAccounted' /\ QueueBounded'
    BY <2>1, <2>3, <2>4, <1>0, <1>b DEF SlotsAccounted, QueueBounded, TypeOK
  <2> QED BY <2>2, <2>5, <2>6 DEF IInv
<1>6. ASSUME NEW r \in Requests, WaitTooLong(r) PROVE IInv'
  <2>1. WaitingSet' = WaitingSet /\ RunningSet' = RunningSet
    BY <1>6 DEF WaitTooLong, WaitingSet, RunningSet
  <2> QED
    BY <2>1, <1>0, <1>6
    DEF IInv, WaitTooLong, TypeOK, SlotsAccounted, QueueBounded, TurnOrder
<1>7. ASSUME GiveUp PROVE IInv'
  <2>1. WaitingSet' = {} /\ RunningSet' = RunningSet /\ WaitingSet = {}
    BY <1>7 DEF GiveUp, WaitingSet, RunningSet
  <2>2. running' \in Nat /\ SlotsAccounted' /\ QueueBounded'
    BY <2>1, <1>0, <1>7, <1>b, FS_EmptySet DEF GiveUp, SlotsAccounted, QueueBounded, TypeOK
  <2> QED
    BY <2>1, <2>2, <1>0, <1>7 DEF IInv, GiveUp, TypeOK, TurnOrder
<1>8. CASE UNCHANGED vars
  <2>1. WaitingSet' = WaitingSet /\ RunningSet' = RunningSet
    BY <1>8 DEF vars, WaitingSet, RunningSet
  <2> QED
    BY <2>1, <1>0, <1>8 DEF vars, IInv, TypeOK, SlotsAccounted, QueueBounded, TurnOrder
<1> QED
  BY <1>1, <1>2, <1>3, <1>4, <1>5, <1>6, <1>7, <1>8 DEF Next

(* The inductive invariant holds of every behaviour of the gate.           *)
THEOREM InductiveInvariant == Spec => []IInv
BY InitIInv, NextIInv, PTL DEF Spec

(* The gate's variables keep their types.                                  *)
THEOREM TypeCorrect == Spec => []TypeOK
BY InductiveInvariant, PTL DEF IInv

(* No hash slot is lost or minted, the ceiling holds and no slot idles      *)
(* while somebody waits, for every MaxConcurrent and every set of callers.  *)
THEOREM SlotsAreAccounted == Spec => []SlotsAccounted
BY InductiveInvariant, PTL DEF IInv

(* The queue never exceeds its ceiling.                                    *)
THEOREM QueueIsBounded == Spec => []QueueBounded
BY InductiveInvariant, PTL DEF IInv

(* Between two turns of a waiting peer, route or origin each sibling is     *)
(* taken from at most once: the round cannot be gamed by sending more.      *)
THEOREM RoundIsFair == Spec => RoundRobin
<1> DEFINE Fair == \A r \in Requests : TakenFrom(r) =>
                     \A q \in WaitingSet, d \in 1..Depth :
                       PartAt(r, q, d) => GroupAt(r, d) \notin passedBy[GroupAt(q, d)]
<1>1. IInv /\ [Next]_vars => [Fair]_vars
  <2> SUFFICES ASSUME IInv, Next, NEW r \in Requests, TakenFrom(r),
                      NEW q \in WaitingSet, NEW d \in 1..Depth, PartAt(r, q, d),
                      GroupAt(r, d) \in passedBy[GroupAt(q, d)]
               PROVE  FALSE
    OBVIOUS
  <2>1. IsNext(r)
    BY DEF Next, TakenFrom, Start, Enqueue, Finish, Admit, Expire, WaitTooLong, GiveUp,
           IInv, TypeOK
  <2>2. turn[GroupAt(r, d)] < turn[GroupAt(q, d)]
    BY <2>1 DEF IsNext
  <2>3. GroupAt(r, d) \in Groups /\ GroupAt(q, d) \in Groups
    BY PathInGroups DEF WaitingSet
  <2>4. turn[GroupAt(r, d)] > turn[GroupAt(q, d)]
    BY <2>3 DEF IInv, TurnOrder
  <2> QED BY <2>2, <2>3, <2>4 DEF IInv, TypeOK
<1> QED
  BY <1>1, InductiveInvariant, PTL DEF Spec, RoundRobin

(* A set split into as many parts as T has members, none with more than k   *)
(* members, has no more than their product.                                *)
LEMMA PartsBoundASet ==
  ASSUME NEW S, IsFiniteSet(S), NEW T, IsFiniteSet(T), NEW f \in [S -> T], NEW k \in Nat,
         \A t \in T : Cardinality({s \in S : f[s] = t}) <= k
  PROVE  Cardinality(S) <= Cardinality(T) * k
<1> DEFINE Part(t) == {s \in S : f[s] = t}
           count(t) == CHOOSE b : b \in Bijection(1..Cardinality(Part(t)), Part(t))
           place(s) == CHOOSE i \in 1..k : count(f[s])[i] = s
           g == [s \in S |-> <<f[s], place(s)>>]
<1>1. ASSUME NEW t \in T
      PROVE  /\ Cardinality(Part(t)) \in Nat /\ Cardinality(Part(t)) <= k
             /\ count(t) \in Bijection(1..Cardinality(Part(t)), Part(t))
  <2>1. IsFiniteSet(Part(t))
    BY FS_Subset
  <2>2. ExistsBijection(1..Cardinality(Part(t)), Part(t)) /\ Cardinality(Part(t)) \in Nat
    BY <2>1, FS_CardinalityType
  <2> QED
    BY <2>2 DEF ExistsBijection
<1>2. ASSUME NEW s \in S
      PROVE  place(s) \in 1..k /\ count(f[s])[place(s)] = s
  <2>1. f[s] \in T /\ s \in Part(f[s])
    OBVIOUS
  <2> HIDE DEF Part, count
  <2>2. \E i \in 1..Cardinality(Part(f[s])) : count(f[s])[i] = s
    BY <1>1, <2>1 DEF Bijection, Surjection
  <2>3. \E i \in 1..k : count(f[s])[i] = s
    BY <1>1, <2>1, <2>2
  <2> QED
    BY <2>3
<1>3. g \in Injection(S, T \X (1..k))
  <2> HIDE DEF place, count
  <2>1. g \in [S -> T \X (1..k)]
    BY <1>2
  <2>2. ASSUME NEW a \in S, NEW b \in S, g[a] = g[b]
        PROVE  a = b
    <3>1. f[a] = f[b] /\ place(a) = place(b)
      BY <2>2
    <3> QED
      BY <1>2, <3>1
  <2> QED
    BY <2>1, <2>2 DEF Injection, IsInjective
<1>4. IsFiniteSet(1..k) /\ Cardinality(1..k) = k
  BY FS_Interval
<1>5. IsFiniteSet(T \X (1..k)) /\ Cardinality(T \X (1..k)) = Cardinality(T) * k
  BY <1>4, FS_Product
<1> HIDE DEF g
<1> QED
  BY <1>3, <1>5, FS_Injection

(* What is shed belongs to the heaviest peer of a queue beyond its ceiling. *)
LEMMA HeaviestHasAShare ==
  ASSUME NEW W \in SUBSET Requests, NEW v \in W, NEW nw, NEW sq,
         IsHeaviest(v, W, nw, sq), Cardinality(W) > MaxQueued
  PROVE  Count(W, GroupAt(v, 1)) * Cardinality({GroupAt(r, 1) : r \in W}) > MaxQueued
<1> DEFINE peers == {GroupAt(r, 1) : r \in W}
           peer == [r \in W |-> GroupAt(r, 1)]
           k == Count(W, GroupAt(v, 1))
<1>1. 1 \in 1..Depth /\ IsFiniteSet(W) /\ Cardinality(W) \in Nat
  BY RequestSetsFinite DEF Depth
<1>2. \A g : Below(W, g) \in SUBSET Requests /\ Count(W, g) \in Nat
  BY RequestSetsFinite DEF Below, Count
<1>3. peer \in Surjection(W, peers)
  BY DEF Surjection
<1>4. IsFiniteSet(peers) /\ Cardinality(peers) \in Nat
  BY <1>1, <1>3, FS_Surjection, FS_CardinalityType
<1>5. ASSUME NEW r \in W, NEW q \in W
      PROVE  GroupAt(q, 1) \in Path(r) <=> GroupAt(r, 1) = GroupAt(q, 1)
  <2>1. \A d \in 1..Depth : DOMAIN GroupAt(r, d) = 1..d
    BY DEF GroupAt
  <2>2. \A d \in 1..Depth : GroupAt(q, 1) = GroupAt(r, d) => d = 1
    <3>1. DOMAIN GroupAt(q, 1) = 1..1
      BY DEF GroupAt
    <3>2. \A d \in 1..Depth : d # 1 => 2 \in 1..d /\ 2 \notin 1..1
      BY DEF Depth
    <3> QED
      BY <2>1, <3>1, <3>2
  <2> QED
    BY <1>1, <2>2 DEF Path
<1>6. ASSUME NEW t \in peers
      PROVE  Cardinality({r \in W : peer[r] = t}) <= k
  <2>1. PICK q \in W : t = GroupAt(q, 1)
    OBVIOUS
  <2>2. {r \in W : peer[r] = t} = Below(W, t)
    BY <1>5, <2>1 DEF Below
  <2>3. Count(W, t) <= k
    <3>1. CASE t = GroupAt(v, 1)
      BY <1>2, <3>1
    <3>2. CASE t # GroupAt(v, 1)
      <4>1. GroupAt(v, 0) = GroupAt(q, 0)
        BY DEF GroupAt
      <4>2. PartAt(v, q, 1)
        BY <2>1, <3>2, <4>1 DEF PartAt
      <4> QED
        BY <1>1, <1>2, <2>1, <4>2 DEF IsHeaviest
    <3> QED
      BY <3>1, <3>2
  <2> QED
    BY <2>2, <2>3 DEF Count
<1>7. peer \in [W -> peers]
  OBVIOUS
<1>8. Cardinality(W) <= Cardinality(peers) * k
  <2> HIDE DEF peers, peer, k
  <2>1. k \in Nat
    BY <1>2 DEF k
  <2> QED
    BY <1>1, <1>4, <1>6, <1>7, <2>1, PartsBoundASet
<1> HIDE DEF peers, k
<1>9. k \in Nat /\ k * Cardinality(peers) = Cardinality(peers) * k
  BY <1>2, <1>4 DEF k
<1>10. k * Cardinality(peers) > MaxQueued
  BY <1>1, <1>4, <1>8, <1>9, GateAssumption
<1> QED
  BY <1>10 DEF k, peers

(* Shedding costs no peer its share: for any queue ceiling and any number   *)
(* of peers, who is shed belongs to a peer that holds more than an equal    *)
(* part of the queue.                                                      *)
THEOREM ShareIsKept == Spec => FairShare
<1> DEFINE Wanting == WaitingSet \cup {r \in Requests : status[r] = "idle" /\ status'[r] # "idle"}
           Fair == \A v \in Requests : Shed(v) =>
                     Count(Wanting, GroupAt(v, 1)) * Cardinality({GroupAt(r, 1) : r \in Wanting})
                       > MaxQueued
<1>1. IInv /\ [Next]_vars => [Fair]_vars
  <2> SUFFICES ASSUME IInv, Next, NEW v \in Requests, Shed(v)
               PROVE  Count(Wanting, GroupAt(v, 1)) * Cardinality({GroupAt(r, 1) : r \in Wanting})
                        > MaxQueued
    OBVIOUS
  <2>1. PICK r \in Requests : Enqueue(r)
    BY DEF Next, Shed, Start, Finish, Admit, Expire, WaitTooLong, GiveUp, IInv, TypeOK
  <2> DEFINE W == WaitingSet \cup {r}
  <2>2. status[r] = "idle" /\ status \in [Requests -> Statuses]
    BY <2>1 DEF Enqueue, IInv, TypeOK
  <2>3. Cardinality(W) > MaxQueued
    BY <2>1, <2>2 DEF Enqueue, Shed
  <2>4. PICK u \in W : /\ IsHeaviest(u, W, newest', seq')
                       /\ status' = [status EXCEPT ![r] = "waiting", ![u] = "shed"]
    BY <2>1, <2>3 DEF Enqueue
  <2>5. u = v
    BY <2>2, <2>4 DEF Shed, WaitingSet
  <2>6. Wanting = W
    BY <2>2, <2>4 DEF WaitingSet
  <2>7. W \in SUBSET Requests /\ v \in W
    BY <2>4, <2>5 DEF WaitingSet
  <2> HIDE DEF W, Wanting
  <2> QED
    BY <2>3, <2>4, <2>5, <2>6, <2>7, HeaviestHasAShare
<1> QED
  BY <1>1, InductiveInvariant, PTL DEF Spec, FairShare
=============================================================================
