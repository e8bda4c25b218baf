-------------------------- MODULE RateLimiterProofs --------------------------
(***************************************************************************)
(* For any attempts, keys, budgets and windows: the slots held are those of *)
(* the attempts that run, the budget of a window is kept on every key the   *)
(* sweep has not robbed, the wait quoted on the ladder is long enough, and  *)
(* a ration's sweep robs nobody.                                            *)
(***************************************************************************)
EXTENDS RateLimiter, FiniteSetTheorems, FunctionTheorems, SequenceTheorems, TLAPS

-----------------------------------------------------------------------------
(* Sequences of dates: what is left at some places, and what is young.      *)

Upto(P, i) == {h \in P : h <= i}

(* rank numbers the places of P in their order.                             *)
Numbers(rank, P) ==
  /\ rank \in Bijection(P, 1..Cardinality(P))
  /\ \A i \in P : \A j \in P : i < j => rank[i] < rank[j]

LEMMA CountTo ==
  ASSUME NEW n \in Nat
  PROVE  IsFiniteSet(1..n) /\ Cardinality(1..n) = n
BY FS_Interval

LEMMA PlacesAreFinite ==
  ASSUME NEW n \in Nat, NEW P \in SUBSET (1..n)
  PROVE  IsFiniteSet(P) /\ Cardinality(P) \in Nat /\ Cardinality(P) <= n
<1>1. IsFiniteSet(1..n) /\ Cardinality(1..n) = n
  BY FS_Interval
<1> QED
  BY <1>1, FS_Subset, FS_CardinalityType

(* Counting the places up to each one numbers them.                         *)
LEMMA RanksNumber ==
  ASSUME NEW n \in Nat, NEW P \in SUBSET (1..n)
  PROVE  Numbers([i \in P |-> Cardinality(Upto(P, i))], P)
<1> DEFINE rank == [i \in P |-> Cardinality(Upto(P, i))]
<1>1. IsFiniteSet(P) /\ Cardinality(P) \in Nat
  BY PlacesAreFinite
<1>2. ASSUME NEW i \in P
      PROVE  /\ IsFiniteSet(Upto(P, i)) /\ Cardinality(Upto(P, i)) \in 1..Cardinality(P)
  <2>1. Upto(P, i) \in SUBSET P /\ i \in Upto(P, i)
    BY DEF Upto
  <2>2. IsFiniteSet(Upto(P, i)) /\ Cardinality(Upto(P, i)) <= Cardinality(P)
    BY <1>1, <2>1, FS_Subset
  <2>3. Cardinality(Upto(P, i)) \in Nat /\ Cardinality(Upto(P, i)) # 0
    BY <2>1, <2>2, FS_CardinalityType, FS_EmptySet
  <2> QED
    BY <1>1, <2>2, <2>3
<1>3. ASSUME NEW i \in P, NEW j \in P, i < j
      PROVE  rank[i] < rank[j]
  <2>1. Upto(P, i) \in SUBSET Upto(P, j) /\ j \in Upto(P, j) /\ j \notin Upto(P, i)
    <3>1. i \in Int /\ j \in Int /\ \A h \in P : h \in Int
      OBVIOUS
    <3>2. \A h \in P : h <= i => h <= j
      BY <1>3, <3>1
    <3>3. j <= j /\ ~(j <= i)
      BY <1>3, <3>1
    <3> QED
      BY <3>2, <3>3 DEF Upto
  <2>2. Cardinality(Upto(P, i)) <= Cardinality(Upto(P, j))
    BY <1>2, <2>1, FS_Subset
  <2>3. Cardinality(Upto(P, i)) # Cardinality(Upto(P, j))
    BY <1>2, <2>1, FS_Subset
  <2>4. rank[i] = Cardinality(Upto(P, i)) /\ rank[j] = Cardinality(Upto(P, j))
    OBVIOUS
  <2>5. Cardinality(Upto(P, i)) \in Int /\ Cardinality(Upto(P, j)) \in Int
    BY <1>2
  <2> QED
    BY <2>2, <2>3, <2>4, <2>5
<1>4. rank \in [P -> 1..Cardinality(P)]
  BY <1>2
<1> HIDE DEF rank
<1>5. rank \in Injection(P, 1..Cardinality(P))
  <2>1. \A i \in P : \A j \in P : rank[i] = rank[j] => i = j
    <3> SUFFICES ASSUME NEW i \in P, NEW j \in P, i # j
                 PROVE  rank[i] # rank[j]
      OBVIOUS
    <3>1. rank[i] \in Int /\ rank[j] \in Int /\ i \in Int /\ j \in Int
      BY <1>1, <1>4
    <3>2. CASE i < j
      BY <1>3, <3>1, <3>2
    <3>3. CASE j < i
      BY <1>3, <3>1, <3>3
    <3> QED
      BY <3>1, <3>2, <3>3
  <2> QED
    BY <1>4, <2>1 DEF Injection, IsInjective
<1>6. rank \in Surjection(P, 1..Cardinality(P))
  <2>1. IsFiniteSet(1..Cardinality(P)) /\ Cardinality(1..Cardinality(P)) = Cardinality(P)
    BY <1>1, FS_Interval
  <2> QED
    BY <1>5, <2>1, FS_Injection
<1>7. Numbers(rank, P)
  BY <1>3, <1>5, <1>6 DEF Numbers, Bijection
<1> QED
  BY <1>7 DEF rank

(* r is what stands in s at the places P, and rank says where.              *)
Selects(rank, s, P, r) ==
  /\ Numbers(rank, P)
  /\ Len(r) = Cardinality(P)
  /\ \A i \in P : rank[i] \in 1..Len(r) /\ r[rank[i]] = s[i]
  /\ \A j \in 1..Len(r) : \E i \in P : rank[i] = j

LEMMA FilteredSelects ==
  ASSUME NEW T, NEW s \in Seq(T), NEW P \in SUBSET (1..Len(s))
  PROVE  /\ Filtered(s, P) \in Seq(T)
         /\ \E rank : Selects(rank, s, P, Filtered(s, P))
<1> DEFINE rank == [i \in P |-> Cardinality(Upto(P, i))]
           n == Cardinality(P)
           At(j) == CHOOSE i \in P : Cardinality({h \in P : h <= i}) = j
           r == Filtered(s, P)
<1>1. Len(s) \in Nat /\ n \in Nat
  BY LenProperties, PlacesAreFinite
<1>2. Numbers(rank, P)
  BY <1>1, RanksNumber
<1>3. \A i \in P : rank[i] = Cardinality({h \in P : h <= i})
  BY DEF Upto
<1> HIDE DEF rank
<1>4. /\ \A i \in P : rank[i] \in 1..n
      /\ \A i \in P : \A j \in P : rank[i] = rank[j] => i = j
      /\ \A j \in 1..n : \E i \in P : rank[i] = j
  BY <1>2 DEF Numbers, Bijection, Injection, IsInjective, Surjection
<1>5. \A j \in 1..n : At(j) \in P /\ rank[At(j)] = j
  <2> SUFFICES ASSUME NEW j \in 1..n
               PROVE  At(j) \in P /\ rank[At(j)] = j
    OBVIOUS
  <2>1. \E i \in P : Cardinality({h \in P : h <= i}) = j
    BY <1>3, <1>4
  <2>2. At(j) \in P /\ Cardinality({h \in P : h <= At(j)}) = j
    BY <2>1, Zenon
  <2> QED
    BY <1>3, <2>2
<1>6. \A i \in P : At(rank[i]) = i
  BY <1>4, <1>5
<1>7. r = [j \in 1..n |-> s[At(j)]]
  BY DEF Filtered
<1> HIDE DEF At, r, n
<1>8. \A j \in 1..n : s[At(j)] \in T
  BY <1>5, ElementOfSeq
<1>9. r \in [1..n -> T]
  BY <1>7, <1>8
<1>10. r \in Seq(T) /\ Len(r) = n
  <2>1. r \in Seq(T)
    BY <1>1, <1>9, SeqDef
  <2>2. Len(r) \in Nat /\ DOMAIN r = 1..Len(r) /\ DOMAIN r = 1..n
    BY <1>9, <2>1, LenProperties
  <2>3. Cardinality(1..Len(r)) = Len(r) /\ Cardinality(1..n) = n
    BY <1>1, <2>2, CountTo
  <2> QED
    BY <2>1, <2>2, <2>3
<1>11. \A i \in P : r[rank[i]] = s[i]
  BY <1>4, <1>6, <1>7
<1>12. Selects(rank, s, P, r)
  BY <1>2, <1>4, <1>10, <1>11 DEF Selects, n
<1> QED
  BY <1>10, <1>12 DEF r

-----------------------------------------------------------------------------
(* How many entries are young, as a sequence is filtered and grows.         *)

LEMMA DatesAreNumbers ==
  ASSUME NEW s \in Seq(Times), NEW i \in 1..Len(s)
  PROVE  s[i] \in Times /\ s[i] \in Nat
<1>1. s[i] \in Times
  BY ElementOfSeq
<1> QED
  BY <1>1 DEF Times

LEMMA YoungIsFinite ==
  ASSUME NEW s \in Seq(Times), NEW t \in Int
  PROVE  /\ Len(s) \in Nat /\ Young(s, t) \in SUBSET (1..Len(s))
         /\ IsFiniteSet(Young(s, t)) /\ Cardinality(Young(s, t)) \in Nat
         /\ Cardinality(Young(s, t)) <= Len(s)
<1>1. Len(s) \in Nat /\ Young(s, t) \in SUBSET (1..Len(s))
  BY LenProperties DEF Young
<1> QED
  BY <1>1, PlacesAreFinite

LEMMA YoungFiltered ==
  ASSUME NEW s \in Seq(Times), NEW P \in SUBSET (1..Len(s)), NEW t \in Int
  PROVE  Cardinality(Young(Filtered(s, P), t)) = Cardinality(Young(s, t) \cap P)
<1> DEFINE r == Filtered(s, P)
           Q == Young(s, t) \cap P
<1>1. PICK rank : Selects(rank, s, P, r)
  BY FilteredSelects
<1>2. /\ \A i \in P : rank[i] \in 1..Len(r) /\ r[rank[i]] = s[i]
      /\ \A j \in 1..Len(r) : \E i \in P : rank[i] = j
      /\ \A i \in P : \A j \in P : rank[i] = rank[j] => i = j
  BY <1>1 DEF Selects, Numbers, Bijection, Injection, IsInjective
<1> HIDE DEF r
<1> DEFINE g == [i \in Q |-> rank[i]]
<1>3. g \in [Q -> Young(r, t)]
  BY <1>2 DEF Young
<1>4. g \in Injection(Q, Young(r, t))
  BY <1>2, <1>3 DEF Injection, IsInjective
<1>5. g \in Surjection(Q, Young(r, t))
  <2>1. ASSUME NEW j \in Young(r, t) PROVE \E i \in Q : g[i] = j
    <3>1. PICK i \in P : rank[i] = j
      BY <1>2, <2>1 DEF Young
    <3>2. i \in Q
      BY <1>2, <3>1, <2>1 DEF Young
    <3> QED
      BY <3>1, <3>2
  <2> QED
    BY <1>3, <2>1 DEF Surjection
<1>6. IsFiniteSet(Q)
  BY YoungIsFinite, FS_Subset
<1>7. ExistsBijection(Q, Young(r, t))
  BY <1>4, <1>5 DEF ExistsBijection, Bijection
<1> HIDE DEF Q
<1>8. Cardinality(Young(r, t)) = Cardinality(Q)
  BY <1>6, <1>7, FS_Bijection
<1> QED
  BY <1>8 DEF r, Q

LEMMA YoungAppended ==
  ASSUME NEW s \in Seq(Times), NEW x \in Times, NEW t \in Int
  PROVE  /\ Append(s, x) \in Seq(Times) /\ Len(Append(s, x)) = Len(s) + 1
         /\ Append(s, x)[Len(s) + 1] = x
         /\ \A i \in 1..Len(s) : Append(s, x)[i] = s[i]
         /\ Cardinality(Young(Append(s, x), t)) =
              Cardinality(Young(s, t)) + (IF t - x < Window THEN 1 ELSE 0)
<1> DEFINE r == Append(s, x)
<1>1. /\ r \in Seq(Times) /\ Len(r) = Len(s) + 1 /\ r[Len(s) + 1] = x
      /\ \A i \in 1..Len(s) : r[i] = s[i]
  BY LenProperties
<1> HIDE DEF r
<1>2. Len(s) \in Nat /\ IsFiniteSet(Young(s, t)) /\ Len(s) + 1 \notin Young(s, t)
  BY YoungIsFinite DEF Young
<1>3. CASE t - x < Window
  <2>1. Young(r, t) = Young(s, t) \cup {Len(s) + 1}
    BY <1>1, <1>2, <1>3 DEF Young
  <2> QED
    BY <1>1, <1>2, <1>3, <2>1, FS_AddElement DEF r
<1>4. CASE ~(t - x < Window)
  <2>1. Young(r, t) = Young(s, t)
    BY <1>1, <1>2, <1>4 DEF Young
  <2> QED
    BY <1>1, <1>2, <1>4, <2>1, YoungIsFinite DEF r
<1> QED
  BY <1>3, <1>4

(* What is young later was young before.                                    *)
LEMMA YoungShrinks ==
  ASSUME NEW s \in Seq(Times), NEW t \in Int, NEW u \in Int, t <= u
  PROVE  Young(s, u) \in SUBSET Young(s, t) /\ Cardinality(Young(s, u)) <= Cardinality(Young(s, t))
<1>1. \A i \in 1..Len(s) : s[i] \in Int
  BY DatesAreNumbers
<1>2. Young(s, u) \in SUBSET Young(s, t)
  BY <1>1, LimiterAssumption DEF Young
<1> QED
  BY <1>2, YoungIsFinite, FS_Subset

(* Pruned at t, a key holds as many entries as were young then, ...         *)
LEMMA RecentIsYoung ==
  ASSUME TypeOK, NEW k \in Keys, NEW t \in Int
  PROVE  /\ Recent(k, t) \in Seq(Times)
         /\ Len(Recent(k, t)) = Cardinality(Young(failures[k], t))
<1>1. failures[k] \in Seq(Times)
  BY DEF TypeOK
<1>2. Young(failures[k], t) \in SUBSET (1..Len(failures[k]))
  BY <1>1, YoungIsFinite
<1> QED
  BY <1>1, <1>2, FilteredSelects DEF Recent, Selects

(* ... and no more that are young at another time than before.              *)
LEMMA RecentKeepsFewer ==
  ASSUME TypeOK, NEW k \in Keys, NEW t \in Int, NEW u \in Int
  PROVE  Cardinality(Young(Recent(k, t), u)) <= Cardinality(Young(failures[k], u))
<1>1. failures[k] \in Seq(Times)
  BY DEF TypeOK
<1>2. Young(failures[k], t) \in SUBSET (1..Len(failures[k]))
  BY <1>1, YoungIsFinite
<1>3. Cardinality(Young(Recent(k, t), u)) =
        Cardinality(Young(failures[k], u) \cap Young(failures[k], t))
  BY <1>1, <1>2, YoungFiltered DEF Recent
<1> QED
  BY <1>1, <1>3, YoungIsFinite, FS_Subset

LEMMA LeastPlace ==
  ASSUME NEW n \in Nat, NEW P \in SUBSET (1..n), P # {}
  PROVE  \E i \in P : \A j \in P : i <= j
<1>1. PICK rank : Numbers(rank, P)
  BY RanksNumber
<1>2. IsFiniteSet(P) /\ Cardinality(P) \in Nat /\ Cardinality(P) # 0
  BY PlacesAreFinite, FS_EmptySet
<1>3. /\ \A i \in P : rank[i] \in 1..Cardinality(P)
      /\ \E i \in P : rank[i] = 1
      /\ \A i \in P : \A j \in P : i < j => rank[i] < rank[j]
  BY <1>1, <1>2 DEF Numbers, Bijection, Injection, Surjection
<1>4. PICK i \in P : rank[i] = 1
  BY <1>3
<1>5. ASSUME NEW j \in P PROVE i <= j
  <2>1. ~(rank[j] < rank[i])
    BY <1>2, <1>3, <1>4
  <2> QED
    BY <1>3, <2>1
<1> QED
  BY <1>5

(* A slot given back is one of those taken at its moment.                   *)
LEMMA RemovedIsOne ==
  ASSUME NEW s \in Seq(Times), NEW x, NEW p \in 1..Len(s), s[p] = x
  PROVE  \E i \in 1..Len(s) : s[i] = x /\ RemoveOne(s, x) = Filtered(s, (1..Len(s)) \ {i})
<1>1. Len(s) \in Nat /\ Places(s, x) \in SUBSET (1..Len(s)) /\ p \in Places(s, x)
  BY LenProperties DEF Places
<1> DEFINE i == CHOOSE h \in Places(s, x) : \A j \in Places(s, x) : h <= j
<1>2. \E h \in Places(s, x) : \A j \in Places(s, x) : h <= j
  BY <1>1, LeastPlace
<1>3. i \in Places(s, x)
  BY <1>2, Zenon
<1>4. RemoveOne(s, x) = Filtered(s, (1..Len(s)) \ {i})
  BY <1>1 DEF RemoveOne, Without
<1> QED
  BY <1>3, <1>4 DEF Places

LEMMA RemovedIsFewer ==
  ASSUME NEW s \in Seq(Times), NEW x \in Times, NEW p \in 1..Len(s), s[p] = x, NEW t \in Int
  PROVE  /\ RemoveOne(s, x) \in Seq(Times) /\ Len(RemoveOne(s, x)) = Len(s) - 1
         /\ Cardinality(Young(RemoveOne(s, x), t)) =
              Cardinality(Young(s, t)) - (IF t - x < Window THEN 1 ELSE 0)
<1>1. PICK i \in 1..Len(s) : s[i] = x /\ RemoveOne(s, x) = Filtered(s, (1..Len(s)) \ {i})
  BY RemovedIsOne
<1> DEFINE P == (1..Len(s)) \ {i}
           r == Filtered(s, P)
<1>2. /\ Len(s) \in Nat /\ Young(s, t) \in SUBSET (1..Len(s)) /\ IsFiniteSet(Young(s, t))
      /\ Cardinality(Young(s, t)) \in Nat
  BY YoungIsFinite
<1>3. IsFiniteSet(1..Len(s)) /\ Cardinality(1..Len(s)) = Len(s)
  BY <1>2, CountTo
<1>4. Cardinality(P) = Len(s) - 1
  <2>1. i \in 1..Len(s)
    BY <1>1
  <2> HIDE DEF P
  <2>2. P = (1..Len(s)) \ {i}
    BY DEF P
  <2> QED
    BY <1>3, <2>1, <2>2, FS_RemoveElement
<1>5. r \in Seq(Times) /\ Len(r) = Len(s) - 1
  <2>1. r \in Seq(Times) /\ \E rank : Selects(rank, s, P, r)
    BY FilteredSelects
  <2>2. Len(r) = Cardinality(P)
    BY <2>1 DEF Selects
  <2> QED
    BY <1>4, <2>1, <2>2
<1>6. Cardinality(Young(r, t)) = Cardinality(Young(s, t) \cap P)
  BY YoungFiltered
<1>7. Young(s, t) \cap P = Young(s, t) \ {i}
  BY <1>2
<1>8. i \in Young(s, t) <=> t - x < Window
  BY <1>1 DEF Young
<1> HIDE DEF P, r
<1>9. Cardinality(Young(r, t)) = Cardinality(Young(s, t)) - (IF t - x < Window THEN 1 ELSE 0)
  <2>1. Cardinality(Young(s, t) \ {i}) =
          IF i \in Young(s, t) THEN Cardinality(Young(s, t)) - 1 ELSE Cardinality(Young(s, t))
    BY <1>2, FS_RemoveElement
  <2> QED
    <3>1. Cardinality(Young(r, t)) = Cardinality(Young(s, t) \ {i})
      BY <1>6, <1>7
    <3>2. CASE t - x < Window
      BY <1>8, <2>1, <3>1, <3>2, Zenon
    <3>3. CASE ~(t - x < Window)
      <4>1. Cardinality(Young(r, t)) = Cardinality(Young(s, t))
        BY <1>8, <2>1, <3>1, <3>3, Zenon
      <4> QED
        BY <1>2, <3>3, <4>1
    <3> QED
      BY <3>2, <3>3
<1> QED
  BY <1>1, <1>5, <1>9 DEF r, P

-----------------------------------------------------------------------------
(* Entries in order.                                                        *)

Ascending(s) == \A i \in 1..Len(s) : \A j \in 1..Len(s) : i <= j => s[i] <= s[j]

LEMMA FilteredAscends ==
  ASSUME NEW s \in Seq(Times), NEW P \in SUBSET (1..Len(s)), Ascending(s)
  PROVE  Ascending(Filtered(s, P))
<1> DEFINE r == Filtered(s, P)
<1>1. PICK rank : Selects(rank, s, P, r)
  BY FilteredSelects
<1>2. /\ \A i \in P : rank[i] \in 1..Len(r) /\ r[rank[i]] = s[i]
      /\ \A j \in 1..Len(r) : \E i \in P : rank[i] = j
      /\ \A i \in P : \A j \in P : i < j => rank[i] < rank[j]
  BY <1>1 DEF Selects, Numbers
<1> HIDE DEF r
<1>3. ASSUME NEW i \in 1..Len(r), NEW j \in 1..Len(r), i <= j
      PROVE  r[i] <= r[j]
  <2>1. PICK a \in P, b \in P : rank[a] = i /\ rank[b] = j
    BY <1>2
  <2>2. a \in 1..Len(s) /\ b \in 1..Len(s) /\ a \in Int /\ b \in Int
    OBVIOUS
  <2>3. ~(b < a)
    BY <1>2, <1>3, <2>1, <2>2
  <2>4. s[a] <= s[b]
    BY <2>2, <2>3 DEF Ascending
  <2> QED
    BY <1>2, <2>1, <2>4
<1> QED
  BY <1>3 DEF r, Ascending

LEMMA AppendedAscends ==
  ASSUME NEW s \in Seq(Times), NEW x \in Times, Ascending(s),
         \A i \in 1..Len(s) : s[i] <= x
  PROVE  Ascending(Append(s, x))
<1>1. /\ Len(Append(s, x)) = Len(s) + 1 /\ Append(s, x)[Len(s) + 1] = x
      /\ \A i \in 1..Len(s) : Append(s, x)[i] = s[i]
  BY LenProperties
<1>2. Len(s) \in Nat /\ x <= x
  BY LenProperties DEF Times
<1>3. \A i \in 1..Len(s) : s[i] \in Nat
  BY DatesAreNumbers
<1> QED
  BY <1>1, <1>2, <1>3 DEF Ascending

-----------------------------------------------------------------------------
(* Attempts and the entries that stand for them.                            *)

Stands(pos, A, s, st) ==
  /\ pos \in [A -> 1..Len(s)]
  /\ \A a \in A : \A b \in A : pos[a] = pos[b] => a = b
  /\ \A a \in A : s[pos[a]] = st[a]

(* Each attempt of A has an entry of s to itself, dated as st says, ...     *)
Matched(A, s, st) == \E pos : Stands(pos, A, s, st)

(* ... and no entry is nobody's.                                            *)
Paired(A, s, st) ==
  \E pos : Stands(pos, A, s, st) /\ \A i \in 1..Len(s) : \E a \in A : pos[a] = i

LEMMA MatchedLess ==
  ASSUME NEW A, NEW s, NEW st, NEW B, NEW su, Matched(A, s, st), B \subseteq A,
         \A b \in B : su[b] = st[b]
  PROVE  Matched(B, s, su)
<1>1. PICK pos : Stands(pos, A, s, st)
  BY DEF Matched
<1> DEFINE new == [b \in B |-> pos[b]]
<1>2. Stands(new, B, s, su)
  BY <1>1 DEF Stands
<1> QED
  BY <1>2 DEF Matched

LEMMA MatchedFiltered ==
  ASSUME NEW A, NEW s \in Seq(Times), NEW st, NEW P \in SUBSET (1..Len(s)), Matched(A, s, st),
         \A i \in 1..Len(s) : (\E a \in A : s[i] = st[a]) => i \in P
  PROVE  Matched(A, Filtered(s, P), st)
<1> DEFINE r == Filtered(s, P)
<1>1. PICK rank : Selects(rank, s, P, r)
  BY FilteredSelects
<1>2. /\ \A i \in P : rank[i] \in 1..Len(r) /\ r[rank[i]] = s[i]
      /\ \A i \in P : \A j \in P : rank[i] = rank[j] => i = j
  BY <1>1 DEF Selects, Numbers, Bijection, Injection, IsInjective
<1>3. PICK pos : Stands(pos, A, s, st)
  BY DEF Matched
<1>4. /\ \A a \in A : pos[a] \in P /\ s[pos[a]] = st[a]
      /\ \A a \in A : \A b \in A : pos[a] = pos[b] => a = b
  BY <1>3 DEF Stands
<1> HIDE DEF r
<1> DEFINE new == [a \in A |-> rank[pos[a]]]
<1>5. Stands(new, A, r, st)
  BY <1>2, <1>4 DEF Stands
<1> QED
  BY <1>5 DEF Matched, r

LEMMA MatchedAppended ==
  ASSUME NEW A, NEW s \in Seq(Times), NEW st, NEW x \in Times, NEW a, a \notin A, st[a] = x,
         Matched(A, s, st)
  PROVE  Matched(A \cup {a}, Append(s, x), st)
<1>1. PICK pos : Stands(pos, A, s, st)
  BY DEF Matched
<1> DEFINE r == Append(s, x)
           new == [b \in A \cup {a} |-> IF b = a THEN Len(s) + 1 ELSE pos[b]]
<1>2. /\ Len(s) \in Nat /\ Len(r) = Len(s) + 1 /\ r[Len(s) + 1] = x
      /\ \A i \in 1..Len(s) : r[i] = s[i]
  BY LenProperties
<1> HIDE DEF r
<1>3. Stands(new, A \cup {a}, r, st)
  BY <1>1, <1>2 DEF Stands
<1> QED
  BY <1>3 DEF Matched, r

LEMMA MatchedYoung ==
  ASSUME NEW A, NEW s \in Seq(Times), NEW st, NEW t \in Int, Matched(A, s, st),
         \A a \in A : t - st[a] < Window
  PROVE  IsFiniteSet(A) /\ Cardinality(A) <= Cardinality(Young(s, t))
<1>1. PICK pos : Stands(pos, A, s, st)
  BY DEF Matched
<1>2. pos \in Injection(A, Young(s, t))
  BY <1>1 DEF Stands, Young, Injection, IsInjective
<1> QED
  BY <1>2, YoungIsFinite, FS_Injection

LEMMA PairedAppended ==
  ASSUME NEW A, NEW s \in Seq(Times), NEW st, NEW su, NEW x \in Times, NEW a, a \notin A,
         su[a] = x, \A b \in A : su[b] = st[b], Paired(A, s, st)
  PROVE  Paired(A \cup {a}, Append(s, x), su)
<1>1. PICK pos : Stands(pos, A, s, st) /\ \A i \in 1..Len(s) : \E b \in A : pos[b] = i
  BY DEF Paired
<1> DEFINE r == Append(s, x)
           new == [b \in A \cup {a} |-> IF b = a THEN Len(s) + 1 ELSE pos[b]]
<1>2. /\ Len(s) \in Nat /\ Len(r) = Len(s) + 1 /\ r[Len(s) + 1] = x
      /\ \A i \in 1..Len(s) : r[i] = s[i]
  BY LenProperties
<1> HIDE DEF r
<1>3. Stands(new, A \cup {a}, r, su)
  BY <1>1, <1>2 DEF Stands
<1>4. ASSUME NEW i \in 1..Len(r) PROVE \E b \in A \cup {a} : new[b] = i
  <2>1. CASE i = Len(s) + 1
    BY <2>1
  <2>2. CASE i # Len(s) + 1
    BY <1>1, <1>2, <2>2
  <2> QED
    BY <2>1, <2>2
<1> QED
  BY <1>3, <1>4 DEF Paired, r

LEMMA PairedRemoved ==
  ASSUME NEW A, NEW s \in Seq(Times), NEW st, NEW a \in A, st[a] \in Times, Paired(A, s, st)
  PROVE  Paired(A \ {a}, RemoveOne(s, st[a]), st)
<1>1. PICK pos : Stands(pos, A, s, st) /\ \A i \in 1..Len(s) : \E b \in A : pos[b] = i
  BY DEF Paired
<1>2. pos[a] \in 1..Len(s) /\ s[pos[a]] = st[a]
  BY <1>1 DEF Stands
<1>3. PICK i \in 1..Len(s) : s[i] = st[a] /\ RemoveOne(s, st[a]) = Filtered(s, (1..Len(s)) \ {i})
  BY <1>2, RemovedIsOne
<1> DEFINE P == (1..Len(s)) \ {i}
           r == Filtered(s, P)
           B == A \ {a}
           old(b) == IF pos[b] = i THEN pos[a] ELSE pos[b]
<1>4. PICK rank : Selects(rank, s, P, r)
  BY FilteredSelects
<1>5. /\ \A j \in P : rank[j] \in 1..Len(r) /\ r[rank[j]] = s[j]
      /\ \A j \in 1..Len(r) : \E h \in P : rank[h] = j
      /\ \A h \in P : \A j \in P : rank[h] = rank[j] => h = j
  BY <1>4 DEF Selects, Numbers, Bijection, Injection, IsInjective
<1>6. ASSUME NEW b \in B
      PROVE  old(b) \in P /\ s[old(b)] = st[b]
  BY <1>1, <1>2, <1>3 DEF Stands
<1>7. \A b \in B : \A c \in B : old(b) = old(c) => b = c
  BY <1>1, <1>2 DEF Stands
<1>8. ASSUME NEW j \in P
      PROVE  \E b \in B : old(b) = j
  <2>1. CASE j = pos[a]
    <3>1. PICK b \in A : pos[b] = i
      BY <1>1
    <3> QED
      BY <2>1, <3>1
  <2>2. CASE j # pos[a]
    <3>1. PICK b \in A : pos[b] = j
      BY <1>1
    <3> QED
      BY <2>2, <3>1
  <2> QED
    BY <2>1, <2>2
<1> HIDE DEF P, r, B, old
<1> DEFINE new == [b \in B |-> rank[old(b)]]
<1>9. Stands(new, B, r, st)
  BY <1>5, <1>6, <1>7 DEF Stands
<1>10. \A j \in 1..Len(r) : \E b \in B : new[b] = j
  BY <1>5, <1>8
<1>11. Paired(B, r, st)
  BY <1>9, <1>10 DEF Paired
<1> QED
  BY <1>3, <1>11 DEF r, P, B

LEMMA PairedChanged ==
  ASSUME NEW A, NEW s, NEW st, NEW su, Paired(A, s, st), \A b \in A : su[b] = st[b]
  PROVE  Paired(A, s, su)
BY DEF Paired, Stands

(* As many entries of each date as attempts.                                *)
Dated(A, st, t) == {a \in A : st[a] = t}

SameDates(A, s, st) == \A t \in Times : Cardinality(Places(s, t)) = Cardinality(Dated(A, st, t))

LEMMA PairedCounts ==
  ASSUME NEW A, NEW s \in Seq(Times), NEW st, Paired(A, s, st)
  PROVE  IsFiniteSet(A) /\ Len(s) = Cardinality(A) /\ SameDates(A, s, st)
<1>1. PICK pos : Stands(pos, A, s, st) /\ \A i \in 1..Len(s) : \E b \in A : pos[b] = i
  BY DEF Paired
<1>2. Len(s) \in Nat /\ IsFiniteSet(1..Len(s)) /\ Cardinality(1..Len(s)) = Len(s)
  BY LenProperties, CountTo
<1>3. pos \in Injection(A, 1..Len(s)) /\ pos \in Surjection(A, 1..Len(s))
  BY <1>1 DEF Stands, Injection, IsInjective, Surjection
<1>4. IsFiniteSet(A) /\ Cardinality(A) = Cardinality(1..Len(s))
  BY <1>2, <1>3, FS_Injection
<1>5. ASSUME NEW t \in Times
      PROVE  Cardinality(Places(s, t)) = Cardinality(Dated(A, st, t))
  <2> DEFINE Q == {a \in A : st[a] = t}
             g == [a \in Q |-> pos[a]]
  <2>1. Places(s, t) \in SUBSET (1..Len(s))
    BY DEF Places
  <2>2. IsFiniteSet(Places(s, t))
    BY <1>2, <2>1, FS_Subset
  <2>3. g \in [Q -> Places(s, t)]
    BY <1>1 DEF Stands, Places
  <2>4. g \in Injection(Q, Places(s, t))
    BY <1>1, <2>3 DEF Stands, Injection, IsInjective
  <2>5. g \in Surjection(Q, Places(s, t))
    BY <1>1, <2>3 DEF Stands, Places, Surjection
  <2> HIDE DEF Q, g
  <2>6. Cardinality(Q) = Cardinality(Places(s, t))
    BY <2>2, <2>4, <2>5, FS_Injection
  <2> QED
    BY <2>6 DEF Q, Dated
<1> QED
  BY <1>2, <1>4, <1>5 DEF SameDates

-----------------------------------------------------------------------------
(* The invariant, key by key.                                               *)

Running(k)  == {a \in On(k) : phase[a] = "running"}
Recorded(k) == {a \in On(k) : phase[a] \in {"charged", "over"} /\ now - start[a] < Window}
Alive(k)    == {a \in Counted(k) : now - start[a] < Window}

Slots(k) == Paired(Running(k), inFlight[k], start) /\ Ascending(inFlight[k])

(* What was recorded in the window is there, unless a sweep took it.        *)
Entries(k) == k \notin lost => Matched(Recorded(k), failures[k], start)

Past(k) ==
  /\ \A a \in On(k) : start[a] <= now
  /\ \A i \in 1..Len(failures[k]) : failures[k][i] <= now

(* Entries and slots together never pass the budget.                        *)
Ceiling(k) == Cardinality(Young(failures[k], now)) + Len(inFlight[k]) <= MaxFailures

(* A ration holds no slots and records in the order of its dates.           *)
Ration(k) == use = "ration" => Running(k) = {} /\ Ascending(failures[k])

(* Once the moment promised has come, a slot of those held now has gone.    *)
Quote(k) ==
  use = "ladder" /\ promise[k] # 0 =>
    Cardinality(Young(failures[k], promise[k])) + Cardinality(Young(inFlight[k], promise[k]))
      < MaxFailures

Budget(k) == k \notin lost => Cardinality(Alive(k)) <= MaxFailures

KeyInv(k) ==
  Slots(k) /\ Entries(k) /\ Past(k) /\ Ceiling(k) /\ Ration(k) /\ Quote(k) /\ Budget(k)

LimiterInv == TypeOK /\ \A k \in Keys : KeyInv(k)

LEMMA NothingYoung ==
  ASSUME NEW t
  PROVE  Young(<<>>, t) = {} /\ Cardinality(Young(<<>>, t)) = 0 /\ Ascending(<<>>)
<1>1. Young(<<>>, t) = {}
  BY DEF Young
<1> QED
  BY <1>1, FS_EmptySet DEF Ascending

LEMMA NobodyMatched ==
  ASSUME NEW s, NEW st
  PROVE  Matched({}, s, st)
<1>1. Stands([a \in {} |-> 0], {}, s, st)
  BY DEF Stands
<1> QED
  BY <1>1 DEF Matched

LEMMA KeysTyped ==
  ASSUME TypeOK, NEW k \in Keys
  PROVE  /\ failures[k] \in Seq(Times) /\ inFlight[k] \in Seq(Times)
         /\ now \in Nat /\ promise[k] \in Nat /\ MaxFailures \in Nat /\ Window \in Nat
         /\ \A a \in On(k) : a \in Attempts /\ start[a] \in Times /\ start[a] \in Nat
BY LimiterAssumption DEF TypeOK, Times, On

LEMMA AliveIsFinite ==
  ASSUME NEW S, S \subseteq Attempts
  PROVE  IsFiniteSet(S) /\ Cardinality(S) \in Nat
BY LimiterAssumption, FS_Subset, FS_CardinalityType

(* Who is recorded has an entry that is young.                              *)
LEMMA RecordedAreYoung ==
  ASSUME TypeOK, NEW k \in Keys, Matched(Recorded(k), failures[k], start)
  PROVE  Cardinality(Recorded(k)) <= Cardinality(Young(failures[k], now))
<1>1. \A a \in Recorded(k) : now - start[a] < Window
  BY DEF Recorded
<1>2. failures[k] \in Seq(Times) /\ now \in Int
  BY KeysTyped
<1> QED
  BY <1>1, <1>2, MatchedYoung

(* What happens to a key nobody asks about: at most the sweep takes it.     *)
Passed(j) ==
  /\ now' = now /\ use' = use /\ inFlight'[j] = inFlight[j] /\ promise'[j] = promise[j]
  /\ \A a \in On(j) : phase'[a] = phase[a] /\ start'[a] = start[a]
  /\ lost \subseteq lost'
  /\ \/ failures'[j] = failures[j]
     \/ failures'[j] = <<>> /\ (j \in lost' \/ Young(failures[j], now) = {})

LEMMA PassedKeeps ==
  ASSUME TypeOK, NEW j \in Keys, KeyInv(j), Passed(j)
  PROVE  KeyInv(j)'
<1>1. /\ failures[j] \in Seq(Times) /\ inFlight[j] \in Seq(Times) /\ now \in Nat
      /\ promise[j] \in Nat /\ MaxFailures \in Nat
  BY KeysTyped
<1>2. /\ now' = now /\ use' = use /\ inFlight'[j] = inFlight[j] /\ promise'[j] = promise[j]
      /\ \A a \in On(j) : phase'[a] = phase[a] /\ start'[a] = start[a]
      /\ j \notin lost' => j \notin lost
  BY DEF Passed
<1>3. Running(j)' = Running(j) /\ Recorded(j)' = Recorded(j) /\ Alive(j)' = Alive(j)
  BY <1>2 DEF Running, Recorded, Alive, Counted, On
<1>4. Slots(j)'
  <2>1. \A a \in Running(j) : start'[a] = start[a]
    BY <1>2 DEF Running
  <2>2. Paired(Running(j), inFlight[j], start')
    BY <2>1, PairedChanged DEF KeyInv, Slots
  <2> QED
    BY <1>2, <1>3, <2>2 DEF KeyInv, Slots
<1>5. Entries(j)'
  <2> SUFFICES ASSUME j \notin lost' PROVE Matched(Recorded(j), failures'[j], start')
    BY <1>3 DEF Entries
  <2>1. Matched(Recorded(j), failures[j], start)
    BY <1>2 DEF KeyInv, Entries
  <2>2. CASE failures'[j] = failures[j]
    <3>1. \A a \in Recorded(j) : start'[a] = start[a]
      BY <1>2 DEF Recorded
    <3> QED
      BY <2>1, <2>2, <3>1, MatchedLess
  <2>3. CASE Young(failures[j], now) = {}
    <3>1. Cardinality(Recorded(j)) <= 0
      BY <2>1, <2>3, RecordedAreYoung, FS_EmptySet
    <3>2. IsFiniteSet(Recorded(j)) /\ Cardinality(Recorded(j)) \in Nat
      BY AliveIsFinite DEF Recorded, On
    <3>3. Recorded(j) = {}
      BY <3>1, <3>2, FS_EmptySet
    <3> QED
      BY <3>3, NobodyMatched
  <2> QED
    BY <2>2, <2>3 DEF Passed
<1>6. /\ Past(j)' /\ Ration(j)'
      /\ \A t \in Int : Cardinality(Young(failures'[j], t)) <= Cardinality(Young(failures[j], t))
      /\ \A t \in Int : Cardinality(Young(failures'[j], t)) \in Nat
  <2>1. CASE failures'[j] = failures[j]
    <3>1. \A t \in Int : Cardinality(Young(failures'[j], t)) \in Nat
      BY <1>1, <2>1, YoungIsFinite
    <3>2. Past(j)'
      BY <1>2, <2>1 DEF KeyInv, Past, On
    <3>3. Ration(j)'
      BY <1>2, <1>3, <2>1 DEF KeyInv, Ration
    <3> QED
      BY <2>1, <3>1, <3>2, <3>3
  <2>2. CASE failures'[j] = <<>>
    <3>1. \A t \in Int : Cardinality(Young(failures[j], t)) \in Nat
      BY <1>1, YoungIsFinite
    <3>2. Past(j)'
      BY <1>2, <2>2 DEF KeyInv, Past, On
    <3>3. Ration(j)'
      BY <1>2, <1>3, <2>2, NothingYoung DEF KeyInv, Ration
    <3> QED
      BY <2>2, <3>1, <3>2, <3>3, NothingYoung
  <2> QED
    BY <2>1, <2>2 DEF Passed
<1>7. Ceiling(j)'
  <2>1. Cardinality(Young(failures'[j], now)) <= Cardinality(Young(failures[j], now))
    BY <1>1, <1>6
  <2>2. Cardinality(Young(failures[j], now)) \in Nat /\ Cardinality(Young(failures'[j], now)) \in Nat
        /\ Len(inFlight[j]) \in Nat
    <3>1. now \in Int
      BY <1>1
    <3> QED
      BY <1>1, <1>6, <3>1, YoungIsFinite
  <2> QED
    BY <1>1, <1>2, <2>1, <2>2 DEF KeyInv, Ceiling
<1>8. Quote(j)'
  <2>1. Cardinality(Young(failures'[j], promise[j])) <= Cardinality(Young(failures[j], promise[j]))
    BY <1>1, <1>6
  <2>2. /\ Cardinality(Young(failures[j], promise[j])) \in Nat
        /\ Cardinality(Young(failures'[j], promise[j])) \in Nat
        /\ Cardinality(Young(inFlight[j], promise[j])) \in Nat
    <3>1. promise[j] \in Int
      BY <1>1
    <3> QED
      BY <1>1, <1>6, <3>1, YoungIsFinite
  <2> QED
    BY <1>1, <1>2, <2>1, <2>2 DEF KeyInv, Quote
<1>9. Budget(j)'
  BY <1>2, <1>3 DEF KeyInv, Budget
<1> QED
  BY <1>4, <1>5, <1>6, <1>7, <1>8, <1>9 DEF KeyInv

-----------------------------------------------------------------------------
(* The key that is asked about.                                             *)

LEMMA PrunedHolds ==
  ASSUME TypeOK, NEW k \in Keys, KeyInv(k), NEW at \in Nat, at <= now
  PROVE  /\ k \notin lost => Matched(Recorded(k), Recent(k, at), start)
         /\ \A i \in 1..Len(Recent(k, at)) : Recent(k, at)[i] <= now /\ at - Recent(k, at)[i] < Window
         /\ \A i \in Young(failures[k], at) :
              \E j \in 1..Len(Recent(k, at)) : Recent(k, at)[j] = failures[k][i]
         /\ Ascending(failures[k]) => Ascending(Recent(k, at))
<1> DEFINE s == failures[k]
           P == Young(s, at)
<1>1. /\ s \in Seq(Times) /\ now \in Nat /\ at \in Int
      /\ \A a \in On(k) : start[a] \in Nat
  BY KeysTyped
<1>2. P \in SUBSET (1..Len(s))
  BY <1>1, YoungIsFinite
<1>3. Recent(k, at) = Filtered(s, P)
  BY DEF Recent
<1>4. ASSUME k \notin lost
      PROVE  Matched(Recorded(k), Filtered(s, P), start)
  <2>1. Matched(Recorded(k), s, start)
    BY <1>4 DEF KeyInv, Entries
  <2>2. ASSUME NEW i \in 1..Len(s), NEW a \in Recorded(k), s[i] = start[a]
        PROVE  i \in P
    <3>1. start[a] \in Nat /\ now - start[a] < Window
      BY <1>1 DEF Recorded
    <3>2. at - start[a] < Window
      BY <1>1, <3>1, LimiterAssumption
    <3> QED
      BY <2>2, <3>2 DEF Young
  <2> HIDE DEF s, P
  <2> QED
    BY <1>1, <1>2, <2>1, <2>2, MatchedFiltered
<1>5. PICK rank : Selects(rank, s, P, Filtered(s, P))
  BY <1>1, <1>2, FilteredSelects
<1>6. /\ \A i \in P : rank[i] \in 1..Len(Recent(k, at)) /\ Recent(k, at)[rank[i]] = s[i]
      /\ \A j \in 1..Len(Recent(k, at)) : \E i \in P : rank[i] = j
  BY <1>3, <1>5 DEF Selects
<1>7. \A i \in P : s[i] <= now /\ at - s[i] < Window
  BY <1>2 DEF KeyInv, Past, Young
<1>8. Ascending(s) => Ascending(Filtered(s, P))
  BY <1>1, <1>2, FilteredAscends
<1> QED
  BY <1>3, <1>4, <1>6, <1>7, <1>8

(* Slots are held since moments that have passed.                           *)
LEMMA HeldIsPast ==
  ASSUME TypeOK, NEW k \in Keys, KeyInv(k)
  PROVE  \A i \in 1..Len(inFlight[k]) :
           \E a \in Running(k) : inFlight[k][i] = start[a] /\ start[a] <= now
<1>1. PICK pos : /\ Stands(pos, Running(k), inFlight[k], start)
                 /\ \A i \in 1..Len(inFlight[k]) : \E a \in Running(k) : pos[a] = i
  BY DEF KeyInv, Slots, Paired
<1>2. \A a \in Running(k) : inFlight[k][pos[a]] = start[a] /\ start[a] <= now
  BY <1>1 DEF Stands, KeyInv, Past, Running
<1> QED
  BY <1>1, <1>2

(* Whoever counts is recorded or runs.                                      *)
LEMMA AliveAreCounted ==
  ASSUME TypeOK, NEW k \in Keys, KeyInv(k), k \notin lost
  PROVE  /\ IsFiniteSet(Alive(k)) /\ Cardinality(Alive(k)) \in Nat
         /\ Cardinality(Alive(k)) <= Len(Recent(k, now)) + Len(inFlight[k])
<1>1. /\ IsFiniteSet(Alive(k)) /\ Cardinality(Alive(k)) \in Nat
      /\ IsFiniteSet(Recorded(k)) /\ Cardinality(Recorded(k)) \in Nat
      /\ IsFiniteSet(Running(k)) /\ Cardinality(Running(k)) \in Nat
  BY AliveIsFinite DEF Alive, Counted, Recorded, Running, On
<1>2. inFlight[k] \in Seq(Times) /\ now \in Int
  BY KeysTyped
<1>3. Cardinality(Running(k)) = Len(inFlight[k])
  BY <1>2, PairedCounts DEF KeyInv, Slots
<1>4. Cardinality(Recorded(k)) <= Len(Recent(k, now))
  BY <1>2, RecordedAreYoung, RecentIsYoung DEF KeyInv, Entries
<1>5. Alive(k) \in SUBSET (Recorded(k) \cup Running(k))
  BY DEF Alive, Counted, Recorded, Running
<1>6. /\ IsFiniteSet(Recorded(k) \cup Running(k))
      /\ Cardinality(Recorded(k) \cup Running(k)) =
           Cardinality(Recorded(k)) + Cardinality(Running(k)) - Cardinality(Recorded(k) \cap Running(k))
  BY <1>1, FS_Union
<1>7. Cardinality(Recorded(k) \cap Running(k)) \in Nat
  BY <1>1, FS_Intersection, FS_CardinalityType
<1>8. Cardinality(Alive(k)) <= Cardinality(Recorded(k) \cup Running(k))
  BY <1>5, <1>6, FS_Subset
<1>9. Len(Recent(k, now)) \in Nat
  BY <1>2, RecentIsYoung, LenProperties
<1> QED
  BY <1>1, <1>3, <1>4, <1>6, <1>7, <1>8, <1>9

LEMMA BeginKeeps ==
  ASSUME TypeOK, NEW a \in Attempts, Begin(a), KeyInv(KeyOf[a])
  PROVE  KeyInv(KeyOf[a])'
<1> DEFINE k == KeyOf[a]
<1>1. /\ k \in Keys /\ a \in On(k)
  BY LimiterAssumption DEF On
<1>2. /\ use # "ration" /\ phase[a] = "idle" /\ Open(k, now)
      /\ failures'[k] = Recent(k, now)
      /\ inFlight'[k] = Append(inFlight[k], now)
      /\ phase' = [phase EXCEPT ![a] = "running"] /\ start' = [start EXCEPT ![a] = now]
      /\ promise'[k] = 0 /\ use' = use /\ now' = now /\ lost' = lost
  BY <1>1 DEF Begin, TypeOK
<1>3. /\ failures[k] \in Seq(Times) /\ inFlight[k] \in Seq(Times) /\ now \in Nat /\ now \in Int
      /\ now \in Times /\ MaxFailures \in Nat /\ Window \in Nat
  BY <1>1, KeysTyped DEF TypeOK
<1>4. /\ phase'[a] = "running" /\ start'[a] = now
      /\ \A b \in Attempts : b # a => phase'[b] = phase[b] /\ start'[b] = start[b]
  BY <1>2 DEF TypeOK
<1> HIDE DEF k
<1>5. /\ Running(k)' = Running(k) \cup {a} /\ a \notin Running(k)
      /\ Recorded(k)' = Recorded(k) /\ a \notin Recorded(k)
      /\ Alive(k)' \in SUBSET (Alive(k) \cup {a}) /\ a \notin Alive(k)
  BY <1>1, <1>2, <1>4 DEF Running, Recorded, Alive, Counted, On
<1>6. Slots(k)'
  <2>1. \A b \in Running(k) : start'[b] = start[b]
    BY <1>4, <1>5 DEF Running, On
  <2>2. Paired(Running(k), inFlight[k], start) /\ Ascending(inFlight[k])
    BY DEF KeyInv, Slots, k
  <2>3. Paired(Running(k) \cup {a}, Append(inFlight[k], now), start')
    BY <1>3, <1>4, <1>5, <2>1, <2>2, PairedAppended
  <2>4. \A i \in 1..Len(inFlight[k]) : inFlight[k][i] <= now
    BY <1>1, HeldIsPast DEF k
  <2>5. Ascending(Append(inFlight[k], now))
    BY <1>3, <2>2, <2>4, AppendedAscends
  <2> QED
    BY <1>2, <1>5, <2>3, <2>5 DEF Slots
<1>7. Entries(k)'
  <2> SUFFICES ASSUME k \notin lost PROVE Matched(Recorded(k), Recent(k, now), start')
    BY <1>2, <1>5 DEF Entries
  <2>1. Matched(Recorded(k), Recent(k, now), start)
    BY <1>1, <1>3, PrunedHolds DEF k
  <2>2. \A b \in Recorded(k) : start'[b] = start[b]
    BY <1>4, <1>5 DEF Recorded, On
  <2> QED
    BY <2>1, <2>2, MatchedLess
<1>8. Past(k)'
  <2>1. \A i \in 1..Len(Recent(k, now)) : Recent(k, now)[i] <= now
    BY <1>1, <1>3, PrunedHolds DEF k
  <2>2. \A b \in On(k) : start'[b] <= now
    BY <1>3, <1>4 DEF KeyInv, Past, On, k
  <2> QED
    BY <1>2, <2>1, <2>2 DEF Past, On
<1>9. /\ Len(Recent(k, now)) \in Nat /\ Len(inFlight[k]) \in Nat
      /\ Len(Recent(k, now)) + Len(inFlight[k]) < MaxFailures
      /\ Len(Append(inFlight[k], now)) = Len(inFlight[k]) + 1
  BY <1>1, <1>2, <1>3, RecentIsYoung, LenProperties, YoungAppended DEF Open
<1>10. Ceiling(k)'
  <2>1. Cardinality(Young(Recent(k, now), now)) <= Len(Recent(k, now))
        /\ Cardinality(Young(Recent(k, now), now)) \in Nat
    BY <1>1, <1>3, RecentIsYoung, YoungIsFinite
  <2> QED
    BY <1>2, <1>3, <1>9, <2>1 DEF Ceiling
<1>11. Ration(k)' /\ Quote(k)'
  BY <1>2 DEF Ration, Quote
<1>12. Budget(k)'
  <2> SUFFICES ASSUME k \notin lost PROVE Cardinality(Alive(k)') <= MaxFailures
    BY <1>2 DEF Budget
  <2>1. /\ IsFiniteSet(Alive(k)) /\ Cardinality(Alive(k)) \in Nat
        /\ Cardinality(Alive(k)) <= Len(Recent(k, now)) + Len(inFlight[k])
    BY <1>1, AliveAreCounted DEF k
  <2>2. IsFiniteSet(Alive(k) \cup {a}) /\ Cardinality(Alive(k) \cup {a}) = Cardinality(Alive(k)) + 1
    BY <1>5, <2>1, FS_AddElement
  <2>3. IsFiniteSet(Alive(k)') /\ Cardinality(Alive(k)') <= Cardinality(Alive(k) \cup {a})
    BY <1>5, <2>2, FS_Subset
  <2>4. Cardinality(Alive(k)') \in Nat
    BY <2>3, FS_CardinalityType
  <2> QED
    BY <1>3, <1>9, <2>1, <2>2, <2>3, <2>4
<1> QED
  BY <1>6, <1>7, <1>8, <1>10, <1>11, <1>12 DEF KeyInv, k

LEMMA NotAllYoung ==
  ASSUME NEW s \in Seq(Times), NEW t \in Int, NEW i \in 1..Len(s), t - s[i] >= Window
  PROVE  Cardinality(Young(s, t)) < Len(s)
<1>1. /\ Len(s) \in Nat /\ IsFiniteSet(1..Len(s)) /\ Cardinality(1..Len(s)) = Len(s)
      /\ s[i] \in Int /\ Window \in Int
  BY LenProperties, CountTo, DatesAreNumbers, LimiterAssumption
<1>2. Young(s, t) \in SUBSET (1..Len(s)) /\ Young(s, t) # 1..Len(s)
  BY <1>1 DEF Young
<1>3. /\ Cardinality(Young(s, t)) \in Nat /\ Cardinality(Young(s, t)) <= Len(s)
      /\ (Cardinality(Young(s, t)) = Len(s) => Young(s, t) = 1..Len(s))
  BY <1>1, <1>2, FS_Subset, YoungIsFinite
<1> QED
  BY <1>1, <1>2, <1>3

(* The moment quoted is no earlier than one of the slots leaves the window. *)
LEMMA QuotedIsEnough ==
  ASSUME TypeOK, NEW k \in Keys, use = "ladder",
         Recent(k, now) # <<>> \/ inFlight[k] # <<>>
  PROVE  /\ RetryAfter(k, now) \in Nat \ {0}
         /\ \/ /\ Recent(k, now) # <<>>
               /\ (now + RetryAfter(k, now)) - Recent(k, now)[1] >= Window
            \/ /\ inFlight[k] # <<>>
               /\ (now + RetryAfter(k, now)) - inFlight[k][1] >= Window
<1> DEFINE r == Recent(k, now)
           s == inFlight[k]
           S == OldestSlots(k, now)
           oldest == CHOOSE x \in S : \A y \in S : x <= y
<1>1. now \in Nat /\ now \in Int /\ r \in Seq(Times) /\ s \in Seq(Times) /\ Window \in Nat \ {0}
  BY KeysTyped, RecentIsYoung, LimiterAssumption
<1>2. /\ r # <<>> => r[1] \in S /\ r[1] \in Nat
      /\ s # <<>> => s[1] \in S /\ s[1] \in Nat
  <2>1. /\ r # <<>> => 1 \in 1..Len(r)
        /\ s # <<>> => 1 \in 1..Len(s)
    BY <1>1, LenProperties
  <2>2. /\ r # <<>> => r[1] \in Nat
        /\ s # <<>> => s[1] \in Nat
    BY <1>1, <2>1, DatesAreNumbers
  <2>3. /\ r # <<>> => r[1] \in S
        /\ s # <<>> => s[1] \in S
    BY DEF OldestSlots
  <2> QED
    BY <2>2, <2>3
<1>3. \A x \in S : (r # <<>> /\ x = r[1]) \/ (s # <<>> /\ x = s[1])
  BY DEF OldestSlots
<1>4. S # {} /\ \E x \in S : \A y \in S : x <= y
  <2> HIDE DEF r, s, S
  <2>1. r # <<>> \/ s # <<>>
    BY DEF r, s
  <2>2. CASE r # <<>> /\ s # <<>>
    <3>1. CASE r[1] <= s[1]
      BY <1>2, <1>3, <2>2, <3>1
    <3>2. CASE s[1] <= r[1]
      BY <1>2, <1>3, <2>2, <3>2
    <3> QED
      BY <1>2, <2>2, <3>1, <3>2
  <2>3. CASE r = <<>> /\ s # <<>>
    BY <1>2, <1>3, <2>3
  <2>4. CASE r # <<>> /\ s = <<>>
    BY <1>2, <1>3, <2>4
  <2> QED
    BY <2>1, <2>2, <2>3, <2>4
<1>5. oldest \in S
  <2> HIDE DEF S
  <2> QED
    BY <1>4, Zenon
<1>6. oldest \in Nat
  BY <1>2, <1>3, <1>5
<1>7. RetryAfter(k, now) = Greatest(1, Window - (now - oldest))
  BY <1>4 DEF RetryAfter
<1> HIDE DEF oldest
<1>8. RetryAfter(k, now) \in Nat \ {0} /\ RetryAfter(k, now) >= Window - (now - oldest)
  BY <1>1, <1>6, <1>7 DEF Greatest
<1>9. (now + RetryAfter(k, now)) - oldest >= Window
  BY <1>1, <1>6, <1>8
<1> QED
  BY <1>3, <1>5, <1>8, <1>9

LEMMA RefuseKeeps ==
  ASSUME TypeOK, NEW a \in Attempts, Refuse(a), KeyInv(KeyOf[a])
  PROVE  KeyInv(KeyOf[a])' /\ promise'[KeyOf[a]] \in Nat
<1> DEFINE k == KeyOf[a]
           when == now + RetryAfter(k, now)
<1>1. k \in Keys
  BY LimiterAssumption
<1>2. /\ ~Open(k, now) /\ failures'[k] = Recent(k, now)
      /\ promise'[k] = (IF promise[k] = 0 THEN when ELSE Least(promise[k], when))
      /\ use' = use /\ now' = now /\ phase' = phase /\ start' = start
      /\ inFlight' = inFlight /\ lost' = lost
  BY <1>1 DEF Refuse, TypeOK
<1>3. /\ failures[k] \in Seq(Times) /\ inFlight[k] \in Seq(Times) /\ now \in Nat /\ now \in Int
      /\ promise[k] \in Nat /\ MaxFailures \in Nat \ {0} /\ Recent(k, now) \in Seq(Times)
      /\ Len(Recent(k, now)) = Cardinality(Young(failures[k], now))
      /\ Len(inFlight[k]) \in Nat /\ Len(Recent(k, now)) \in Nat
  <2>1. /\ failures[k] \in Seq(Times) /\ inFlight[k] \in Seq(Times) /\ now \in Nat /\ now \in Int
        /\ promise[k] \in Nat /\ MaxFailures \in Nat \ {0}
    BY <1>1, KeysTyped, LimiterAssumption
  <2>2. /\ Recent(k, now) \in Seq(Times)
        /\ Len(Recent(k, now)) = Cardinality(Young(failures[k], now))
    BY <1>1, <2>1, RecentIsYoung
  <2> QED
    BY <2>1, <2>2, LenProperties
<1>0. when = now + RetryAfter(k, now)
  OBVIOUS
<1> HIDE DEF k, when
<1>4. Running(k)' = Running(k) /\ Recorded(k)' = Recorded(k) /\ Alive(k)' = Alive(k)
  BY <1>2 DEF Running, Recorded, Alive, Counted, On
<1>5. Slots(k)' /\ Budget(k)'
  BY <1>2, <1>4 DEF KeyInv, Slots, Budget, k
<1>6. Entries(k)'
  BY <1>1, <1>2, <1>3, <1>4, PrunedHolds DEF Entries, k
<1>7. Past(k)'
  <2>1. \A i \in 1..Len(Recent(k, now)) : Recent(k, now)[i] <= now
    BY <1>1, <1>3, PrunedHolds DEF k
  <2> QED
    BY <1>2, <2>1 DEF KeyInv, Past, On, k
<1>8. Ceiling(k)'
  <2>1. Cardinality(Young(Recent(k, now), now)) <= Len(Recent(k, now))
        /\ Cardinality(Young(Recent(k, now), now)) \in Nat
    BY <1>3, YoungIsFinite
  <2> QED
    BY <1>2, <1>3, <2>1 DEF KeyInv, Ceiling, k
<1>9. Ration(k)'
  BY <1>1, <1>2, <1>3, <1>4, PrunedHolds DEF KeyInv, Ration, k
<1>10. RetryAfter(k, now) \in Nat \ {0}
  <2>1. CASE use = "ladder"
    <3>1. Recent(k, now) # <<>> \/ inFlight[k] # <<>>
      BY <1>2, <1>3 DEF Open
    <3> QED
      BY <1>1, <2>1, <3>1, QuotedIsEnough
  <2>2. CASE use # "ladder"
    <3>1. CASE OldestSlots(k, now) = {}
      BY <3>1 DEF RetryAfter
    <3>2. CASE OldestSlots(k, now) # {}
      <4>1. OldestSlots(k, now) = {Recent(k, now)[1]} /\ Recent(k, now) # <<>>
        BY <2>2, <3>2 DEF OldestSlots
      <4>2. Recent(k, now)[1] \in Nat
        BY <1>3, <4>1, DatesAreNumbers
      <4> DEFINE oldest == CHOOSE x \in OldestSlots(k, now) : \A y \in OldestSlots(k, now) : x <= y
      <4>3. \E x \in OldestSlots(k, now) : \A y \in OldestSlots(k, now) : x <= y
        BY <4>1, <4>2
      <4>4. oldest \in OldestSlots(k, now)
        BY <4>3, Zenon
      <4>5. oldest \in Nat
        BY <4>1, <4>2, <4>4
      <4>6. RetryAfter(k, now) = Greatest(1, Window - (now - oldest))
        BY <3>2 DEF RetryAfter
      <4> HIDE DEF oldest
      <4> QED
        BY <1>3, <4>5, <4>6, LimiterAssumption DEF Greatest
    <3> QED
      BY <3>1, <3>2
  <2> QED
    BY <2>1, <2>2
<1>11. when \in Nat /\ when >= now
  BY <1>0, <1>3, <1>10
<1>12. promise'[k] \in Nat /\ (promise'[k] = when \/ (promise[k] # 0 /\ promise'[k] = promise[k]))
  BY <1>2, <1>3, <1>11 DEF Least
<1>13. Quote(k)'
  <2> SUFFICES ASSUME use = "ladder"
               PROVE  Cardinality(Young(Recent(k, now), promise'[k]))
                        + Cardinality(Young(inFlight[k], promise'[k])) < MaxFailures
    BY <1>2 DEF Quote
  <2>1. promise[k] \in Int /\ when \in Int
    BY <1>3, <1>11
  <2>2. CASE promise[k] # 0 /\ promise'[k] = promise[k]
    <3>1. /\ Cardinality(Young(Recent(k, now), promise[k])) <= Cardinality(Young(failures[k], promise[k]))
          /\ Cardinality(Young(Recent(k, now), promise[k])) \in Nat
          /\ Cardinality(Young(failures[k], promise[k])) \in Nat
          /\ Cardinality(Young(inFlight[k], promise[k])) \in Nat
      BY <1>1, <1>3, <2>1, RecentKeepsFewer, YoungIsFinite
    <3>2. Cardinality(Young(failures[k], promise[k])) + Cardinality(Young(inFlight[k], promise[k]))
            < MaxFailures
      BY <2>2 DEF KeyInv, Quote, k
    <3> QED
      BY <1>3, <2>2, <3>1, <3>2
  <2>3. CASE promise'[k] = when
    <3>1. Recent(k, now) # <<>> \/ inFlight[k] # <<>>
      BY <1>2, <1>3 DEF Open
    <3>2. \/ Recent(k, now) # <<>> /\ when - Recent(k, now)[1] >= Window
          \/ inFlight[k] # <<>> /\ when - inFlight[k][1] >= Window
      <4>1. \/ /\ Recent(k, now) # <<>>
               /\ (now + RetryAfter(k, now)) - Recent(k, now)[1] >= Window
            \/ /\ inFlight[k] # <<>>
               /\ (now + RetryAfter(k, now)) - inFlight[k][1] >= Window
        BY <1>1, <3>1, QuotedIsEnough
      <4> QED
        BY <1>0, <4>1
    <3>3. /\ Cardinality(Young(Recent(k, now), when)) <= Len(Recent(k, now))
          /\ Cardinality(Young(Recent(k, now), when)) \in Nat
          /\ Cardinality(Young(inFlight[k], when)) <= Len(inFlight[k])
          /\ Cardinality(Young(inFlight[k], when)) \in Nat
      BY <1>3, <2>1, YoungIsFinite
    <3>4. Len(Recent(k, now)) + Len(inFlight[k]) <= MaxFailures
      BY <1>3 DEF KeyInv, Ceiling, k
    <3>5. CASE Recent(k, now) # <<>> /\ when - Recent(k, now)[1] >= Window
      <4>1. 1 \in 1..Len(Recent(k, now))
        BY <1>3, <3>5
      <4>2. Cardinality(Young(Recent(k, now), when)) < Len(Recent(k, now))
        BY <1>3, <2>1, <3>5, <4>1, NotAllYoung
      <4> QED
        BY <1>3, <2>3, <3>3, <3>4, <4>2
    <3>6. CASE inFlight[k] # <<>> /\ when - inFlight[k][1] >= Window
      <4>1. 1 \in 1..Len(inFlight[k])
        BY <1>3, <3>6
      <4>2. Cardinality(Young(inFlight[k], when)) < Len(inFlight[k])
        BY <1>3, <2>1, <3>6, <4>1, NotAllYoung
      <4> QED
        BY <1>3, <2>3, <3>3, <3>4, <4>2
    <3> QED
      BY <3>2, <3>5, <3>6
  <2> QED
    BY <1>12, <2>2, <2>3
<1> QED
  BY <1>5, <1>6, <1>7, <1>8, <1>9, <1>12, <1>13 DEF KeyInv, k

(* What record() leaves: the key's own entries and one more, the sweep's    *)
(* threshold, and on every other key its entries, or none.                  *)
LEMMA RecordLeaves ==
  ASSUME TypeOK, NEW k \in Keys, NEW at \in Times, at <= now, Record(k, at)
  PROVE  /\ failures'[k] = Append(Recent(k, at), at)
         /\ failures' \in [Keys -> Seq(Times)] /\ sweepAbove' \in Nat
         /\ lost' \subseteq Keys /\ lost \subseteq lost'
         /\ k \in lost' => k \in lost
         /\ \A j \in Keys : j # k =>
              \/ failures'[j] = failures[j]
              \/ failures'[j] = <<>> /\ (j \in lost' \/ Young(failures[j], now) = {})
<1> DEFINE hits   == Recent(k, at)
           pruned == [failures EXCEPT ![k] = hits]
           swept  == IF hits = <<>> THEN Sweep(pruned, at) ELSE pruned
<1>1. /\ failures \in [Keys -> Seq(Times)] /\ now \in Int /\ at \in Int /\ now \in Nat /\ at \in Nat
      /\ sweepAbove \in Nat /\ lost \subseteq Keys
  BY DEF TypeOK, Times
<1>2. /\ failures' = [swept EXCEPT ![k] = Append(hits, at)]
      /\ sweepAbove' = (IF hits = <<>> /\ Cardinality(Held(pruned)) >= sweepAbove
                        THEN Greatest(SweepFloor, 2 * Cardinality(Held(swept)))
                        ELSE sweepAbove)
      /\ lost' = lost \cup {j \in Keys : swept[j] = <<>> /\ Young(failures[j], now) # {}}
  BY DEF Record
<1>3. hits \in Seq(Times) /\ Append(hits, at) \in Seq(Times)
      /\ Len(hits) = Cardinality(Young(failures[k], at))
  BY <1>1, RecentIsYoung
<1>4. pruned \in [Keys -> Seq(Times)] /\ \A j \in Keys : j # k => pruned[j] = failures[j]
  BY <1>1, <1>3
<1>5. pruned[k] = hits
  BY <1>1
<1> HIDE DEF hits, pruned
<1>6. /\ swept \in [Keys -> Seq(Times)]
      /\ \A j \in Keys : swept[j] = pruned[j] \/ swept[j] = <<>>
      /\ hits # <<>> => swept = pruned
  BY <1>4 DEF Sweep
<1> HIDE DEF swept
<1>7. failures' \in [Keys -> Seq(Times)] /\ failures'[k] = Append(hits, at)
      /\ \A j \in Keys : j # k => failures'[j] = swept[j]
  BY <1>2, <1>3, <1>6
<1>8. sweepAbove' \in Nat
  <2>1. Held(swept) \in SUBSET Keys
    BY DEF Held
  <2>2. Cardinality(Held(swept)) \in Nat
    BY <2>1, LimiterAssumption, FS_Subset, FS_CardinalityType
  <2> QED
    BY <1>1, <1>2, <2>2, LimiterAssumption DEF Greatest
<1>9. k \in lost' => k \in lost
  <2> SUFFICES ASSUME swept[k] = <<>> PROVE Young(failures[k], now) = {}
    BY <1>2
  <2>1. hits = <<>>
    BY <1>5, <1>6
  <2>2. failures[k] \in Seq(Times)
    BY <1>1
  <2>3. Cardinality(Young(failures[k], now)) <= Cardinality(Young(failures[k], at))
    BY <1>1, <2>2, YoungShrinks
  <2>4. Cardinality(Young(failures[k], at)) = 0
    BY <1>3, <2>1
  <2>5. IsFiniteSet(Young(failures[k], now)) /\ Cardinality(Young(failures[k], now)) \in Nat
    BY <1>1, <2>2, YoungIsFinite
  <2> QED
    BY <2>3, <2>4, <2>5, FS_EmptySet
<1>10. ASSUME NEW j \in Keys, j # k
       PROVE  \/ failures'[j] = failures[j]
              \/ failures'[j] = <<>> /\ (j \in lost' \/ Young(failures[j], now) = {})
  <2>1. failures'[j] = swept[j] /\ pruned[j] = failures[j]
    BY <1>4, <1>7, <1>10
  <2> QED
    BY <1>2, <1>6, <2>1
<1> QED
  BY <1>1, <1>2, <1>7, <1>8, <1>9, <1>10 DEF hits

(* A slot given back, on the key of the attempt that held it.               *)
LEMMA SlotGivenBack ==
  ASSUME TypeOK, NEW a \in Attempts, phase[a] = "running", KeyInv(KeyOf[a])
  PROVE  LET k == KeyOf[a]
             s == RemoveOne(inFlight[k], start[a])
         IN  /\ Paired(Running(k) \ {a}, s, start) /\ Ascending(s) /\ s \in Seq(Times)
             /\ Len(s) = Len(inFlight[k]) - 1
             /\ \A t \in Int : Cardinality(Young(s, t)) =
                  Cardinality(Young(inFlight[k], t)) - (IF t - start[a] < Window THEN 1 ELSE 0)
<1> DEFINE k == KeyOf[a]
           q == inFlight[k]
           s == RemoveOne(q, start[a])
<1>1. k \in Keys /\ a \in Running(k) /\ start[a] \in Times /\ q \in Seq(Times)
  BY LimiterAssumption DEF TypeOK, Running, On
<1>2. Paired(Running(k), q, start) /\ Ascending(q)
  BY DEF KeyInv, Slots
<1> HIDE DEF q, k
<1>3. Paired(Running(k) \ {a}, s, start)
  BY <1>1, <1>2, PairedRemoved
<1>4. PICK p \in 1..Len(q) : q[p] = start[a]
  BY <1>1, <1>2 DEF Paired, Stands
<1>5. PICK i \in 1..Len(q) : q[i] = start[a] /\ s = Filtered(q, (1..Len(q)) \ {i})
  BY <1>1, <1>4, RemovedIsOne
<1>6. Ascending(s)
  <2>1. (1..Len(q)) \ {i} \in SUBSET (1..Len(q))
    OBVIOUS
  <2> QED
    BY <1>1, <1>2, <1>5, <2>1, FilteredAscends
<1>7. 0 \in Int
  OBVIOUS
<1>8. s \in Seq(Times) /\ Len(s) = Len(q) - 1
  BY <1>1, <1>4, <1>7, RemovedIsFewer
<1>9. \A t \in Int : Cardinality(Young(s, t)) =
        Cardinality(Young(q, t)) - (IF t - start[a] < Window THEN 1 ELSE 0)
  BY <1>1, <1>4, RemovedIsFewer
<1> QED
  BY <1>3, <1>6, <1>8, <1>9 DEF k, q, s

(* An entry recorded after those still in the window.                       *)
LEMMA EntryRecorded ==
  ASSUME TypeOK, NEW k \in Keys, KeyInv(k), NEW at \in Times, at <= now
  PROVE  LET r == Append(Recent(k, at), at)
         IN  /\ r \in Seq(Times) /\ Len(r) = Len(Recent(k, at)) + 1
             /\ \A i \in 1..Len(r) : r[i] <= now
             /\ \A t \in Int : Cardinality(Young(r, t)) <=
                  Cardinality(Young(failures[k], t)) + (IF t - at < Window THEN 1 ELSE 0)
             /\ \A t \in Int : Cardinality(Young(r, t)) \in Nat
<1> DEFINE h == Recent(k, at)
           r == Append(h, at)
<1>1. /\ failures[k] \in Seq(Times) /\ now \in Nat /\ at \in Nat /\ at \in Int /\ Window \in Nat
  BY KeysTyped DEF Times
<1>2. h \in Seq(Times)
  BY <1>1, RecentIsYoung
<1>3. \A t \in Int : /\ Cardinality(Young(h, t)) <= Cardinality(Young(failures[k], t))
                     /\ Cardinality(Young(h, t)) \in Nat /\ Cardinality(Young(failures[k], t)) \in Nat
  BY <1>1, <1>2, RecentKeepsFewer, YoungIsFinite
<1>4. \A i \in 1..Len(h) : h[i] <= now
  BY <1>1, PrunedHolds
<1> HIDE DEF h
<1>5. /\ r \in Seq(Times) /\ Len(r) = Len(h) + 1 /\ r[Len(h) + 1] = at
      /\ \A i \in 1..Len(h) : r[i] = h[i]
  BY <1>1, <1>2, YoungAppended
<1>6. ASSUME NEW t \in Int
      PROVE  /\ Cardinality(Young(r, t)) = Cardinality(Young(h, t)) + (IF t - at < Window THEN 1 ELSE 0)
             /\ Cardinality(Young(r, t)) \in Nat
  BY <1>2, <1>5, YoungAppended, YoungIsFinite
<1>7. \A i \in 1..Len(r) : r[i] <= now
  <2> SUFFICES ASSUME NEW i \in 1..Len(r) PROVE r[i] <= now
    OBVIOUS
  <2>1. i \in 1..Len(h) \/ i = Len(h) + 1
    BY <1>2, <1>5, LenProperties
  <2> QED
    BY <1>4, <1>5, <2>1
<1>8. ASSUME NEW t \in Int
      PROVE  Cardinality(Young(r, t)) <=
               Cardinality(Young(failures[k], t)) + (IF t - at < Window THEN 1 ELSE 0)
  <2>1. CASE t - at < Window
    BY <1>3, <1>6, <2>1
  <2>2. CASE ~(t - at < Window)
    BY <1>3, <1>6, <2>2
  <2> QED
    BY <2>1, <2>2
<1> QED
  BY <1>5, <1>6, <1>7, <1>8 DEF h, r

LEMMA ChargeKeeps ==
  ASSUME TypeOK, NEW a \in Attempts, Charge(a), KeyInv(KeyOf[a])
  PROVE  KeyInv(KeyOf[a])'
<1> DEFINE k == KeyOf[a]
           at == start[a]
           r == Append(Recent(k, at), at)
           s == RemoveOne(inFlight[k], at)
<1>1. /\ k \in Keys /\ a \in On(k) /\ a \in Running(k) /\ at \in Times /\ at <= now
  BY LimiterAssumption DEF Charge, TypeOK, On, Running, KeyInv, Past
<1>2. /\ phase[a] = "running" /\ inFlight'[k] = s
      /\ Record(k, at)
      /\ phase' = [phase EXCEPT ![a] = "charged"]
      /\ use' = use /\ now' = now /\ start' = start /\ promise' = promise
  BY <1>1 DEF Charge, TypeOK
<1>3. failures'[k] = r /\ (k \notin lost' => k \notin lost)
  BY <1>1, <1>2, RecordLeaves
<1>4. /\ failures[k] \in Seq(Times) /\ inFlight[k] \in Seq(Times) /\ now \in Nat /\ now \in Int
      /\ promise[k] \in Nat /\ promise[k] \in Int /\ MaxFailures \in Nat /\ at \in Nat
  BY <1>1, KeysTyped DEF Times
<1>5. /\ Paired(Running(k) \ {a}, s, start) /\ Ascending(s) /\ s \in Seq(Times)
      /\ Len(s) = Len(inFlight[k]) - 1
      /\ \A t \in Int : Cardinality(Young(s, t)) =
           Cardinality(Young(inFlight[k], t)) - (IF t - at < Window THEN 1 ELSE 0)
  BY <1>2, SlotGivenBack
<1>6. /\ r \in Seq(Times) /\ \A i \in 1..Len(r) : r[i] <= now
      /\ \A t \in Int : Cardinality(Young(r, t)) <=
           Cardinality(Young(failures[k], t)) + (IF t - at < Window THEN 1 ELSE 0)
      /\ \A t \in Int : Cardinality(Young(r, t)) \in Nat
  BY <1>1, EntryRecorded
<1>7. KeyInv(k)
  OBVIOUS
<1>8. k \notin lost' => Matched(Recorded(k) \cup {a}, r, start)
  <2> SUFFICES ASSUME k \notin lost' PROVE Matched(Recorded(k) \cup {a}, r, start)
    OBVIOUS
  <2>1. Matched(Recorded(k), Recent(k, at), start) /\ Recent(k, at) \in Seq(Times)
    BY <1>1, <1>3, <1>4, <1>7, PrunedHolds, RecentIsYoung
  <2>2. a \notin Recorded(k) /\ start[a] = at
    BY <1>2 DEF Recorded
  <2> HIDE DEF k, at
  <2> QED
    BY <1>1, <2>1, <2>2, MatchedAppended DEF r
<1> HIDE DEF k, r, s
<1>9. /\ Running(k)' = Running(k) \ {a}
      /\ Recorded(k)' \subseteq Recorded(k) \cup {a}
      /\ Alive(k)' = Alive(k)
  BY <1>1, <1>2 DEF Running, Recorded, Alive, Counted, On, TypeOK
<1>10. Slots(k)'
  BY <1>2, <1>5, <1>9 DEF Slots
<1>11. Entries(k)'
  BY <1>2, <1>3, <1>8, <1>9, MatchedLess DEF Entries
<1>12. Past(k)'
  BY <1>2, <1>3, <1>6, <1>7 DEF KeyInv, Past, On
<1>13. /\ Cardinality(Young(failures[k], now)) \in Nat /\ Len(inFlight[k]) \in Nat
       /\ Cardinality(Young(failures[k], promise[k])) \in Nat
       /\ Cardinality(Young(inFlight[k], promise[k])) \in Nat
       /\ Cardinality(Young(r, now)) \in Nat /\ Cardinality(Young(r, promise[k])) \in Nat
  BY <1>4, <1>6, YoungIsFinite
<1>14. Ceiling(k)'
  <2>1. Cardinality(Young(r, now)) <= Cardinality(Young(failures[k], now)) + 1
    <3>1. Cardinality(Young(r, now)) <=
            Cardinality(Young(failures[k], now)) + (IF now - at < Window THEN 1 ELSE 0)
      BY <1>4, <1>6
    <3>2. CASE now - at < Window
      BY <3>1, <3>2
    <3>3. CASE ~(now - at < Window)
      BY <1>13, <3>1, <3>3
    <3> QED
      BY <3>2, <3>3
  <2>2. Cardinality(Young(failures[k], now)) + Len(inFlight[k]) <= MaxFailures
    BY <1>7 DEF KeyInv, Ceiling
  <2>3. Cardinality(Young(r, now)) + Len(s) <= MaxFailures
    BY <1>4, <1>5, <1>13, <2>1, <2>2
  <2> QED
    BY <1>2, <1>3, <2>3 DEF Ceiling
<1>15. Ration(k)'
  BY <1>1, <1>2, <1>7 DEF KeyInv, Ration
<1>16. Quote(k)'
  <2> SUFFICES ASSUME use = "ladder", promise[k] # 0
               PROVE  Cardinality(Young(r, promise[k])) + Cardinality(Young(s, promise[k])) < MaxFailures
    BY <1>2, <1>3 DEF Quote
  <2>1. Cardinality(Young(failures[k], promise[k])) + Cardinality(Young(inFlight[k], promise[k]))
          < MaxFailures
    BY <1>7 DEF KeyInv, Quote
  <2>2. /\ Cardinality(Young(r, promise[k])) <=
             Cardinality(Young(failures[k], promise[k])) + (IF promise[k] - at < Window THEN 1 ELSE 0)
        /\ Cardinality(Young(s, promise[k])) =
             Cardinality(Young(inFlight[k], promise[k])) - (IF promise[k] - at < Window THEN 1 ELSE 0)
    BY <1>4, <1>5, <1>6
  <2>3. CASE promise[k] - at < Window
    BY <1>4, <1>13, <2>1, <2>2, <2>3
  <2>4. CASE ~(promise[k] - at < Window)
    BY <1>4, <1>13, <2>1, <2>2, <2>4
  <2> QED
    BY <2>3, <2>4
<1>17. Budget(k)'
  BY <1>3, <1>7, <1>9 DEF KeyInv, Budget
<1> QED
  BY <1>10, <1>11, <1>12, <1>14, <1>15, <1>16, <1>17 DEF KeyInv, k

(* A slot given back with nothing recorded, and perhaps all forgotten.      *)
LEMMA GivenBackKeeps ==
  ASSUME TypeOK, NEW a \in Attempts, phase[a] = "running", KeyInv(KeyOf[a]),
         inFlight'[KeyOf[a]] = RemoveOne(inFlight[KeyOf[a]], start[a]),
         use' = use, now' = now, start' = start, promise' = promise, lost' = lost,
         \/ failures'[KeyOf[a]] = failures[KeyOf[a]]
         \/ failures'[KeyOf[a]] = <<>> /\ Recorded(KeyOf[a])' = {},
         phase'[a] = "released",
         \A b \in On(KeyOf[a]) :
           b # a => phase'[b] = phase[b] \/ (phase[b] \in {"charged", "over"} /\ phase'[b] = "forgiven")
  PROVE  KeyInv(KeyOf[a])'
<1> DEFINE k == KeyOf[a]
           s == RemoveOne(inFlight[k], start[a])
<1>1. k \in Keys /\ a \in On(k)
  BY LimiterAssumption DEF On
<1>2. /\ failures[k] \in Seq(Times) /\ inFlight[k] \in Seq(Times) /\ now \in Int
      /\ promise[k] \in Int /\ MaxFailures \in Nat
  BY <1>1, KeysTyped
<1>3. /\ Paired(Running(k) \ {a}, s, start) /\ Ascending(s) /\ s \in Seq(Times)
      /\ Len(s) = Len(inFlight[k]) - 1
      /\ \A t \in Int : Cardinality(Young(s, t)) =
           Cardinality(Young(inFlight[k], t)) - (IF t - start[a] < Window THEN 1 ELSE 0)
  BY SlotGivenBack
<1>4. /\ KeyInv(k) /\ inFlight'[k] = s
      /\ \/ failures'[k] = failures[k]
         \/ failures'[k] = <<>> /\ Recorded(k)' = {}
      /\ \A b \in On(k) :
           b # a => phase'[b] = phase[b] \/ (phase[b] \in {"charged", "over"} /\ phase'[b] = "forgiven")
  OBVIOUS
<1>5. start[a] \in Nat
  BY <1>1, KeysTyped
<1> HIDE DEF k, s
<1>6. /\ Running(k)' = Running(k) \ {a}
      /\ Recorded(k)' \subseteq Recorded(k)
      /\ Alive(k)' \subseteq Alive(k)
  BY <1>1, <1>4 DEF Running, Recorded, Alive, Counted, On
<1>7. Slots(k)'
  BY <1>3, <1>4, <1>6 DEF Slots
<1>8. Entries(k)'
  <2>1. CASE failures'[k] = failures[k]
    BY <1>4, <1>6, <2>1, MatchedLess DEF KeyInv, Entries
  <2>2. CASE Recorded(k)' = {}
    BY <2>2, NobodyMatched DEF Entries
  <2> QED
    BY <1>4, <2>1, <2>2
<1>9. Past(k)'
  BY <1>4 DEF KeyInv, Past, On
<1>10. \A t \in Int : /\ Cardinality(Young(failures'[k], t)) <= Cardinality(Young(failures[k], t))
                      /\ Cardinality(Young(failures'[k], t)) \in Nat
                      /\ Cardinality(Young(failures[k], t)) \in Nat
  BY <1>2, <1>4, YoungIsFinite, NothingYoung
<1>11. \A t \in Int : /\ Cardinality(Young(s, t)) <= Cardinality(Young(inFlight[k], t))
                      /\ Cardinality(Young(s, t)) \in Nat
                      /\ Cardinality(Young(inFlight[k], t)) \in Nat
  <2> SUFFICES ASSUME NEW t \in Int
               PROVE  /\ Cardinality(Young(s, t)) <= Cardinality(Young(inFlight[k], t))
                      /\ Cardinality(Young(s, t)) \in Nat
                      /\ Cardinality(Young(inFlight[k], t)) \in Nat
    OBVIOUS
  <2>1. Cardinality(Young(s, t)) \in Nat /\ Cardinality(Young(inFlight[k], t)) \in Nat
    BY <1>2, <1>3, YoungIsFinite
  <2>2. CASE t - start[a] < Window
    BY <1>3, <2>1, <2>2
  <2>3. CASE ~(t - start[a] < Window)
    BY <1>3, <2>1, <2>3
  <2> QED
    BY <2>1, <2>2, <2>3
<1>12. Ceiling(k)'
  <2>1. Len(inFlight[k]) \in Nat
    BY <1>2, LenProperties
  <2>2. Cardinality(Young(failures[k], now)) + Len(inFlight[k]) <= MaxFailures
    BY <1>4 DEF KeyInv, Ceiling
  <2>3. /\ Cardinality(Young(failures'[k], now)) <= Cardinality(Young(failures[k], now))
        /\ Cardinality(Young(failures'[k], now)) \in Nat
        /\ Cardinality(Young(failures[k], now)) \in Nat
    BY <1>2, <1>10
  <2>4. Cardinality(Young(failures'[k], now)) + Len(s) <= MaxFailures
    BY <1>2, <1>3, <2>1, <2>2, <2>3
  <2> QED
    BY <1>4, <2>4 DEF Ceiling
<1>13. Ration(k)'
  BY <1>4, <1>6, NothingYoung DEF KeyInv, Ration
<1>14. Quote(k)'
  <2> SUFFICES ASSUME use = "ladder", promise[k] # 0
               PROVE  Cardinality(Young(failures'[k], promise[k])) + Cardinality(Young(s, promise[k]))
                        < MaxFailures
    BY <1>4 DEF Quote
  <2>1. Cardinality(Young(failures[k], promise[k])) + Cardinality(Young(inFlight[k], promise[k]))
          < MaxFailures
    BY <1>4 DEF KeyInv, Quote
  <2> QED
    BY <1>2, <1>10, <1>11, <2>1
<1>15. Budget(k)'
  <2>1. IsFiniteSet(Alive(k)) /\ Cardinality(Alive(k)) \in Nat
    BY AliveIsFinite DEF Alive, Counted, On
  <2>2. IsFiniteSet(Alive(k)') /\ Cardinality(Alive(k)') <= Cardinality(Alive(k))
    BY <1>6, <2>1, FS_Subset
  <2>3. Cardinality(Alive(k)') \in Nat
    BY <2>2, FS_CardinalityType
  <2> QED
    BY <1>2, <1>4, <2>1, <2>2, <2>3 DEF KeyInv, Budget
<1> QED
  BY <1>7, <1>8, <1>9, <1>12, <1>13, <1>14, <1>15 DEF KeyInv, k

LEMMA ReleaseKeeps ==
  ASSUME TypeOK, NEW a \in Attempts, Release(a), KeyInv(KeyOf[a])
  PROVE  KeyInv(KeyOf[a])'
<1>1. KeyOf[a] \in Keys
  BY LimiterAssumption
<1>2. /\ phase[a] = "running" /\ inFlight'[KeyOf[a]] = RemoveOne(inFlight[KeyOf[a]], start[a])
      /\ use' = use /\ now' = now /\ start' = start /\ promise' = promise /\ lost' = lost
      /\ failures' = failures /\ phase'[a] = "released"
      /\ \A b \in On(KeyOf[a]) : b # a => phase'[b] = phase[b]
  BY <1>1 DEF Release, TypeOK, On
<1> QED
  BY <1>2, GivenBackKeeps

LEMMA ResetKeeps ==
  ASSUME TypeOK, NEW a \in Attempts, Reset(a), KeyInv(KeyOf[a])
  PROVE  KeyInv(KeyOf[a])'
<1>1. KeyOf[a] \in Keys
  BY LimiterAssumption
<1>2. /\ phase[a] = "running" /\ inFlight'[KeyOf[a]] = RemoveOne(inFlight[KeyOf[a]], start[a])
      /\ use' = use /\ now' = now /\ start' = start /\ promise' = promise /\ lost' = lost
      /\ failures'[KeyOf[a]] = <<>>
      /\ \A b \in Attempts :
           phase'[b] = IF b = a THEN "released"
                       ELSE IF b \in On(KeyOf[a]) /\ phase[b] \in {"charged", "over"} THEN "forgiven"
                       ELSE phase[b]
  BY <1>1 DEF Reset, TypeOK
<1>3. /\ phase'[a] = "released"
      /\ \A b \in On(KeyOf[a]) :
           b # a => phase'[b] = phase[b] \/ (phase[b] \in {"charged", "over"} /\ phase'[b] = "forgiven")
      /\ \A b \in On(KeyOf[a]) : phase'[b] \notin {"charged", "over"}
  BY <1>2 DEF On
<1>4. Recorded(KeyOf[a])' = {}
  BY <1>3 DEF Recorded, On
<1> QED
  BY <1>2, <1>3, <1>4, GivenBackKeeps

LEMMA ReleaseChargedKeeps ==
  ASSUME TypeOK, NEW a \in Attempts, ReleaseCharged(a), NEW k \in Keys, KeyInv(k)
  PROVE  KeyInv(k)'
<1>1. /\ phase[a] = "charged" /\ phase'[a] = "over"
      /\ \A b \in Attempts : b # a => phase'[b] = phase[b]
      /\ use' = use /\ now' = now /\ start' = start /\ promise' = promise /\ lost' = lost
      /\ failures' = failures /\ inFlight' = inFlight
  BY DEF ReleaseCharged, TypeOK
<1>2. Running(k)' = Running(k) /\ Recorded(k)' = Recorded(k) /\ Alive(k)' = Alive(k)
  BY <1>1 DEF Running, Recorded, Alive, Counted, On
<1> QED
  BY <1>1, <1>2 DEF KeyInv, Slots, Entries, Past, Ceiling, Ration, Quote, Budget, On

LEMMA CheckAndRecordKeeps ==
  ASSUME TypeOK, NEW a \in Attempts, CheckAndRecord(a), KeyInv(KeyOf[a])
  PROVE  KeyInv(KeyOf[a])'
<1> DEFINE k == KeyOf[a]
           h == Recent(k, now)
           r == Append(h, now)
<1>1. /\ k \in Keys /\ a \in On(k) /\ KeyInv(k)
  BY LimiterAssumption DEF On
<1>2. /\ use = "ration" /\ phase[a] = "idle" /\ Open(k, now) /\ Record(k, now)
      /\ phase'[a] = "over" /\ start'[a] = now
      /\ \A b \in Attempts : b # a => phase'[b] = phase[b] /\ start'[b] = start[b]
      /\ promise'[k] = 0 /\ use' = use /\ now' = now /\ inFlight' = inFlight
  BY <1>1 DEF CheckAndRecord, TypeOK
<1>3. /\ failures[k] \in Seq(Times) /\ inFlight[k] \in Seq(Times) /\ now \in Nat /\ now \in Int
      /\ now \in Times /\ MaxFailures \in Nat /\ Window \in Nat
  BY <1>1, KeysTyped DEF TypeOK
<1>4. failures'[k] = r /\ (k \notin lost' => k \notin lost)
  BY <1>1, <1>2, <1>3, RecordLeaves
<1>5. h \in Seq(Times) /\ r \in Seq(Times) /\ Len(r) = Len(h) + 1 /\ \A i \in 1..Len(r) : r[i] <= now
  <2>1. h \in Seq(Times)
    BY <1>1, <1>3, RecentIsYoung
  <2>2. r \in Seq(Times) /\ Len(r) = Len(h) + 1 /\ \A i \in 1..Len(r) : r[i] <= now
    <3>1. k \in Keys /\ KeyInv(k) /\ now \in Times /\ now <= now
      BY <1>1, <1>3
    <3> HIDE DEF k
    <3> QED
      BY <3>1, EntryRecorded
  <2> QED
    BY <2>1, <2>2
<1>6. /\ Ascending(failures[k]) => Ascending(h)
      /\ \A i \in 1..Len(h) : h[i] <= now
      /\ k \notin lost => Matched(Recorded(k), h, start)
  BY <1>1, <1>3, PrunedHolds
<1>7. Len(h) \in Nat /\ Len(inFlight[k]) \in Nat /\ Len(h) + Len(inFlight[k]) < MaxFailures
  BY <1>2, <1>3, <1>5, LenProperties DEF Open
<1>8. k \notin lost => /\ IsFiniteSet(Alive(k)) /\ Cardinality(Alive(k)) \in Nat
                       /\ Cardinality(Alive(k)) <= Len(h) + Len(inFlight[k])
  BY <1>1, AliveAreCounted
<1> HIDE DEF k, h, r
<1>9. /\ Running(k)' = Running(k)
      /\ Recorded(k)' = Recorded(k) \cup {a} /\ a \notin Recorded(k)
      /\ Alive(k)' = Alive(k) \cup {a} /\ a \notin Alive(k)
  BY <1>1, <1>2, <1>3, LimiterAssumption DEF Running, Recorded, Alive, Counted, On
<1>10. Running(k) = {}
  BY <1>1, <1>2 DEF KeyInv, Ration
<1>11. Slots(k)'
  <2>1. \A b \in Running(k) : start'[b] = start[b]
    BY <1>10
  <2>2. Paired(Running(k), inFlight[k], start')
    BY <1>1, <2>1, PairedChanged DEF KeyInv, Slots
  <2> QED
    BY <1>1, <1>2, <1>9, <2>2 DEF KeyInv, Slots
<1>12. Entries(k)'
  <2> SUFFICES ASSUME k \notin lost' PROVE Matched(Recorded(k) \cup {a}, r, start')
    BY <1>4, <1>9 DEF Entries
  <2>1. \A b \in Recorded(k) : start'[b] = start[b]
    BY <1>2, <1>9 DEF Recorded, On
  <2>2. Matched(Recorded(k), h, start')
    BY <1>4, <1>6, <2>1, MatchedLess
  <2>3. start'[a] = now /\ a \notin Recorded(k)
    BY <1>2, <1>9
  <2>4. Matched(Recorded(k) \cup {a}, Append(h, now), start')
    BY <1>3, <1>5, <2>2, <2>3, MatchedAppended
  <2> QED
    BY <2>4 DEF r
<1>13. Past(k)'
  <2>1. \A b \in On(k) : start'[b] <= now
    BY <1>1, <1>2, <1>3 DEF KeyInv, Past, On
  <2> QED
    BY <1>2, <1>4, <1>5, <2>1 DEF Past, On
<1>14. Ceiling(k)'
  <2>1. Cardinality(Young(r, now)) <= Len(r) /\ Cardinality(Young(r, now)) \in Nat
    BY <1>3, <1>5, YoungIsFinite
  <2> QED
    BY <1>2, <1>3, <1>4, <1>5, <1>7, <2>1 DEF Ceiling
<1>15. Ration(k)'
  <2>1. Ascending(failures[k])
    BY <1>1, <1>2 DEF KeyInv, Ration
  <2>2. Ascending(r)
    BY <1>3, <1>5, <1>6, <2>1, AppendedAscends DEF r
  <2> QED
    BY <1>4, <1>9, <1>10, <2>2 DEF Ration
<1>16. Quote(k)'
  BY <1>2 DEF Quote
<1>17. Budget(k)'
  <2> SUFFICES ASSUME k \notin lost PROVE Cardinality(Alive(k)') <= MaxFailures
    BY <1>4 DEF Budget
  <2>1. Cardinality(Alive(k) \cup {a}) = Cardinality(Alive(k)) + 1
    BY <1>8, <1>9, FS_AddElement
  <2> QED
    BY <1>3, <1>7, <1>8, <1>9, <2>1
<1> QED
  BY <1>11, <1>12, <1>13, <1>14, <1>15, <1>16, <1>17 DEF KeyInv, k

LEMMA TickKeeps ==
  ASSUME TypeOK, Tick, NEW k \in Keys, KeyInv(k)
  PROVE  KeyInv(k)'
<1>1. /\ now' = now + 1 /\ use' = use /\ phase' = phase /\ start' = start /\ failures' = failures
      /\ inFlight' = inFlight /\ promise' = promise /\ lost' = lost
  BY DEF Tick
<1>2. /\ failures[k] \in Seq(Times) /\ inFlight[k] \in Seq(Times) /\ now \in Nat
      /\ now \in Int /\ now + 1 \in Int
      /\ MaxFailures \in Nat /\ Window \in Nat /\ \A a \in On(k) : start[a] \in Nat
  BY KeysTyped
<1>3. /\ Running(k)' = Running(k)
      /\ Recorded(k)' \subseteq Recorded(k)
      /\ Alive(k)' \subseteq Alive(k)
  BY <1>1, <1>2 DEF Running, Recorded, Alive, Counted, On
<1>4. Slots(k)' /\ Ration(k)' /\ Quote(k)'
  BY <1>1, <1>3 DEF KeyInv, Slots, Ration, Quote
<1>5. Entries(k)'
  BY <1>1, <1>3, MatchedLess DEF KeyInv, Entries
<1>6. Past(k)'
  <2>1. \A i \in 1..Len(failures[k]) : failures[k][i] \in Nat
    BY <1>2, DatesAreNumbers
  <2> QED
    BY <1>1, <1>2, <2>1 DEF KeyInv, Past, On
<1>7. Ceiling(k)'
  <2>1. Cardinality(Young(failures[k], now + 1)) <= Cardinality(Young(failures[k], now))
    BY <1>2, YoungShrinks
  <2>2. /\ Cardinality(Young(failures[k], now + 1)) \in Nat
        /\ Cardinality(Young(failures[k], now)) \in Nat
    BY <1>2, YoungIsFinite
  <2>3. Len(inFlight[k]) \in Nat
    BY <1>2, LenProperties
  <2>4. Cardinality(Young(failures[k], now)) + Len(inFlight[k]) <= MaxFailures
    BY DEF KeyInv, Ceiling
  <2>5. Cardinality(Young(failures[k], now + 1)) + Len(inFlight[k]) <= MaxFailures
    BY <1>2, <2>1, <2>2, <2>3, <2>4
  <2> QED
    BY <1>1, <2>5 DEF Ceiling, Young
<1>8. Budget(k)'
  <2>1. IsFiniteSet(Alive(k)) /\ Cardinality(Alive(k)) \in Nat
    BY AliveIsFinite DEF Alive, Counted, On
  <2>2. IsFiniteSet(Alive(k)') /\ Cardinality(Alive(k)') <= Cardinality(Alive(k))
    BY <1>3, <2>1, FS_Subset
  <2>3. Cardinality(Alive(k)') \in Nat
    BY <2>2, FS_CardinalityType
  <2> QED
    BY <1>1, <1>2, <2>1, <2>2, <2>3 DEF KeyInv, Budget
<1> QED
  BY <1>4, <1>5, <1>6, <1>7, <1>8 DEF KeyInv

-----------------------------------------------------------------------------
(* The keys nobody asks about, and every step of the limiter.               *)

LEMMA OtherKeysPass ==
  ASSUME TypeOK, NEW a \in Attempts, KeyInv(KeyOf[a]),
         Begin(a) \/ Refuse(a) \/ Charge(a) \/ Release(a) \/ Reset(a) \/ CheckAndRecord(a),
         NEW j \in Keys, j # KeyOf[a]
  PROVE  Passed(j)
<1> DEFINE k == KeyOf[a]
<1>1. /\ k \in Keys /\ start[a] \in Times /\ start[a] <= now /\ now \in Times /\ now <= now
  BY LimiterAssumption DEF TypeOK, KeyInv, Past, On, Times
<1>2. \A b \in On(j) : b \in Attempts /\ b # a /\ b \notin On(k)
  BY DEF On
<1>3. /\ now' = now /\ use' = use /\ inFlight'[j] = inFlight[j] /\ promise'[j] = promise[j]
      /\ \A b \in On(j) : phase'[b] = phase[b] /\ start'[b] = start[b]
  <2>1. CASE Begin(a)
    BY <1>1, <1>2, <2>1 DEF Begin, TypeOK
  <2>2. CASE Refuse(a)
    BY <1>1, <1>2, <2>2 DEF Refuse, TypeOK
  <2>3. CASE Charge(a)
    BY <1>1, <1>2, <2>3 DEF Charge, TypeOK
  <2>4. CASE Release(a)
    BY <1>1, <1>2, <2>4 DEF Release, TypeOK
  <2>5. CASE Reset(a)
    BY <1>1, <1>2, <2>5 DEF Reset, TypeOK
  <2>6. CASE CheckAndRecord(a)
    BY <1>1, <1>2, <2>6 DEF CheckAndRecord, TypeOK
  <2> QED
    BY <2>1, <2>2, <2>3, <2>4, <2>5, <2>6
<1>4. /\ lost \subseteq lost'
      /\ \/ failures'[j] = failures[j]
         \/ failures'[j] = <<>> /\ (j \in lost' \/ Young(failures[j], now) = {})
  <2>1. CASE Begin(a)
    BY <1>1, <2>1 DEF Begin, TypeOK
  <2>2. CASE Refuse(a)
    BY <1>1, <2>2 DEF Refuse, TypeOK
  <2>3. CASE Charge(a)
    <3>1. Record(k, start[a])
      BY <2>3 DEF Charge
    <3> QED
      BY <1>1, <3>1, RecordLeaves
  <2>4. CASE Release(a)
    BY <2>4 DEF Release
  <2>5. CASE Reset(a)
    BY <1>1, <2>5 DEF Reset, TypeOK
  <2>6. CASE CheckAndRecord(a)
    <3>1. Record(k, now)
      BY <2>6 DEF CheckAndRecord
    <3> QED
      BY <1>1, <3>1, RecordLeaves
  <2> QED
    BY <2>1, <2>2, <2>3, <2>4, <2>5, <2>6
<1> QED
  BY <1>3, <1>4 DEF Passed

LEMMA AttemptKeepsTypes ==
  ASSUME TypeOK, NEW a \in Attempts, KeyInv(KeyOf[a]),
         \/ Begin(a) \/ Refuse(a) \/ Charge(a) \/ ReleaseCharged(a)
         \/ Release(a) \/ Reset(a) \/ CheckAndRecord(a)
  PROVE  TypeOK'
<1> DEFINE k == KeyOf[a]
<1>1. /\ k \in Keys /\ start[a] \in Times /\ start[a] <= now /\ now \in Times /\ now \in Int /\ now <= now
  BY LimiterAssumption DEF TypeOK, KeyInv, Past, On, Times
<1>2. /\ Recent(k, now) \in Seq(Times)
      /\ inFlight[k] \in Seq(Times)
      /\ phase[a] = "running" => RemoveOne(inFlight[k], start[a]) \in Seq(Times)
  BY <1>1, KeysTyped, RecentIsYoung, SlotGivenBack
<1> HIDE DEF k
<1>3. CASE Begin(a)
  <2>1. Append(inFlight[k], now) \in Seq(Times)
    BY <1>1, <1>2
  <2> QED
    BY <1>1, <1>2, <1>3, <2>1 DEF Begin, TypeOK, k
<1>4. CASE Refuse(a)
  <2>1. promise'[k] \in Nat
    BY <1>4, RefuseKeeps DEF k
  <2>2. promise' \in [Keys -> Nat]
    <3>1. promise \in [Keys -> Nat] /\ \E w : promise' = [promise EXCEPT ![k] = w]
      BY <1>4 DEF Refuse, TypeOK, k
    <3> QED
      BY <1>1, <2>1, <3>1
  <2> QED
    BY <1>1, <1>2, <1>4, <2>2 DEF Refuse, TypeOK, k
<1>5. CASE Charge(a)
  <2>1. phase[a] = "running" /\ Record(k, start[a])
    BY <1>5 DEF Charge, k
  <2>2. failures' \in [Keys -> Seq(Times)] /\ sweepAbove' \in Nat /\ lost' \subseteq Keys
    BY <1>1, <2>1, RecordLeaves
  <2> QED
    BY <1>1, <1>2, <1>5, <2>1, <2>2 DEF Charge, TypeOK, k
<1>6. CASE ReleaseCharged(a)
  BY <1>6 DEF ReleaseCharged, TypeOK
<1>7. CASE Release(a)
  BY <1>1, <1>2, <1>7 DEF Release, TypeOK, k
<1>8. CASE Reset(a)
  <2>1. <<>> \in Seq(Times)
    OBVIOUS
  <2>2. phase' \in [Attempts -> {"idle", "running", "charged", "over", "released", "forgiven"}]
    BY <1>8 DEF Reset, TypeOK
  <2> QED
    BY <1>1, <1>2, <1>8, <2>1, <2>2 DEF Reset, TypeOK, k
<1>9. CASE CheckAndRecord(a)
  <2>1. Record(k, now)
    BY <1>9 DEF CheckAndRecord, k
  <2>2. failures' \in [Keys -> Seq(Times)] /\ sweepAbove' \in Nat /\ lost' \subseteq Keys
    BY <1>1, <2>1, RecordLeaves
  <2> QED
    BY <1>1, <1>9, <2>2 DEF CheckAndRecord, TypeOK
<1> QED
  BY <1>3, <1>4, <1>5, <1>6, <1>7, <1>8, <1>9

LEMMA LimiterInit == Init => LimiterInv
<1> SUFFICES ASSUME Init PROVE LimiterInv
  OBVIOUS
<1>1. TypeOK
  <2>1. <<>> \in Seq(Times) /\ 0 \in Times
    BY LimiterAssumption DEF Times
  <2> QED
    BY <2>1, LimiterAssumption DEF Init, TypeOK
<1>2. ASSUME NEW k \in Keys PROVE KeyInv(k)
  <2>1. failures[k] = <<>> /\ inFlight[k] = <<>> /\ promise[k] = 0 /\ now = 0
    BY DEF Init
  <2>2. Running(k) = {} /\ Recorded(k) = {} /\ Alive(k) = {}
    BY DEF Init, Running, Recorded, Alive, Counted, On
  <2>3. Paired({}, <<>>, start)
    <3>1. Stands([a \in {} |-> 0], {}, <<>>, start)
      BY DEF Stands
    <3> QED
      BY <3>1 DEF Paired
  <2>4. Slots(k) /\ Entries(k) /\ Ration(k)
    BY <2>1, <2>2, <2>3, NothingYoung, NobodyMatched DEF Slots, Entries, Ration
  <2>5. Past(k)
    BY <2>1 DEF Init, Past, On
  <2>6. Ceiling(k) /\ Quote(k) /\ Budget(k)
    BY <2>1, <2>2, NothingYoung, FS_EmptySet, LimiterAssumption DEF Ceiling, Quote, Budget
  <2> QED
    BY <2>4, <2>5, <2>6 DEF KeyInv
<1> QED
  BY <1>1, <1>2 DEF LimiterInv

LEMMA LimiterNext == LimiterInv /\ [Next]_vars => LimiterInv'
<1> SUFFICES ASSUME LimiterInv, [Next]_vars PROVE LimiterInv'
  OBVIOUS
<1>1. TypeOK /\ \A k \in Keys : KeyInv(k)
  BY DEF LimiterInv
<1>2. ASSUME NEW a \in Attempts,
             Begin(a) \/ Refuse(a) \/ Charge(a) \/ Release(a) \/ Reset(a) \/ CheckAndRecord(a)
      PROVE  LimiterInv'
  <2>1. KeyOf[a] \in Keys /\ KeyInv(KeyOf[a])
    BY <1>1, LimiterAssumption
  <2>2. TypeOK'
    BY <1>1, <1>2, <2>1, AttemptKeepsTypes
  <2>3. KeyInv(KeyOf[a])'
    BY <1>1, <1>2, <2>1, BeginKeeps, RefuseKeeps, ChargeKeeps, ReleaseKeeps, ResetKeeps,
       CheckAndRecordKeeps
  <2>4. ASSUME NEW j \in Keys, j # KeyOf[a] PROVE KeyInv(j)'
    <3>1. Passed(j)
      BY <1>1, <1>2, <2>1, <2>4, OtherKeysPass
    <3> QED
      BY <1>1, <3>1, PassedKeeps
  <2>5. \A j \in Keys : KeyInv(j)'
    BY <2>3, <2>4
  <2> QED
    BY <2>2, <2>5 DEF LimiterInv
<1>3. ASSUME NEW a \in Attempts, ReleaseCharged(a)
      PROVE  LimiterInv'
  <2>1. KeyOf[a] \in Keys /\ KeyInv(KeyOf[a])
    BY <1>1, LimiterAssumption
  <2>2. TypeOK'
    BY <1>1, <1>3, <2>1, AttemptKeepsTypes
  <2>3. \A j \in Keys : KeyInv(j)'
    BY <1>1, <1>3, ReleaseChargedKeeps
  <2> QED
    BY <2>2, <2>3 DEF LimiterInv
<1>4. CASE Tick
  <2>1. TypeOK'
    BY <1>1, <1>4, LimiterAssumption DEF Tick, TypeOK, Times
  <2>2. \A j \in Keys : KeyInv(j)'
    BY <1>1, <1>4, TickKeeps
  <2> QED
    BY <2>1, <2>2 DEF LimiterInv
<1>5. CASE UNCHANGED vars
  <2>1. TypeOK'
    BY <1>1, <1>5 DEF vars, TypeOK
  <2>2. ASSUME NEW k \in Keys PROVE KeyInv(k)'
    <3>1. Running(k)' = Running(k) /\ Recorded(k)' = Recorded(k) /\ Alive(k)' = Alive(k)
      BY <1>5 DEF vars, Running, Recorded, Alive, Counted, On
    <3>2. KeyInv(k)
      BY <1>1
    <3> QED
      BY <1>5, <3>1, <3>2 DEF vars, KeyInv, Slots, Entries, Past, Ceiling, Ration, Quote, Budget, On
  <2> QED
    BY <2>1, <2>2 DEF LimiterInv
<1> QED
  BY <1>2, <1>3, <1>4, <1>5 DEF Next

LEMMA LimiterHolds == Spec => []LimiterInv
BY LimiterInit, LimiterNext, PTL DEF Spec

-----------------------------------------------------------------------------
(* The theorems.                                                            *)

(* Every variable of the limiter keeps its type, whatever the attempts,     *)
(* keys, window, budget and sweep floor of createRateLimiter.               *)
THEOREM LimiterTypeCorrect == Spec => []TypeOK
BY LimiterHolds, PTL DEF LimiterInv

(* begin/charge/release/reset and check/recordFailure keep the budget: in   *)
(* no interleaving have more than MaxFailures attempts on a key that        *)
(* counted, or still may, started within one window, on any key no sweep    *)
(* took a live entry of.                                                    *)
THEOREM LimiterBudget == Spec => []WindowBudget
<1>1. LimiterInv => WindowBudget
  <2> SUFFICES ASSUME LimiterInv, NEW k \in Keys \ lost
               PROVE  Cardinality({a \in Counted(k) : now - start[a] < Window}) <= MaxFailures
    BY DEF WindowBudget
  <2>1. Budget(k)
    BY DEF LimiterInv, KeyInv
  <2> QED
    BY <2>1 DEF Budget, Alive
<1> QED
  BY <1>1, LimiterHolds, PTL

(* charge() and release() give back each slot once, and begin() leaks none: *)
(* the slots held on a key are its running attempts' start times in order.  *)
THEOREM LimiterSlots == Spec => []SlotsMatchAttempts
<1>1. LimiterInv => SlotsMatchAttempts
  <2> SUFFICES ASSUME LimiterInv, NEW k \in Keys
               PROVE  /\ Len(inFlight[k]) = Cardinality(Running(k))
                      /\ \A t \in Times : Cardinality(Places(inFlight[k], t))
                                            = Cardinality(Dated(Running(k), start, t))
                      /\ \A i \in 1..(Len(inFlight[k]) - 1) : inFlight[k][i] <= inFlight[k][i + 1]
    BY DEF SlotsMatchAttempts, Running, Places, Dated
  <2>1. /\ inFlight[k] \in Seq(Times)
        /\ Paired(Running(k), inFlight[k], start) /\ Ascending(inFlight[k])
    BY DEF LimiterInv, TypeOK, KeyInv, Slots
  <2>2. /\ Len(inFlight[k]) = Cardinality(Running(k))
        /\ \A t \in Times : Cardinality(Places(inFlight[k], t)) = Cardinality(Dated(Running(k), start, t))
    <3> DEFINE s == inFlight[k]
               A == Running(k)
    <3>1. s \in Seq(Times) /\ Paired(A, s, start)
      BY <2>1
    <3> HIDE DEF s, A
    <3>2. Len(s) = Cardinality(A)
      BY <3>1, PairedCounts
    <3>3. SameDates(A, s, start)
      BY <3>1, PairedCounts
    <3> QED
      BY <3>2, <3>3 DEF s, A, SameDates
  <2>3. Len(inFlight[k]) \in Nat
    BY <2>1, LenProperties
  <2>4. ASSUME NEW i \in 1..(Len(inFlight[k]) - 1)
        PROVE  inFlight[k][i] <= inFlight[k][i + 1]
    <3>1. i \in 1..Len(inFlight[k]) /\ i + 1 \in 1..Len(inFlight[k]) /\ i <= i + 1
      BY <2>3
    <3> QED
      BY <2>1, <3>1 DEF Ascending
  <2> QED
    BY <2>2, <2>4
<1> QED
  BY <1>1, LimiterHolds, PTL

(* retryAfterSec is kept: on the ladder, a caller who comes back at the     *)
(* moment decide() quoted finds the budget open, unless a slot was taken    *)
(* since or an attempt has outlived the window.                             *)
THEOREM LimiterQuotes == Spec => []QuoteIsKept
<1>1. LimiterInv => QuoteIsKept
  <2> SUFFICES ASSUME LimiterInv, use = "ladder", NEW k \in Keys,
                      promise[k] # 0, promise[k] <= now,
                      \A a \in On(k) : phase[a] = "running" => now - start[a] < Window
               PROVE  Open(k, now)
    BY DEF QuoteIsKept
  <2>1. TypeOK /\ KeyInv(k)
    BY DEF LimiterInv
  <2>2. /\ failures[k] \in Seq(Times) /\ inFlight[k] \in Seq(Times) /\ MaxFailures \in Nat
        /\ now \in Int /\ promise[k] \in Int
    BY <2>1, KeysTyped
  <2>3. Cardinality(Young(failures[k], promise[k])) + Cardinality(Young(inFlight[k], promise[k]))
          < MaxFailures
    BY <2>1 DEF KeyInv, Quote
  <2>4. /\ Cardinality(Young(failures[k], now)) <= Cardinality(Young(failures[k], promise[k]))
        /\ Cardinality(Young(inFlight[k], now)) <= Cardinality(Young(inFlight[k], promise[k]))
    BY <2>2, YoungShrinks
  <2>5. /\ Cardinality(Young(failures[k], now)) \in Nat
        /\ Cardinality(Young(failures[k], promise[k])) \in Nat
        /\ Cardinality(Young(inFlight[k], now)) \in Nat
        /\ Cardinality(Young(inFlight[k], promise[k])) \in Nat /\ Len(inFlight[k]) \in Nat
    BY <2>2, YoungIsFinite
  <2>6. Cardinality(Young(inFlight[k], now)) = Len(inFlight[k])
    <3>1. \A i \in 1..Len(inFlight[k]) : now - inFlight[k][i] < Window
      BY <2>1, HeldIsPast DEF Running
    <3>2. Young(inFlight[k], now) = 1..Len(inFlight[k])
      BY <3>1 DEF Young
    <3> QED
      BY <2>5, <3>2, CountTo
  <2>7. Len(Recent(k, now)) = Cardinality(Young(failures[k], now))
    BY <2>1, <2>2, RecentIsYoung
  <2> QED
    BY <2>2, <2>3, <2>4, <2>5, <2>6, <2>7 DEF Open
<1> QED
  BY <1>1, LimiterHolds, PTL

(* Where the last entry of a key is its newest, sweep() takes no live one.  *)
LEMMA SweepSparesAscending ==
  ASSUME TypeOK, NEW k \in Keys, Record(k, now), NEW j \in Keys, j # k, Ascending(failures[j]),
         NEW i \in 1..Len(failures[j]), now - failures[j][i] < Window
  PROVE  failures'[j] = failures[j]
<1> DEFINE hits   == Recent(k, now)
           pruned == [failures EXCEPT ![k] = hits]
           swept  == IF hits = <<>> THEN Sweep(pruned, now) ELSE pruned
<1>1. failures \in [Keys -> Seq(Times)] /\ now \in Nat /\ Window \in Nat
  BY LimiterAssumption DEF TypeOK, Times
<1>2. failures' = [swept EXCEPT ![k] = Append(hits, now)]
  BY DEF Record
<1> HIDE DEF hits
<1>3. pruned[j] = failures[j]
  BY <1>1
<1>4. ~(now - failures[j][Len(failures[j])] >= Window)
  <2> DEFINE s == failures[j]
  <2>1. s \in Seq(Times)
    BY <1>1
  <2>2. Len(s) \in 1..Len(s) /\ i <= Len(s)
    BY <2>1, LenProperties
  <2>3. s[i] <= s[Len(s)] /\ s[i] \in Nat /\ s[Len(s)] \in Nat
    BY <2>1, <2>2, DatesAreNumbers DEF Ascending
  <2> HIDE DEF s
  <2>4. now - s[i] < Window
    BY DEF s
  <2> QED
    BY <1>1, <2>3, <2>4 DEF s
<1> HIDE DEF pruned
<1>5. swept[j] = failures[j]
  BY <1>3, <1>4 DEF Sweep
<1>6. \E D : swept \in [Keys -> D]
  <2>1. pruned \in [Keys -> {pruned[h] : h \in Keys} \cup {<<>>}]
    BY <1>1 DEF pruned
  <2>2. swept \in [Keys -> {pruned[h] : h \in Keys} \cup {<<>>}]
    BY <2>1 DEF Sweep
  <2> QED
    BY <2>2
<1> HIDE DEF swept
<1> QED
  BY <1>2, <1>5, <1>6

(* "The sweep took nothing live with it", of callsign lookups and calendar  *)
(* feeds, which check and record in one breath: no step of theirs, and no   *)
(* sweep, drops an entry that is still in its window.                       *)
THEOREM LimiterRation == Spec => RationSweepSparesLive
<1>1. LimiterInv /\ [Next]_vars => [use = "ration" => LiveKept]_vars
  <2> SUFFICES ASSUME LimiterInv, [Next]_vars, use = "ration", NEW k \in Keys,
                      NEW i \in 1..Len(failures[k]), now - failures[k][i] < Window
               PROVE  \E j \in 1..Len(failures'[k]) : failures'[k][j] = failures[k][i]
    BY DEF LiveKept
  <2>1. TypeOK /\ KeyInv(k) /\ Ascending(failures[k])
    BY DEF LimiterInv, KeyInv, Ration
  <2>2. /\ failures[k] \in Seq(Times) /\ now \in Nat /\ now \in Int /\ now \in Times /\ now <= now
        /\ i \in Young(failures[k], now)
    BY <2>1, KeysTyped DEF TypeOK, Young
  <2>3. PICK h \in 1..Len(Recent(k, now)) : Recent(k, now)[h] = failures[k][i]
    BY <2>1, <2>2, PrunedHolds
  <2>4. \A a \in Attempts : phase[a] # "running"
    BY LimiterAssumption DEF LimiterInv, KeyInv, Ration, Running, On
  <2>5. CASE failures' = failures
    BY <2>5
  <2>6. ASSUME NEW a \in Attempts, Refuse(a)
        PROVE  failures'[k] = Recent(k, now) \/ failures'[k] = failures[k]
    BY <2>1, <2>6, LimiterAssumption DEF Refuse, TypeOK
  <2>7. ASSUME NEW a \in Attempts, CheckAndRecord(a)
        PROVE  \E j \in 1..Len(failures'[k]) : failures'[k][j] = failures[k][i]
    <3>1. Record(KeyOf[a], now) /\ KeyOf[a] \in Keys
      BY <2>7, LimiterAssumption DEF CheckAndRecord
    <3>2. CASE k = KeyOf[a]
      <4>1. failures'[k] = Append(Recent(k, now), now)
        BY <2>1, <2>2, <3>1, <3>2, RecordLeaves
      <4>2. Recent(k, now) \in Seq(Times)
        BY <2>1, <2>2, RecentIsYoung
      <4>3. /\ h \in 1..Len(Append(Recent(k, now), now))
            /\ Append(Recent(k, now), now)[h] = Recent(k, now)[h]
        BY <2>2, <4>2, YoungAppended, LenProperties
      <4> QED
        BY <2>3, <4>1, <4>3
    <3>3. CASE k # KeyOf[a]
      BY <2>1, <3>1, <3>3, SweepSparesAscending
    <3> QED
      BY <3>2, <3>3
  <2>8. CASE \E a \in Attempts : Begin(a) \/ Charge(a) \/ Release(a) \/ Reset(a)
    BY <2>4, <2>8 DEF Begin, Charge, Release, Reset
  <2>9. CASE \E a \in Attempts : ReleaseCharged(a)
    BY <2>5, <2>9 DEF ReleaseCharged
  <2>10. CASE Tick
    BY <2>5, <2>10 DEF Tick
  <2>11. CASE UNCHANGED vars
    BY <2>5, <2>11 DEF vars
  <2> QED
    BY <2>3, <2>6, <2>7, <2>8, <2>9, <2>10, <2>11 DEF Next
<1> QED
  BY <1>1, LimiterHolds, PTL DEF Spec, RationSweepSparesLive

-----------------------------------------------------------------------------
(* The promise SlotBudget makes for a limiter: what a key is seen to hold.  *)

HeldOn(k)  == Len(inFlight[k])
SpentOn(k) == Cardinality(Young(failures[k], now))

LEMMA CountsAreNatural ==
  ASSUME TypeOK
  PROVE  \A k \in Keys : HeldOn(k) \in Nat /\ SpentOn(k) \in Nat
<1> SUFFICES ASSUME NEW k \in Keys PROVE HeldOn(k) \in Nat /\ SpentOn(k) \in Nat
  OBVIOUS
<1>1. failures[k] \in Seq(Times) /\ inFlight[k] \in Seq(Times) /\ now \in Int
  BY KeysTyped
<1> QED
  BY <1>1, YoungIsFinite DEF HeldOn, SpentOn

LEMMA CountsStayNatural ==
  ASSUME TypeOK'
  PROVE  \A k \in Keys : HeldOn(k)' \in Nat /\ SpentOn(k)' \in Nat
<1> SUFFICES ASSUME NEW k \in Keys PROVE HeldOn(k)' \in Nat /\ SpentOn(k)' \in Nat
  OBVIOUS
<1>1. failures'[k] \in Seq(Times) /\ inFlight'[k] \in Seq(Times) /\ now' \in Int
  BY DEF TypeOK, Times
<1>2. Len(inFlight'[k]) \in Nat /\ Cardinality(Young(failures'[k], now')) \in Nat
  BY <1>1, YoungIsFinite
<1> QED
  BY <1>2 DEF HeldOn, SpentOn

(* Pruning at the moment of the call forgets nothing that counts.           *)
LEMMA PrunedCountsTheSame ==
  ASSUME TypeOK, NEW k \in Keys
  PROVE  Cardinality(Young(Recent(k, now), now)) = SpentOn(k)
<1>1. failures[k] \in Seq(Times) /\ now \in Int
  BY KeysTyped
<1>2. Young(failures[k], now) \in SUBSET (1..Len(failures[k]))
  BY <1>1, YoungIsFinite
<1>3. Cardinality(Young(Recent(k, now), now)) =
        Cardinality(Young(failures[k], now) \cap Young(failures[k], now))
  BY <1>1, <1>2, YoungFiltered DEF Recent
<1> QED
  BY <1>3 DEF SpentOn

LEMMA OpenIsFree ==
  ASSUME TypeOK, NEW k \in Keys
  PROVE  Open(k, now) <=> HeldOn(k) + SpentOn(k) < MaxFailures
<1>1. Len(Recent(k, now)) = SpentOn(k)
  BY KeysTyped, RecentIsYoung DEF SpentOn
<1>2. HeldOn(k) \in Nat /\ SpentOn(k) \in Nat
  BY CountsAreNatural
<1> QED
  BY <1>1, <1>2 DEF Open, HeldOn

(* What a step of one key leaves of another.                                *)
LEMMA PassedFades ==
  ASSUME TypeOK, NEW j \in Keys, Passed(j)
  PROVE  HeldOn(j)' = HeldOn(j) /\ SpentOn(j)' <= SpentOn(j)
<1>1. HeldOn(j)' = HeldOn(j) /\ now' = now
  BY DEF Passed, HeldOn
<1>2. SpentOn(j) \in Nat
  BY CountsAreNatural
<1>3. CASE failures'[j] = failures[j]
  BY <1>1, <1>2, <1>3 DEF SpentOn
<1>4. CASE failures'[j] = <<>>
  <2>1. Young(failures'[j], now') = {}
    BY <1>4 DEF Young
  <2> QED
    BY <1>1, <1>2, <2>1, FS_EmptySet DEF SpentOn
<1> QED
  BY <1>1, <1>3, <1>4 DEF Passed

(* An entry dated by the attempt's start counts once, or not at all.        *)
LEMMA RecordAddsOne ==
  ASSUME TypeOK, NEW k \in Keys, NEW at \in Times, at <= now, Record(k, at), now' = now
  PROVE  SpentOn(k)' <= SpentOn(k) + 1
<1>1. failures'[k] = Append(Recent(k, at), at)
  BY RecordLeaves
<1>2. now \in Int /\ at \in Int /\ Recent(k, at) \in Seq(Times)
  BY KeysTyped, RecentIsYoung DEF Times
<1>3. Cardinality(Young(Recent(k, at), now)) <= SpentOn(k)
  BY <1>2, RecentKeepsFewer DEF SpentOn
<1>4. Cardinality(Young(Append(Recent(k, at), at), now)) =
        Cardinality(Young(Recent(k, at), now)) + (IF now - at < Window THEN 1 ELSE 0)
  BY <1>2, YoungAppended
<1>5. Cardinality(Young(Recent(k, at), now)) \in Nat /\ SpentOn(k) \in Nat
  BY <1>2, YoungIsFinite, CountsAreNatural
<1>6. SpentOn(k)' = Cardinality(Young(Append(Recent(k, at), at), now))
  BY <1>1 DEF SpentOn
<1> HIDE DEF SpentOn
<1> QED
  BY <1>3, <1>4, <1>5, <1>6

(* The steps of SlotBudget, key by key.                                     *)
LEMMA TakesOne ==
  ASSUME TypeOK, NEW k \in Keys, HeldOn(k) + SpentOn(k) < MaxFailures,
         HeldOn(k)' = HeldOn(k) + 1, \A j \in Keys : j # k => HeldOn(j)' = HeldOn(j),
         \A j \in Keys : SpentOn(j)' = SpentOn(j)
  PROVE  Promised!Next
<1>1. Promised!Takes({k})
  BY DEF Promised!Takes, Promised!Free, HeldOn, SpentOn
<1> QED
  BY <1>1 DEF Promised!Next

LEMMA GivesOneBack ==
  ASSUME TypeOK, TypeOK', NEW k \in Keys, HeldOn(k) > 0,
         HeldOn(k)' = HeldOn(k) - 1, \A j \in Keys : j # k => HeldOn(j)' = HeldOn(j),
         SpentOn(k)' <= SpentOn(k) + 1, \A j \in Keys : j # k => SpentOn(j)' <= SpentOn(j)
  PROVE  Promised!Next
<1>1. \A j \in Keys : SpentOn(j)' \in Nat
  BY CountsStayNatural
<1>2. Promised!GivesBack({k})
  BY <1>1 DEF Promised!GivesBack, Promised!AtMostOneMore, HeldOn, SpentOn
<1> QED
  BY <1>2 DEF Promised!Next

LEMMA RecordsOne ==
  ASSUME TypeOK, TypeOK', NEW k \in Keys, HeldOn(k) + SpentOn(k) < MaxFailures,
         \A j \in Keys : HeldOn(j)' = HeldOn(j),
         SpentOn(k)' <= SpentOn(k) + 1, \A j \in Keys : j # k => SpentOn(j)' <= SpentOn(j)
  PROVE  Promised!Next
<1>1. \A j \in Keys : SpentOn(j)' \in Nat
  BY CountsStayNatural
<1>2. Promised!Records(k)
  BY <1>1 DEF Promised!Records, Promised!Free, Promised!AtMostOneMore, HeldOn, SpentOn
<1> QED
  BY <1>2 DEF Promised!Next

LEMMA ForgetsSome ==
  ASSUME TypeOK, TypeOK', \A j \in Keys : HeldOn(j)' = HeldOn(j) /\ SpentOn(j)' <= SpentOn(j)
  PROVE  Promised!Next
<1>1. \A j \in Keys : SpentOn(j)' \in Nat
  BY CountsStayNatural
<1>2. Promised!Forgets
  BY <1>1 DEF Promised!Forgets, Promised!AtMostOneMore, HeldOn, SpentOn
<1> QED
  BY <1>2 DEF Promised!Next

LEMMA PromiseStep ==
  ASSUME LimiterInv, LimiterInv', Next
  PROVE  Promised!Next
<1>1. TypeOK /\ TypeOK' /\ \A k \in Keys : KeyInv(k)
  BY DEF LimiterInv
<1>2. /\ \A k \in Keys : HeldOn(k) \in Nat /\ SpentOn(k) \in Nat
      /\ \A k \in Keys : HeldOn(k)' \in Nat /\ SpentOn(k)' \in Nat
  BY <1>1, CountsAreNatural, CountsStayNatural
<1>3. ASSUME NEW a \in Attempts,
             Begin(a) \/ Refuse(a) \/ Charge(a) \/ Release(a) \/ Reset(a) \/ CheckAndRecord(a)
      PROVE  Promised!Next
  <2> DEFINE k == KeyOf[a]
  <2>1. /\ k \in Keys /\ KeyInv(k) /\ start[a] \in Times /\ start[a] <= now /\ now \in Times
        /\ now <= now /\ inFlight \in [Keys -> Seq(Times)] /\ failures \in [Keys -> Seq(Times)]
    <3>1. k \in Keys /\ KeyInv(k)
      BY <1>1, LimiterAssumption
    <3> QED
      BY <1>1, <3>1 DEF TypeOK, KeyInv, Past, On, Times
  <2>2. \A j \in Keys : j # k => HeldOn(j)' = HeldOn(j) /\ SpentOn(j)' <= SpentOn(j)
    BY <1>1, <1>3, <2>1, OtherKeysPass, PassedFades
  <2>3. Open(k, now) => HeldOn(k) + SpentOn(k) < MaxFailures
    BY <1>1, <2>1, OpenIsFree
  <2>4. Recent(k, now) \in Seq(Times) /\ Cardinality(Young(Recent(k, now), now)) = SpentOn(k)
    BY <1>1, <2>1, RecentIsYoung, PrunedCountsTheSame DEF Times
  <2>5. phase[a] = "running" =>
          HeldOn(k) > 0 /\ Len(RemoveOne(inFlight[k], start[a])) = HeldOn(k) - 1
    <3>1. phase[a] = "running" =>
            /\ Len(RemoveOne(inFlight[k], start[a])) = HeldOn(k) - 1
            /\ RemoveOne(inFlight[k], start[a]) \in Seq(Times)
      BY <1>1, <2>1, SlotGivenBack DEF HeldOn
    <3>2. phase[a] = "running" => Len(RemoveOne(inFlight[k], start[a])) \in Nat
      BY <3>1, LenProperties
    <3> QED
      BY <1>2, <2>1, <3>1, <3>2
  <2> HIDE DEF k
  <2>6. CASE Begin(a)
    <3>1. /\ Open(k, now) /\ now' = now /\ failures' = [failures EXCEPT ![k] = Recent(k, now)]
          /\ inFlight' = [inFlight EXCEPT ![k] = Append(@, now)]
      BY <2>6 DEF Begin, k
    <3>2. HeldOn(k)' = HeldOn(k) + 1
      <4>1. inFlight'[k] = Append(inFlight[k], now) /\ inFlight[k] \in Seq(Times)
        BY <2>1, <3>1
      <4>2. Len(Append(inFlight[k], now)) = Len(inFlight[k]) + 1
        BY <2>1, <4>1
      <4> QED
        BY <4>1, <4>2 DEF HeldOn
    <3>3. ASSUME NEW j \in Keys PROVE SpentOn(j)' = SpentOn(j)
      BY <2>1, <2>4, <3>1 DEF SpentOn
    <3> QED
      BY <1>1, <2>1, <2>2, <2>3, <3>1, <3>2, <3>3, TakesOne
  <2>7. CASE Refuse(a)
    <3>1. failures'[k] = Recent(k, now) /\ now' = now /\ inFlight' = inFlight
      BY <2>1, <2>7 DEF Refuse, k
    <3>2. HeldOn(k)' = HeldOn(k) /\ SpentOn(k)' = SpentOn(k)
      BY <2>4, <3>1 DEF HeldOn, SpentOn
    <3> QED
      BY <1>1, <1>2, <2>1, <2>2, <3>2, ForgetsSome
  <2>8. CASE Charge(a)
    <3>1. /\ phase[a] = "running" /\ Record(k, start[a]) /\ now' = now
          /\ inFlight'[k] = RemoveOne(inFlight[k], start[a])
      BY <2>1, <2>8 DEF Charge, k
    <3>2. HeldOn(k) > 0 /\ HeldOn(k)' = HeldOn(k) - 1
      BY <2>5, <3>1 DEF HeldOn
    <3>3. SpentOn(k)' <= SpentOn(k) + 1
      BY <1>1, <2>1, <3>1, RecordAddsOne
    <3> QED
      BY <1>1, <2>1, <2>2, <3>2, <3>3, GivesOneBack
  <2>9. CASE Release(a) \/ Reset(a)
    <3>1. /\ phase[a] = "running" /\ now' = now
          /\ inFlight'[k] = RemoveOne(inFlight[k], start[a])
          /\ failures'[k] = failures[k] \/ failures'[k] = <<>>
      BY <2>1, <2>9 DEF Release, Reset, k
    <3>2. HeldOn(k) > 0 /\ HeldOn(k)' = HeldOn(k) - 1
      BY <2>5, <3>1 DEF HeldOn
    <3>3. SpentOn(k)' <= SpentOn(k) + 1
      <4>1. CASE failures'[k] = failures[k]
        <5>1. SpentOn(k)' = SpentOn(k)
          BY <3>1, <4>1 DEF SpentOn
        <5> QED
          BY <1>2, <2>1, <5>1
      <4>2. CASE failures'[k] = <<>>
        <5>1. Young(failures'[k], now') = {}
          BY <4>2 DEF Young
        <5>2. SpentOn(k)' = 0
          BY <5>1, FS_EmptySet DEF SpentOn
        <5> QED
          BY <1>2, <2>1, <5>2
      <4> QED
        BY <3>1, <4>1, <4>2
    <3> QED
      BY <1>1, <2>1, <2>2, <3>2, <3>3, GivesOneBack
  <2>10. CASE CheckAndRecord(a)
    <3>1. Open(k, now) /\ Record(k, now) /\ now' = now /\ inFlight' = inFlight
      BY <2>10 DEF CheckAndRecord, k
    <3>2. \A j \in Keys : HeldOn(j)' = HeldOn(j)
      BY <3>1 DEF HeldOn
    <3>3. SpentOn(k)' <= SpentOn(k) + 1
      BY <1>1, <2>1, <3>1, RecordAddsOne
    <3> QED
      BY <1>1, <2>1, <2>2, <2>3, <3>1, <3>2, <3>3, RecordsOne
  <2> QED
    BY <1>3, <2>6, <2>7, <2>8, <2>9, <2>10
<1>4. ASSUME NEW a \in Attempts, ReleaseCharged(a)
      PROVE  Promised!Next
  <2>1. \A j \in Keys : HeldOn(j)' = HeldOn(j) /\ SpentOn(j)' = SpentOn(j)
    BY <1>4 DEF ReleaseCharged, HeldOn, SpentOn
  <2> QED
    BY <1>1, <1>2, <2>1, ForgetsSome
<1>5. CASE Tick
  <2>1. failures' = failures /\ inFlight' = inFlight /\ now' = now + 1 /\ now \in Int
    BY <1>1, <1>5, KeysTyped DEF Tick, TypeOK, Times
  <2>2. ASSUME NEW j \in Keys PROVE HeldOn(j)' = HeldOn(j) /\ SpentOn(j)' <= SpentOn(j)
    <3>1. failures[j] \in Seq(Times) /\ now + 1 \in Int /\ now <= now + 1
      BY <1>1, <2>1, KeysTyped
    <3>2. Cardinality(Young(failures[j], now + 1)) <= Cardinality(Young(failures[j], now))
      BY <2>1, <3>1, YoungShrinks
    <3> QED
      BY <2>1, <3>2 DEF HeldOn, SpentOn
  <2> QED
    BY <1>1, <2>2, ForgetsSome
<1> QED
  BY <1>3, <1>4, <1>5 DEF Next

(* createRateLimiter implements SlotBudget for any attempts, keys, windows, *)
(* budgets and sweep floor: a slot is taken only with room left, none is    *)
(* given back that is not held, and nothing else makes a key fuller.        *)
THEOREM LimiterKeepsItsPromise == Spec => KeepsItsPromise
<1>1. Init => Promised!Init
  <2> SUFFICES ASSUME Init PROVE Promised!Init
    OBVIOUS
  <2>1. \A k \in Keys : inFlight[k] = <<>> /\ failures[k] = <<>>
    BY DEF Init
  <2>2. \A k \in Keys : Young(failures[k], now) = {}
    BY <2>1 DEF Young
  <2>3. \A k \in Keys : HeldOn(k) = 0
    BY <2>1 DEF HeldOn
  <2>4. \A k \in Keys : SpentOn(k) = 0
    <3>1. Cardinality({}) = 0
      BY FS_EmptySet
    <3> QED
      BY <2>2, <3>1 DEF SpentOn
  <2>5. /\ [k \in Keys |-> HeldOn(k)] = [k \in Keys |-> 0]
        /\ [k \in Keys |-> SpentOn(k)] = [k \in Keys |-> 0]
    BY <2>3, <2>4
  <2> QED
    BY <2>5, Zenon DEF Promised!Init, HeldOn, SpentOn
<1>2. LimiterInv /\ LimiterInv' /\ [Next]_vars => [Promised!Next]_(Promised!vars)
  <2>1. CASE UNCHANGED vars
    BY <2>1 DEF vars, Promised!vars
  <2>2. ASSUME LimiterInv, LimiterInv', Next PROVE Promised!Next
    BY <2>2, PromiseStep
  <2> QED
    BY <2>1, <2>2
<1> QED
  BY <1>1, <1>2, LimiterHolds, PTL DEF Spec, KeepsItsPromise, Promised!Spec

================================================================================
