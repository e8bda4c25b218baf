--------------------------- MODULE CrawlRoundsProofs ---------------------------
(***************************************************************************)
(* First DeadlineCycles, for any programmes, deadlines and order of        *)
(* decisions: the tables keep their types, and a programme that owns its   *)
(* dates, or rides a published one that does, has the right ones.  The two *)
(* are inductive together: the types say that the chain of sources never   *)
(* leaves the programmes.                                                  *)
(* Then CrawlRounds, for any sources, requests and interleaving of two     *)
(* crawls: the crawls and the decisions together implement DeadlineCycles, *)
(* so what is proved of its tables holds beside them; and a source that    *)
(* was turned off is asked by nobody but a crawl that was running then.    *)
(***************************************************************************)
EXTENDS CrawlRounds, TLAPS

Corpora == [Programs -> [from : Programs \cup {Own}, dates : SUBSET Rules,
                         published : BOOLEAN]]

(* A step along the sources leads to a programme.                          *)
LEMMA HopStays ==
  ASSUME NEW records \in Corpora, NEW q \in Programs
  PROVE  Hop(q, records) \in Programs
BY DEF Hop, Published

(* A chain of sources ends at a programme.                                 *)
LEMMA OwnerIsAProgramme ==
  ASSUME NEW records \in Corpora, NEW p \in Programs
  PROVE  Owner(p, records) \in Programs
<1> DEFINE hop == [q \in Programs |-> Hop(q, records)]
<1>1. \A q \in Programs : hop[q] \in Programs
  BY HopStays
<1>2. hop[hop[hop[hop[hop[hop[hop[p]]]]]]] \in Programs
  <2> HIDE DEF hop
  <2> QED
    BY <1>1
<1> QED
  BY <1>2 DEF Owner

(* ... whose dates are dates.                                              *)
LEMMA DatesAreDates ==
  ASSUME NEW records \in Corpora, NEW p \in Programs
  PROVE  DatesOf(p, records) \in SUBSET Rules
BY OwnerIsAProgramme DEF DatesOf, Corpora

(* A programme that owns its dates is its own owner.                       *)
LEMMA OwnsItself ==
  ASSUME NEW records \in Corpora, NEW p \in Programs, records[p].from = Own
  PROVE  Owner(p, records) = p /\ DatesOf(p, records) = records[p].dates
<1>1. Hop(p, records) = p
  BY CandidatesAssumption DEF Hop, Published
<1>2. Owner(p, records) = p
  BY <1>1 DEF Owner
<1> QED
  BY <1>2 DEF DatesOf

(* A programme that rides one is owned by it.                              *)
LEMMA RidesDirectly ==
  ASSUME NEW records \in Corpora, NEW p \in Programs, NEW s \in Programs,
         records[p].from = s, records[s].published, records[s].from = Own
  PROVE  Owner(p, records) = s /\ DatesOf(p, records) = records[s].dates
<1>1. Hop(p, records) = s
  BY DEF Hop, Published
<1>2. Hop(s, records) = s
  BY CandidatesAssumption DEF Hop, Published
<1>3. Owner(p, records) = s
  BY <1>1, <1>2 DEF Owner
<1> QED
  BY <1>3 DEF DatesOf

-----------------------------------------------------------------------------
(* One programme's part of DirectRidersMatch.                              *)
Matches(p, records, table) ==
  IF ~records[p].published THEN table[p] = {}
  ELSE IF records[p].from = Own THEN table[p] = records[p].dates
  ELSE records[records[p].from].published /\ records[records[p].from].from = Own
         => table[p] = records[records[p].from].dates

AllMatch == \A p \in Programs : Matches(p, corpus, cycles)

LEMMA MatchesAll == DirectRidersMatch <=> AllMatch
BY DEF DirectRidersMatch, Matches, AllMatch

LEMMA MatchesAllNext == DirectRidersMatch' <=> AllMatch'
BY MatchesAll, PTL

(* What is projected matches.                                              *)
LEMMA ProjectedMatches ==
  ASSUME NEW records \in Corpora, NEW table, NEW p \in Programs,
         records[p].published, table[p] = DatesOf(p, records)
  PROVE  Matches(p, records, table)
<1>1. CASE records[p].from = Own
  BY <1>1, OwnsItself DEF Matches
<1>2. CASE records[p].from # Own
  <2>1. records[p].from \in Programs
    BY <1>2 DEF Corpora
  <2> QED
    BY <1>2, <2>1, RidesDirectly DEF Matches
<1> QED
  BY <1>1, <1>2

Inv == TypeOK /\ DirectRidersMatch

(* A decision publishes a programme and projects those that ride it.       *)
LEMMA PublishKeeps ==
  ASSUME Inv, NEW c \in Candidates, Publish(c[1], c[2])
  PROVE  Inv'
<1> DEFINE p == c[1]
           records == [corpus EXCEPT ![p] = [from |-> c[2].from, dates |-> c[2].dates,
                                             published |-> TRUE]]
           written == {p} \cup Riders(p, records)
<1>1. p \in Programs /\ c[2] \in Deadline
  BY CandidatesAssumption
<1>2. corpus \in Corpora
  BY DEF Inv, TypeOK, Corpora
<1>3. c[2].from \in Programs \cup {Own} /\ c[2].dates \in SUBSET Rules
  BY <1>1 DEF Deadline
<1>4. records \in Corpora
  BY <1>2, <1>3 DEF Corpora
<1>5. /\ corpus' = records
      /\ cycles' = [q \in Programs |->
           IF q \in written THEN DatesOf(q, records)
           ELSE IF q \in Published(records) THEN cycles[q] ELSE {}]
  <2>1. corpus' = records /\ WriteCycles(written, records)
    BY DEF Publish
  <2> QED
    BY <2>1 DEF WriteCycles
<1>6. TypeOK'
  <2>1. \A q \in Programs : DatesOf(q, records) \in SUBSET Rules
    BY <1>4, DatesAreDates
  <2>2. cycles \in [Programs -> SUBSET Rules]
    BY DEF Inv, TypeOK
  <2>3. cycles' \in [Programs -> SUBSET Rules]
    BY <1>5, <2>1, <2>2
  <2> QED
    BY <1>4, <1>5, <2>3 DEF TypeOK, Corpora
<1>7. ASSUME NEW q \in Programs PROVE Matches(q, records, cycles')
  <2>1. CASE q \in written
    <3>1. records[q].published
      BY <1>1, <1>2, <2>1 DEF Riders, Published, Corpora
    <3>2. cycles'[q] = DatesOf(q, records)
      BY <1>5, <2>1
    <3> QED
      BY <1>4, <3>1, <3>2, ProjectedMatches
  <2>2. CASE q \notin written /\ ~records[q].published
    <3>1. cycles'[q] = {}
      BY <1>5, <2>2 DEF Published
    <3> QED
      BY <2>2, <3>1 DEF Matches
  <2>3. CASE q \notin written /\ records[q].published
    <3>1. q # p /\ records[q] = corpus[q]
      BY <1>2, <2>3 DEF Corpora
    <3>2. cycles'[q] = cycles[q]
      BY <1>5, <2>3 DEF Published
    <3>3. Matches(q, corpus, cycles)
      BY MatchesAll DEF Inv, AllMatch
    <3>4. CASE records[q].from = Own
      BY <3>1, <3>2, <3>3, <3>4, <2>3 DEF Matches
    <3>5. CASE records[q].from # Own
      <4> DEFINE s == records[q].from
      <4>1. s \in Programs
        BY <1>4, <3>5 DEF Corpora
      <4>2. SUFFICES ASSUME records[s].published, records[s].from = Own
                     PROVE  cycles'[q] = records[s].dates
        BY <3>5, <2>3 DEF Matches
      <4>3. Owner(q, records) = s
        BY <1>4, <4>1, <4>2, RidesDirectly
      <4>4. s # p
        BY <4>3, <3>1, <3>5, <2>3 DEF Riders, Published
      <4>5. records[s] = corpus[s]
        BY <1>2, <4>1, <4>4 DEF Corpora
      <4> QED
        BY <3>1, <3>2, <3>3, <3>5, <4>2, <4>5, <2>3 DEF Matches
    <3> QED
      BY <3>4, <3>5
  <2> QED
    BY <2>1, <2>2, <2>3
<1>8. \A q \in Programs : Matches(q, corpus, cycles)'
  <2>1. corpus' = records
    BY <1>5
  <2> HIDE DEF records, written
  <2> QED
    BY <1>7, <2>1 DEF Matches
<1>9. DirectRidersMatch'
  BY <1>8, MatchesAllNext DEF AllMatch
<1> QED
  BY <1>6, <1>9 DEF Inv

(* A removal takes the dates of one programme with it.                     *)
LEMMA WithdrawKeeps ==
  ASSUME Inv, NEW p \in Removable, Withdraw(p)
  PROVE  Inv'
<1>1. p \in Programs
  BY CandidatesAssumption
<1>2. corpus \in Corpora /\ corpus' = [corpus EXCEPT ![p] = Unpublished]
  BY DEF Inv, TypeOK, Corpora, Withdraw
<1>3. corpus' \in Corpora
  BY <1>2 DEF Corpora, Unpublished
<1>4. cycles' = [q \in Programs |-> IF q \in Published(corpus') THEN cycles[q] ELSE {}]
  BY DEF Withdraw, WriteCycles
<1>5. TypeOK'
  BY <1>3, <1>4 DEF Inv, TypeOK, Corpora
<1>6. ASSUME NEW q \in Programs PROVE Matches(q, corpus', cycles')
  <2>1. CASE ~corpus'[q].published
    BY <1>4, <2>1 DEF Matches, Published
  <2>2. CASE corpus'[q].published
    <3>1. q # p /\ corpus'[q] = corpus[q]
      BY <1>1, <1>2, <2>2 DEF Corpora, Unpublished
    <3>2. cycles'[q] = cycles[q]
      BY <1>4, <2>2 DEF Published
    <3>3. Matches(q, corpus, cycles)
      BY MatchesAll DEF Inv, AllMatch
    <3>4. CASE corpus[q].from = Own
      BY <2>2, <3>1, <3>2, <3>3, <3>4 DEF Matches
    <3>5. CASE corpus[q].from # Own
      <4> DEFINE s == corpus[q].from
      <4>1. s \in Programs
        BY <1>2, <3>5 DEF Corpora
      <4>2. SUFFICES ASSUME corpus'[s].published, corpus'[s].from = Own
                     PROVE  cycles'[q] = corpus'[s].dates
        BY <2>2, <3>1, <3>5 DEF Matches
      <4>3. corpus'[s] = corpus[s]
        BY <1>1, <1>2, <4>1, <4>2 DEF Corpora, Unpublished
      <4> QED
        BY <2>2, <3>1, <3>2, <3>3, <3>5, <4>2, <4>3 DEF Matches
    <3> QED
      BY <3>4, <3>5
  <2> QED
    BY <2>1, <2>2
<1>7. DirectRidersMatch'
  BY <1>6 DEF DirectRidersMatch, Matches
<1> QED
  BY <1>5, <1>7 DEF Inv

(* A crawl projects every published programme.                             *)
LEMMA ReprojectKeeps ==
  ASSUME Inv, Reproject
  PROVE  Inv'
<1>1. corpus \in Corpora /\ corpus' = corpus
  BY DEF Inv, TypeOK, Corpora, Reproject
<1>2. cycles' = [q \in Programs |-> IF q \in Published(corpus) THEN DatesOf(q, corpus) ELSE {}]
  BY DEF Reproject, WriteCycles
<1>3. \A q \in Programs : DatesOf(q, corpus) \in SUBSET Rules
  BY <1>1, DatesAreDates
<1>4. TypeOK'
  BY <1>1, <1>2, <1>3 DEF TypeOK, Corpora
<1>5. ASSUME NEW q \in Programs PROVE Matches(q, corpus, cycles')
  <2>1. CASE corpus[q].published
    <3>1. cycles'[q] = DatesOf(q, corpus)
      BY <1>2, <2>1 DEF Published
    <3> QED
      BY <1>1, <2>1, <3>1, ProjectedMatches
  <2>2. CASE ~corpus[q].published
    BY <1>2, <2>2 DEF Matches, Published
  <2> QED
    BY <2>1, <2>2
<1>6. DirectRidersMatch'
  BY <1>1, <1>5 DEF DirectRidersMatch, Matches
<1> QED
  BY <1>4, <1>6 DEF Inv

(* The invariant holds of every behaviour of the table of dates.           *)
THEOREM CyclesInvariant == Spec => []Inv
<1>1. Init => Inv
  BY DEF Init, Inv, TypeOK, DirectRidersMatch, Unpublished
<1>2. Inv /\ [Next]_vars => Inv'
  <2> SUFFICES ASSUME Inv, [Next]_vars PROVE Inv'
    OBVIOUS
  <2>1. ASSUME NEW c \in Candidates, Publish(c[1], c[2]) PROVE Inv'
    BY <2>1, PublishKeeps
  <2>2. ASSUME NEW p \in Removable, Withdraw(p) PROVE Inv'
    BY <2>2, WithdrawKeeps
  <2>3. CASE Reproject
    BY <2>3, ReprojectKeeps
  <2>4. CASE UNCHANGED vars
    BY <2>4 DEF vars, Inv, TypeOK, DirectRidersMatch
  <2> QED
    BY <2>1, <2>2, <2>3, <2>4 DEF Next
<1> QED
  BY <1>1, <1>2, PTL DEF Spec

(* Both tables keep their types, for any deadlines.                        *)
THEOREM CyclesTypeCorrect == Spec => []TypeOK
BY CyclesInvariant, PTL DEF Inv

(* In whatever order programmes are approved, edited and withdrawn, one    *)
(* that owns its dates, or rides a published programme that does, has the  *)
(* dates its owner states now (writeCyclesFor, backfillInheritedDependents)*)
THEOREM DatesAreRight == Spec => []DirectRidersMatch
BY CyclesInvariant, PTL DEF Inv

-----------------------------------------------------------------------------
(* How right dates go wrong.  One record is about to change, that of p, and *)
(* with it the hops along the sources.                                      *)
ChangedOnly(p, old, new) == \A x \in Programs \ {p} : new[x] = old[x]

(* Where the chain of q leads, hop by hop.                                  *)
Chain(q, records) ==
  LET hop == [x \in Programs |-> Hop(x, records)]
  IN  hop[hop[hop[hop[hop[hop[hop[q]]]]]]]

LEMMA ChainEnds ==
  ASSUME NEW records \in Corpora, NEW q \in Programs
  PROVE  /\ Chain(q, records) \in Programs
         /\ Owner(q, records) =
              IF records[Chain(q, records)].from = Own THEN Chain(q, records) ELSE q
<1> DEFINE hop == [x \in Programs |-> Hop(x, records)]
<1>1. \A x \in Programs : hop[x] \in Programs
  BY HopStays
<1>2. hop[hop[hop[hop[hop[hop[hop[q]]]]]]] \in Programs
  <2> HIDE DEF hop
  <2> QED
    BY <1>1
<1> QED
  BY <1>2 DEF Chain, Owner

(* Where p owns its dates, a chain comes to p or leads where it led.        *)
LEMMA ChainToOwner ==
  ASSUME NEW old \in Corpora, NEW new \in Corpora, NEW p \in Programs,
         ChangedOnly(p, old, new), new[p].published, new[p].from = Own,
         NEW q \in Programs
  PROVE  Chain(q, new) = p \/ Chain(q, new) = Chain(q, old)
<1> DEFINE h == [x \in Programs |-> Hop(x, new)]
           g == [x \in Programs |-> Hop(x, old)]
           Meets(a, b) == a \in Programs /\ b \in Programs /\ (a = p \/ a = b)
<1>1. h[p] = p
  BY CandidatesAssumption DEF Hop, Published
<1>2. ASSUME NEW x \in Programs, x # p, h[x] # p PROVE h[x] = g[x]
  <2>1. new[x].from = old[x].from
    BY <1>2 DEF ChangedOnly
  <2>2. new[x].from # p
    BY <1>2 DEF Hop, Published
  <2>3. new[x].from \in Published(new) <=> old[x].from \in Published(old)
    BY <2>1, <2>2 DEF Published, ChangedOnly
  <2> QED
    BY <1>2, <2>1, <2>3 DEF Hop
<1>3. \A x \in Programs : h[x] \in Programs /\ g[x] \in Programs
  BY HopStays
<1>4. Chain(q, new) = h[h[h[h[h[h[h[q]]]]]]] /\ Chain(q, old) = g[g[g[g[g[g[g[q]]]]]]]
  BY DEF Chain
<1> HIDE DEF h, g
<1>5. ASSUME NEW a, NEW b, Meets(a, b) PROVE Meets(h[a], g[b])
  BY <1>1, <1>2, <1>3, <1>5
<1>6. Meets(q, q)
  OBVIOUS
<1> HIDE DEF Meets
<1>7. Meets(h[h[h[h[h[h[h[q]]]]]]], g[g[g[g[g[g[g[q]]]]]]])
  <2>1. Meets(h[h[q]], g[g[q]])
    BY <1>5, <1>6
  <2>2. Meets(h[h[h[h[q]]]], g[g[g[g[q]]]])
    BY <1>5, <2>1
  <2>3. Meets(h[h[h[h[h[h[q]]]]]], g[g[g[g[g[g[q]]]]]])
    BY <1>5, <2>2
  <2> QED
    BY <1>5, <2>3
<1> QED
  BY <1>4, <1>7 DEF Meets

(* Where no published programme inherits from p, every other chain leads    *)
(* where it led.                                                            *)
LEMMA ChainOfOthers ==
  ASSUME NEW old \in Corpora, NEW new \in Corpora, NEW p \in Programs,
         ChangedOnly(p, old, new), \A x \in Published(old) \ {p} : old[x].from # p,
         NEW q \in Published(old) \ {p}
  PROVE  Chain(q, new) = Chain(q, old) /\ Chain(q, new) # p
<1> DEFINE h == [x \in Programs |-> Hop(x, new)]
           g == [x \in Programs |-> Hop(x, old)]
           Others == Published(old) \ {p}
<1>1. ASSUME NEW x \in Others PROVE h[x] = g[x] /\ g[x] \in Others
  <2>1. x \in Programs /\ new[x].from = old[x].from /\ old[x].from # p
    BY <1>1 DEF ChangedOnly, Published
  <2>2. new[x].from \in Published(new) <=> old[x].from \in Published(old)
    BY <2>1 DEF Published, ChangedOnly
  <2> QED
    BY <1>1, <2>1, <2>2 DEF Hop
<1>2. Chain(q, new) = h[h[h[h[h[h[h[q]]]]]]] /\ Chain(q, old) = g[g[g[g[g[g[g[q]]]]]]]
  BY DEF Chain
<1>3. q \in Others
  OBVIOUS
<1> HIDE DEF h, g, Others
<1>4. h[h[h[h[h[h[h[q]]]]]]] = g[g[g[g[g[g[g[q]]]]]]] /\ g[g[g[g[g[g[g[q]]]]]]] \in Others
  <2>1. h[h[q]] = g[g[q]] /\ g[g[q]] \in Others
    BY <1>1, <1>3
  <2>2. h[h[h[h[q]]]] = g[g[g[g[q]]]] /\ g[g[g[g[q]]]] \in Others
    BY <1>1, <2>1
  <2>3. h[h[h[h[h[h[q]]]]]] = g[g[g[g[g[g[q]]]]]] /\ g[g[g[g[g[g[q]]]]]] \in Others
    BY <1>1, <2>2
  <2> QED
    BY <1>1, <2>3
<1> QED
  BY <1>2, <1>4 DEF Others

(* A chain that leads where it led, and not to p, leads to the same dates.  *)
LEMMA SameChainSameDates ==
  ASSUME NEW old \in Corpora, NEW new \in Corpora, NEW p \in Programs,
         ChangedOnly(p, old, new), NEW q \in Programs, q # p,
         Chain(q, new) = Chain(q, old), Chain(q, new) # p
  PROVE  DatesOf(q, new) = DatesOf(q, old)
<1>1. /\ Chain(q, new) \in Programs /\ new[Chain(q, new)] = old[Chain(q, new)]
      /\ new[q] = old[q]
  BY ChainEnds DEF ChangedOnly
<1>2. Owner(q, new) = Owner(q, old) /\ new[Owner(q, new)] = old[Owner(q, new)]
  BY <1>1, ChainEnds
<1> QED
  BY <1>2 DEF DatesOf

(* A programme whose chain comes to another one does not own its dates.     *)
LEMMA OwnersStay ==
  ASSUME NEW records \in Corpora, NEW q \in Programs, records[q].from = Own
  PROVE  Chain(q, records) = q
<1>1. Hop(q, records) = q
  BY CandidatesAssumption DEF Hop, Published
<1> QED
  BY <1>1 DEF Chain

(* A decision about p leaves every other programme the dates the new corpus *)
(* gives it, unless p is ridden and gone or come to inherit.                *)
Spares(p, new) ==
  \/ new[p].published /\ new[p].from = Own
  \/ \A x \in Published(corpus) \ {p} : corpus[x].from # p

LEMMA UnwrittenStayRight ==
  ASSUME NEW new \in Corpora, corpus \in Corpora, NEW p \in Programs,
         ChangedOnly(p, corpus, new), Spares(p, new),
         NEW q \in Published(corpus) \ {p}, q \notin Riders(p, new)
  PROVE  DatesOf(q, new) = DatesOf(q, corpus)
<1>1. q \in Programs /\ q # p /\ q \in Published(new)
  BY DEF Published, ChangedOnly
<1>2. Chain(q, new) = Chain(q, corpus) /\ Chain(q, new) # p
  <2>1. CASE new[p].published /\ new[p].from = Own
    <3>1. Chain(q, new) # p
      <4> SUFFICES ASSUME Chain(q, new) = p PROVE FALSE
        OBVIOUS
      <4>1. Owner(q, new) = p
        BY <1>1, <2>1, ChainEnds
      <4>2. new[q].from # Own
        BY <1>1, OwnersStay
      <4> QED
        BY <1>1, <4>1, <4>2 DEF Riders
    <3> QED
      BY <1>1, <2>1, <3>1, ChainToOwner
  <2>2. CASE \A x \in Published(corpus) \ {p} : corpus[x].from # p
    BY <2>2, ChainOfOthers
  <2> QED
    BY <2>1, <2>2 DEF Spares
<1> QED
  BY <1>1, <1>2, SameChainSameDates

(* One programme's part of CyclesMatchCorpus.                               *)
Right(q, records, table) ==
  table[q] = IF records[q].published THEN DatesOf(q, records) ELSE {}

LEMMA PublishSpares ==
  ASSUME TypeOK, CyclesMatchCorpus, NEW p \in Programs, NEW d \in Deadline, Publish(p, d),
         Spares(p, corpus')
  PROVE  CyclesMatchCorpus'
<1> DEFINE records == [corpus EXCEPT ![p] = [from |-> d.from, dates |-> d.dates,
                                             published |-> TRUE]]
           written == {p} \cup Riders(p, records)
<1>1. corpus \in Corpora /\ records \in Corpora /\ corpus' = records
  BY DEF TypeOK, Corpora, Deadline, Publish
<1>2. cycles' = [q \in Programs |->
        IF q \in written THEN DatesOf(q, records)
        ELSE IF q \in Published(records) THEN cycles[q] ELSE {}]
  BY DEF Publish, WriteCycles
<1>3. ChangedOnly(p, corpus, records) /\ records[p].published
  BY <1>1 DEF ChangedOnly, Corpora
<1>4. \A q \in written : records[q].published
  BY <1>3 DEF Riders, Published
<1> HIDE DEF records
<1>5. ASSUME NEW q \in Programs PROVE Right(q, records, cycles')
  <2>1. CASE q \in written
    BY <1>2, <1>4, <2>1 DEF Right
  <2>2. CASE q \notin written /\ ~records[q].published
    BY <1>2, <2>2 DEF Right, Published
  <2>3. CASE q \notin written /\ records[q].published
    <3>1. q \in Published(corpus) \ {p} /\ q \notin Riders(p, records)
      BY <1>3, <2>3 DEF ChangedOnly, Published
    <3>2. DatesOf(q, records) = DatesOf(q, corpus)
      BY <1>1, <1>3, <3>1, UnwrittenStayRight
    <3>3. cycles'[q] = cycles[q] /\ cycles[q] = DatesOf(q, corpus)
      BY <1>2, <2>3, <3>1 DEF CyclesMatchCorpus, Published
    <3> QED
      BY <2>3, <3>2, <3>3 DEF Right
  <2> QED
    BY <2>1, <2>2, <2>3
<1>6. \A q \in Programs : cycles'[q] = IF corpus'[q].published THEN DatesOf(q, corpus') ELSE {}
  BY <1>1, <1>5 DEF Right
<1> QED
  BY <1>6 DEF CyclesMatchCorpus

LEMMA WithdrawSpares ==
  ASSUME TypeOK, CyclesMatchCorpus, NEW p \in Programs, Withdraw(p), Spares(p, corpus')
  PROVE  CyclesMatchCorpus'
<1>1. /\ corpus \in Corpora /\ corpus' = [corpus EXCEPT ![p] = Unpublished] /\ corpus' \in Corpora
  BY DEF TypeOK, Corpora, Withdraw, Unpublished
<1>2. cycles' = [q \in Programs |-> IF q \in Published(corpus') THEN cycles[q] ELSE {}]
  BY DEF Withdraw, WriteCycles
<1>3. ChangedOnly(p, corpus, corpus') /\ ~corpus'[p].published
  BY <1>1 DEF ChangedOnly, Corpora, Unpublished
<1>4. ASSUME NEW q \in Programs PROVE Right(q, corpus', cycles')
  <2>1. CASE ~corpus'[q].published
    BY <1>2, <2>1 DEF Right, Published
  <2>2. CASE corpus'[q].published
    <3>1. q \in Published(corpus) \ {p}
      BY <1>3, <2>2 DEF ChangedOnly, Published
    <3>2. q \notin Riders(p, corpus')
      <4>1. Chain(q, corpus') # p
        BY <1>1, <1>3, <3>1, ChainOfOthers DEF Spares
      <4>2. Owner(q, corpus') # p
        BY <1>1, <3>1, <4>1, ChainEnds
      <4> QED
        BY <4>2 DEF Riders
    <3>3. DatesOf(q, corpus') = DatesOf(q, corpus)
      BY <1>1, <1>3, <3>1, <3>2, UnwrittenStayRight
    <3>4. cycles'[q] = cycles[q] /\ cycles[q] = DatesOf(q, corpus)
      BY <1>2, <2>2, <3>1 DEF CyclesMatchCorpus, Published
    <3> QED
      BY <2>2, <3>3, <3>4 DEF Right
  <2> QED
    BY <2>1, <2>2
<1> QED
  BY <1>4 DEF CyclesMatchCorpus, Right

(* A decision that changes no record writes only what it finds.             *)
LEMMA IdleDecisionSpares ==
  ASSUME TypeOK, CyclesMatchCorpus, NEW p \in Programs, NEW d \in Deadline, Publish(p, d),
         corpus'[p] = corpus[p]
  PROVE  CyclesMatchCorpus'
<1>1. corpus' = corpus /\ corpus[p].published
  BY DEF TypeOK, Publish
<1>2. \E written \in SUBSET Programs :
        /\ \A q \in written : corpus[q].published
        /\ cycles' = [q \in Programs |->
             IF q \in written THEN DatesOf(q, corpus)
             ELSE IF q \in Published(corpus) THEN cycles[q] ELSE {}]
  <2> DEFINE written == {p} \cup Riders(p, corpus)
  <2>1. written \in SUBSET Programs /\ \A q \in written : corpus[q].published
    BY <1>1 DEF Riders, Published
  <2>2. cycles' = [q \in Programs |->
             IF q \in written THEN DatesOf(q, corpus)
             ELSE IF q \in Published(corpus) THEN cycles[q] ELSE {}]
    BY <1>1 DEF Publish, WriteCycles
  <2> QED
    BY <2>1, <2>2
<1> QED
  BY <1>1, <1>2 DEF CyclesMatchCorpus, Published

LEMMA WrongStep ==
  ASSUME TypeOK, [Next]_vars, CyclesMatchCorpus, ~CyclesMatchCorpus'
  PROVE  \E p \in Programs : \E q \in Published(corpus) \ {p} :
            /\ corpus[q].from = p
            /\ corpus'[p] # corpus[p]
            /\ corpus'[p].published => corpus'[p].from # Own
<1>1. ASSUME NEW p \in Programs, ~Spares(p, corpus'), corpus'[p] # corpus[p]
      PROVE  \E q \in Published(corpus) \ {p} :
               /\ corpus[q].from = p
               /\ corpus'[p] # corpus[p]
               /\ corpus'[p].published => corpus'[p].from # Own
  BY <1>1 DEF Spares
<1>2. ASSUME NEW c \in Candidates, Publish(c[1], c[2])
      PROVE  c[1] \in Programs /\ ~Spares(c[1], corpus') /\ corpus'[c[1]] # corpus[c[1]]
  <2>1. c[1] \in Programs /\ c[2] \in Deadline
    BY CandidatesAssumption
  <2> QED
    BY <1>2, <2>1, PublishSpares, IdleDecisionSpares
<1>3. ASSUME NEW p \in Removable, Withdraw(p)
      PROVE  p \in Programs /\ ~Spares(p, corpus') /\ corpus'[p] # corpus[p]
  <2>1. p \in Programs
    BY CandidatesAssumption
  <2>2. corpus'[p] # corpus[p]
    BY <1>3, <2>1 DEF Withdraw, Unpublished, TypeOK
  <2> QED
    BY <1>3, <2>1, <2>2, WithdrawSpares
<1>4. ASSUME Reproject PROVE CyclesMatchCorpus'
  BY <1>4 DEF Reproject, WriteCycles, CyclesMatchCorpus, Published
<1>5. ASSUME UNCHANGED vars PROVE CyclesMatchCorpus'
  BY <1>5 DEF vars, CyclesMatchCorpus
<1> QED
  BY <1>1, <1>2, <1>3, <1>4, <1>5 DEF Next

(* Right dates go wrong only by a decision that withdraws a programme that  *)
(* another one inherits from, or makes it inherit: for chains of any length *)
(* and shape, publishing dates never leaves a wrong one anywhere            *)
(* (writeCyclesFor, backfillInheritedDependents, resolveDeadlineOwner).     *)
THEOREM RiddenGoWrong == Spec => OnlyRiddenGoWrong
<1>1. TypeOK /\ [Next]_vars =>
        [CyclesMatchCorpus /\ ~CyclesMatchCorpus' =>
           \E p \in Programs : \E q \in Published(corpus) \ {p} :
              /\ corpus[q].from = p
              /\ corpus'[p] # corpus[p]
              /\ corpus'[p].published => corpus'[p].from # Own]_vars
  BY WrongStep
<1> QED
  BY <1>1, CyclesTypeCorrect, PTL DEF Spec, OnlyRiddenGoWrong

-----------------------------------------------------------------------------
(* The crawls.                                                              *)

Books == [Sources -> {"never_polled", "stale", "failing", "healthy"}]
Histories == [Sources -> SUBSET Crawlers]
Loops == [Crawlers -> [asking : Sources \cup {NoSource}, left : SUBSET Ids]]

RoundsTypes ==
  /\ switch \in [Sources -> {"on", "off", "gone"}]
  /\ health \in Books
  /\ crawl \in Loops
  /\ inFlight \in BOOLEAN
  /\ underway \in Histories
  /\ restarts \in 0..MaxRestarts

(* A source is asked once in a crawl, and whoever is still to ask one that *)
(* was turned off was running when it was.                                 *)
LoopInv ==
  \A c \in Crawlers :
    /\ crawl[c].asking \notin crawl[c].left
    /\ \A s \in Sources : s \in crawl[c].left /\ ~Enabled(s) => c \in underway[s]

RoundsInv == RoundsTypes /\ LoopInv

-----------------------------------------------------------------------------
(* What a turn of the loop leaves: fewer ids, one of them being asked, and *)
(* the history of what is left as it was.                                  *)
TurnOf(c, left, were, k) ==
  /\ k \in [asking : Sources \cup {NoSource}, left : SUBSET Ids]
  /\ crawl' = [crawl EXCEPT ![c] = k]
  /\ k.left \subseteq left
  /\ k.asking \notin k.left
  /\ k.asking \in left \cup {NoSource}
  /\ \A s \in Sources : /\ were[s] \ {c} \subseteq underway'[s]
                        /\ s \in k.left => underway'[s] = were[s]

LEMMA LoopTurns ==
  ASSUME NEW c \in Crawlers, NEW left \in SUBSET Ids, NEW states \in Books,
         NEW were \in Histories, RoundsTypes,
         GoesOn(c, left, states, were)
  PROVE  /\ \E k : TurnOf(c, left, were, k)
         /\ crawl' \in Loops
         /\ health' \in Books
         /\ underway' \in Histories
         /\ inFlight' \in BOOLEAN
         /\ restarts' = restarts
<1>1. NoSource \notin Ids
  BY RoundsAssumption
<1>2. CASE Asks(c, left, states, were)
  <2>1. PICK s \in left \cap Sources :
          /\ crawl' = [crawl EXCEPT ![c] = [asking |-> s, left |-> left \ {s}]]
          /\ health' = [states EXCEPT ![s] = Polled(@)]
          /\ underway' = [were EXCEPT ![s] = @ \ {c}]
    BY <1>2 DEF Asks
  <2>2. /\ inFlight' = (inFlight \/ c = "manual")
        /\ restarts' = restarts
    BY <1>2 DEF Asks
  <2>3. TurnOf(c, left, were, [asking |-> s, left |-> left \ {s}])
    BY <2>1 DEF TurnOf, Histories
  <2>4. health' \in Books
    BY <2>1 DEF Books, Polled
  <2>5. underway' \in Histories
    BY <2>1 DEF Histories
  <2>6. crawl' \in Loops
    BY <2>1 DEF RoundsTypes, Loops
  <2> QED
    BY <2>2, <2>3, <2>4, <2>5, <2>6 DEF RoundsTypes
<1>3. CASE Stops(c, states, were)
  <2>1. /\ crawl' = [crawl EXCEPT ![c] = Idle]
        /\ health' = states
        /\ underway' = [s \in Sources |-> were[s] \ {c}]
        /\ inFlight' = (inFlight /\ c # "manual")
        /\ restarts' = restarts
    BY <1>3 DEF Stops
  <2>2. TurnOf(c, left, were, Idle)
    BY <2>1 DEF TurnOf, Idle
  <2>3. underway' \in Histories
    BY <2>1 DEF Histories
  <2>4. crawl' \in Loops
    BY <2>1 DEF RoundsTypes, Loops, Idle
  <2> QED
    BY <2>1, <2>2, <2>3, <2>4 DEF RoundsTypes
<1> QED
  BY <1>2, <1>3 DEF GoesOn, Breaks, Ends

(* The history after a source is turned off.                               *)
LEMMA PausedNowHistory ==
  ASSUME RoundsTypes, NEW s \in Sources
  PROVE  PausedNow(s) \in Histories
BY DEF PausedNow, RoundsTypes, Histories, Running

-----------------------------------------------------------------------------
(* Loops and histories of a process in which no crawl is running.          *)
LEMMA AtRest ==
  /\ [c \in Crawlers |-> Idle] \in Loops
  /\ [s \in Sources |-> {}] \in Histories
  /\ \A c \in Crawlers : [d \in Crawlers |-> Idle][c].left = {}
BY DEF Loops, Histories, Idle

LEMMA RoundsStart == ASSUME RoundsInit PROVE RoundsInv
<1>1. RoundsTypes
  <2>1. crawl \in Loops /\ underway \in Histories
    BY AtRest DEF RoundsInit
  <2>2. restarts \in 0..MaxRestarts
    BY RoundsAssumption DEF RoundsInit
  <2> QED
    BY <2>1, <2>2 DEF RoundsInit, RoundsTypes, Books
<1>2. LoopInv
  BY AtRest, Zenon DEF RoundsInit, LoopInv
<1> QED
  BY <1>1, <1>2 DEF RoundsInv


(* A crawl begins with sources that are on.                                *)
LEMMA BeginsKeeps ==
  ASSUME RoundsInv, NEW c \in Crawlers, NEW ids \in SUBSET Ids, Begins(c, ids)
  PROVE  RoundsInv'
<1> DEFINE left == ids \ Paused
<1>1. /\ GoesOn(c, left, health, underway)
      /\ switch' = switch
  BY DEF Begins
<1>2. /\ health \in Books
      /\ underway \in Histories
      /\ RoundsTypes
      /\ left \in SUBSET Ids
  BY DEF RoundsInv, RoundsTypes
<1> HIDE DEF left
<1>3. PICK k : TurnOf(c, left, underway, k)
  BY <1>1, <1>2, LoopTurns
<1>4. RoundsTypes'
  BY <1>1, <1>2, LoopTurns DEF RoundsTypes
<1>5. ASSUME NEW d \in Crawlers
      PROVE  /\ crawl'[d].asking \notin crawl'[d].left
             /\ \A s \in Sources : s \in crawl'[d].left /\ ~Enabled(s)' => d \in underway'[s]
  <2>1. CASE d = c
    <3>1. crawl'[d] = k
      BY <1>2, <1>3, <2>1 DEF TurnOf, RoundsTypes, Loops
    <3> QED
      BY <1>1, <1>3, <3>1 DEF TurnOf, left, Paused, Enabled
  <2>2. CASE d # c
    <3>1. crawl'[d] = crawl[d]
      BY <1>2, <1>3, <2>2 DEF TurnOf, RoundsTypes, Loops
    <3> QED
      BY <1>1, <1>3, <2>2, <3>1 DEF TurnOf, RoundsInv, LoopInv, Enabled
  <2> QED
    BY <2>1, <2>2
<1> QED
  BY <1>4, <1>5 DEF RoundsInv, LoopInv

(* The end of a poll, with whatever it turned off entered in the history.  *)
LEMMA PollKeeps ==
  ASSUME RoundsInv, NEW c \in Crawlers, crawl[c] # Idle, NEW states \in Books,
         NEW were \in Histories,
         switch' \in [Sources -> {"on", "off", "gone"}],
         \A d \in Crawlers, s \in Sources :
            s \in crawl[d].left /\ ~Enabled(s)' => d \in were[s],
         GoesOn(c, crawl[c].left, states, were)
  PROVE  RoundsInv'
<1>1. /\ RoundsTypes
      /\ crawl[c].left \in SUBSET Ids
  BY DEF RoundsInv, RoundsTypes, Loops
<1>2. PICK k : TurnOf(c, crawl[c].left, were, k)
  BY <1>1, LoopTurns
<1>3. RoundsTypes'
  BY <1>1, LoopTurns DEF RoundsTypes
<1>4. ASSUME NEW d \in Crawlers
      PROVE  /\ crawl'[d].asking \notin crawl'[d].left
             /\ \A s \in Sources : s \in crawl'[d].left /\ ~Enabled(s)' => d \in underway'[s]
  <2>1. CASE d = c
    <3>1. crawl'[d] = k
      BY <1>1, <1>2, <2>1 DEF TurnOf, RoundsTypes, Loops
    <3> QED
      BY <1>2, <2>1, <3>1 DEF TurnOf
  <2>2. CASE d # c
    <3>1. crawl'[d] = crawl[d]
      BY <1>1, <1>2, <2>2 DEF TurnOf, RoundsTypes, Loops
    <3> QED
      BY <1>2, <2>2, <3>1 DEF TurnOf, RoundsInv, LoopInv
  <2> QED
    BY <2>1, <2>2
<1> QED
  BY <1>3, <1>4 DEF RoundsInv, LoopInv

(* Whoever is still to ask the source that is turned off is running.       *)
LEMMA PausedNowCovers ==
  ASSUME RoundsInv, NEW s \in Sources, NEW d \in Crawlers, NEW r \in Sources,
         r \in crawl[d].left, r = s \/ ~Enabled(r)
  PROVE  d \in PausedNow(s)[r]
<1>1. crawl[d] # Idle
  BY DEF Idle
<1> QED
  BY <1>1 DEF PausedNow, Running, RoundsInv, RoundsTypes, LoopInv, Histories

-----------------------------------------------------------------------------
LEMMA AnsweredKeeps ==
  ASSUME RoundsInv, NEW c \in Crawlers, Answered(c)
  PROVE  RoundsInv'
<1> DEFINE s == crawl[c].asking
<1>1. /\ RoundsTypes
      /\ crawl[c] # Idle
  BY DEF RoundsInv, Answered, Succeeds, Fails, IsGone
<1>2. ASSUME NEW state \in {"failing", "healthy"}
      PROVE  [health EXCEPT ![s] = state] \in Books
  BY <1>1 DEF RoundsTypes, Books
<1>3. ASSUME NEW state \in {"failing", "healthy"}, UNCHANGED switch,
             GoesOn(c, crawl[c].left, [health EXCEPT ![s] = state], underway)
      PROVE  RoundsInv'
  <2>1. \A d \in Crawlers, r \in Sources :
           r \in crawl[d].left /\ ~Enabled(r)' => d \in underway[r]
    BY <1>3 DEF RoundsInv, LoopInv, Enabled
  <2> QED
    BY <1>1, <1>2, <1>3, <2>1, PollKeeps DEF RoundsTypes
<1>4. CASE IsGone(c)
  <2>1. /\ switch' = [switch EXCEPT ![s] = IF Enabled(s) THEN "gone" ELSE @]
        /\ GoesOn(c, crawl[c].left, [health EXCEPT ![s] = "failing"], PausedNow(s))
    BY <1>4 DEF IsGone
  <2>2. switch' \in [Sources -> {"on", "off", "gone"}]
    BY <1>1, <2>1 DEF RoundsTypes
  <2>3. CASE s \in Sources
    <3>1. PausedNow(s) \in Histories
      BY <1>1, <2>3, PausedNowHistory
    <3>2. \A r \in Sources : ~Enabled(r)' => r = s \/ ~Enabled(r)
      BY <1>1, <2>1 DEF RoundsTypes, Enabled
    <3>3. \A d \in Crawlers, r \in Sources :
             r \in crawl[d].left /\ ~Enabled(r)' => d \in PausedNow(s)[r]
      BY <2>3, <3>2, PausedNowCovers
    <3> QED
      BY <1>1, <1>2, <2>1, <2>2, <3>1, <3>3, PollKeeps
  <2>4. CASE s \notin Sources
    <3>1. switch' = switch /\ PausedNow(s) = underway
      BY <1>1, <2>1, <2>4 DEF RoundsTypes, Histories, PausedNow
    <3> QED
      BY <1>3, <2>1, <3>1
  <2> QED
    BY <2>3, <2>4
<1> QED
  BY <1>3, <1>4 DEF Answered, Succeeds, Fails

LEMMA ConfigureKeeps ==
  ASSUME RoundsInv, NEW s \in Sources, NEW on \in BOOLEAN, Configure(s, on)
  PROVE  RoundsInv'
<1>1. /\ switch' = [switch EXCEPT ![s] = IF on THEN "on" ELSE "off"]
      /\ underway' = IF on THEN [underway EXCEPT ![s] = {}] ELSE PausedNow(s)
      /\ UNCHANGED <<crawl, health, inFlight, restarts>>
  BY DEF Configure
<1>2. RoundsTypes'
  <2>1. underway' \in Histories
    BY <1>1, PausedNowHistory DEF RoundsInv, RoundsTypes, Histories
  <2> QED
    BY <1>1, <2>1 DEF RoundsInv, RoundsTypes
<1>3. ASSUME NEW d \in Crawlers, NEW r \in Sources, r \in crawl[d].left, ~Enabled(r)'
      PROVE  d \in underway'[r]
  <2>1. CASE on
    <3>1. r # s /\ ~Enabled(r)
      BY <1>1, <1>3, <2>1 DEF RoundsInv, RoundsTypes, Enabled
    <3> QED
      BY <1>1, <1>3, <2>1, <3>1 DEF RoundsInv, RoundsTypes, LoopInv, Histories
  <2>2. CASE ~on
    <3>1. r = s \/ ~Enabled(r)
      BY <1>1, <1>3 DEF RoundsInv, RoundsTypes, Enabled
    <3> QED
      BY <1>1, <1>3, <2>2, <3>1, PausedNowCovers
  <2> QED
    BY <2>1, <2>2
<1> QED
  BY <1>1, <1>2, <1>3 DEF RoundsInv, LoopInv

LEMMA RestartKeeps == ASSUME RoundsInv, Restart PROVE RoundsInv'
<1>1. RoundsTypes'
  <2>1. crawl' \in Loops /\ underway' \in Histories
    BY AtRest DEF Restart
  <2>2. restarts' \in 0..MaxRestarts
    BY RoundsAssumption DEF Restart, RoundsInv, RoundsTypes
  <2> QED
    BY <2>1, <2>2 DEF Restart, RoundsInv, RoundsTypes
<1>2. LoopInv'
  BY AtRest, Zenon DEF Restart, LoopInv
<1> QED
  BY <1>1, <1>2 DEF RoundsInv

(* Every crawler's every set of ids is among those known to the model.     *)
LEMMA RoundsStep == ASSUME RoundsInv, RoundsNext PROVE RoundsInv'
<1>1. CASE Nightly
  BY <1>1, BeginsKeeps DEF Nightly, Crawlers, Ids
<1>2. CASE \E ids \in Requests : CrawlNow(ids)
  <2>1. PICK ids \in Requests : CrawlNow(ids)
    BY <1>2
  <2>2. ids \in SUBSET Ids
    BY DEF Ids
  <2> QED
    BY <2>1, <2>2, BeginsKeeps DEF CrawlNow, Crawlers
<1>3. CASE \E c \in Crawlers : Answered(c)
  BY <1>3, AnsweredKeeps
<1>4. CASE \E s \in Sources, on \in BOOLEAN : Configure(s, on)
  BY <1>4, ConfigureKeeps
<1>5. CASE Decide
  BY <1>5 DEF Decide, rounds, RoundsInv, RoundsTypes, LoopInv, Enabled
<1>6. CASE Restart
  BY <1>6, RestartKeeps
<1> QED
  BY <1>1, <1>2, <1>3, <1>4, <1>5, <1>6 DEF RoundsNext

LEMMA RoundsStutter == ASSUME RoundsInv, UNCHANGED roundVars PROVE RoundsInv'
BY DEF roundVars, rounds, RoundsInv, RoundsTypes, LoopInv, Enabled

LEMMA RoundsInvariant == RoundsSpec => []RoundsInv
BY RoundsStart, RoundsStep, RoundsStutter, PTL DEF RoundsSpec

-----------------------------------------------------------------------------
(* A step by which a crawl begins to ask a source that is off.             *)
LEMMA AskingStep ==
  ASSUME RoundsInv, [RoundsNext]_roundVars, NEW c \in Crawlers, NEW s \in Sources,
         crawl[c].asking # s, crawl'[c].asking = s, ~Enabled(s)
  PROVE  c \in underway[s]
<1>1. RoundsTypes /\ NoSource # s
  BY RoundsAssumption DEF RoundsInv, Ids
<1>2. ASSUME NEW d \in Crawlers, NEW ids \in SUBSET Ids, Begins(d, ids)
      PROVE  FALSE
  <2> DEFINE left == ids \ Paused
  <2>1. GoesOn(d, left, health, underway) /\ left \in SUBSET Ids
    BY <1>2 DEF Begins
  <2> HIDE DEF left
  <2>2. PICK k : TurnOf(d, left, underway, k)
    BY <1>1, <2>1, LoopTurns DEF RoundsTypes
  <2>3. d = c /\ s \in left
    BY <1>1, <2>2 DEF TurnOf, RoundsTypes, Loops
  <2> QED
    BY <2>3 DEF left, Paused
<1>3. CASE \E d \in Crawlers : Answered(d)
  <2>1. PICK d \in Crawlers : Answered(d)
    BY <1>3
  <2>2. PICK states \in Books, were \in Histories : GoesOn(d, crawl[d].left, states, were)
    <3>1. \A state \in {"failing", "healthy"} : [health EXCEPT ![crawl[d].asking] = state] \in Books
      BY <1>1 DEF RoundsTypes, Books
    <3>2. PausedNow(crawl[d].asking) \in Histories /\ underway \in Histories
      BY <1>1 DEF RoundsTypes, Histories, PausedNow, Running
    <3> QED
      BY <2>1, <3>1, <3>2 DEF Answered, Succeeds, Fails, IsGone
  <2>3. crawl[d].left \in SUBSET Ids
    BY <1>1 DEF RoundsTypes, Loops
  <2>4. PICK k : TurnOf(d, crawl[d].left, were, k)
    BY <1>1, <2>2, <2>3, LoopTurns
  <2>5. d = c /\ s \in crawl[c].left
    BY <1>1, <2>4 DEF TurnOf, RoundsTypes, Loops
  <2> QED
    BY <2>5 DEF RoundsInv, LoopInv
<1>4. CASE Nightly
  BY <1>2, <1>4 DEF Nightly, Crawlers, Ids
<1>5. CASE \E ids \in Requests : CrawlNow(ids)
  <2>1. PICK ids \in Requests : CrawlNow(ids)
    BY <1>5
  <2>2. ids \in SUBSET Ids
    BY DEF Ids
  <2> QED
    BY <1>2, <2>1, <2>2 DEF CrawlNow, Crawlers
<1>6. CASE Restart
  BY <1>1, <1>6 DEF Restart, Idle
<1>7. CASE UNCHANGED crawl
  BY <1>7
<1> QED
  BY <1>3, <1>4, <1>5, <1>6, <1>7 DEF RoundsNext, Configure, Decide, rounds, roundVars

(* Whatever crawls overlap and whoever turns sources off, one that is off  *)
(* is asked only by a crawl that was running when it was turned off, and   *)
(* once (runCrawl's filter, stopPolling).                                  *)
THEOREM PausedSourcesAreLeftAlone == RoundsSpec => PausedIsLeftAlone
<1>1. RoundsInv /\ [RoundsNext]_roundVars =>
        [\A c \in Crawlers, s \in Sources :
            crawl[c].asking # s /\ crawl'[c].asking = s /\ ~Enabled(s) => c \in underway[s]
        ]_roundVars
  BY AskingStep
<1> QED
  BY <1>1, RoundsInvariant, PTL DEF RoundsSpec, PausedIsLeftAlone

-----------------------------------------------------------------------------
LEMMA LoopProjectsOrRests ==
  ASSUME NEW c, NEW left, NEW states, NEW were, GoesOn(c, left, states, were)
  PROVE  Reproject \/ UNCHANGED vars
BY DEF GoesOn, Asks, Breaks, Ends, vars

(* Two crawls, however they interleave, break or restart, beside decisions *)
(* are to the corpus and the cycles what DeadlineCycles says: publications,*)
(* removals, and projections of everything (runCrawl, reprojectAllCycles). *)
THEOREM ImplementsCycles == RoundsSpec => Spec
<1>1. RoundsInit => Init
  BY DEF RoundsInit
<1>2. [RoundsNext]_roundVars => [Next]_vars
  <2> SUFFICES ASSUME [RoundsNext]_roundVars
               PROVE  Next \/ UNCHANGED vars
    OBVIOUS
  <2>1. CASE Nightly \/ \E ids \in Requests : CrawlNow(ids)
    BY <2>1, LoopProjectsOrRests DEF Nightly, CrawlNow, Begins, Next
  <2>2. CASE \E c \in Crawlers : Answered(c)
    BY <2>2, LoopProjectsOrRests DEF Answered, Succeeds, Fails, IsGone, Next
  <2>3. CASE Decide
    BY <2>3 DEF Decide, Next
  <2>4. CASE Restart \/ (\E s \in Sources, on \in BOOLEAN : Configure(s, on))
             \/ UNCHANGED roundVars
    BY <2>4 DEF Restart, Configure, roundVars, vars
  <2> QED
    BY <2>1, <2>2, <2>3, <2>4 DEF RoundsNext
<1> QED
  BY <1>1, <1>2, PTL DEF RoundsSpec, Spec

(* Hence who owns its dates, or rides a published programme that does, has *)
(* them whatever the crawls are doing.                                     *)
THEOREM DatesStayRight == RoundsSpec => []DirectRidersMatch
BY ImplementsCycles, DatesAreRight, PTL

(* Nor does anything the crawls do make right dates wrong: beside them, as  *)
(* among the decisions alone, only what becomes of a ridden programme does. *)
THEOREM OnlyDecisionsGoWrong == RoundsSpec => OnlyRiddenGoWrong
BY ImplementsCycles, RiddenGoWrong, PTL

(* The columns and the loops keep their types.                             *)
THEOREM RoundsTypeCorrect == RoundsSpec => []RoundsTypeOK
<1>1. RoundsInv /\ TypeOK => RoundsTypeOK
  BY DEF RoundsInv, RoundsTypes, RoundsTypeOK, Books, Histories, Loops
<1> QED
  BY <1>1, RoundsInvariant, ImplementsCycles, CyclesTypeCorrect, PTL
=============================================================================
