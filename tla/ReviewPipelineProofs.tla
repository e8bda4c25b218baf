------------------------ MODULE ReviewPipelineProofs ------------------------
(***************************************************************************)
(* Invariants of ReviewPipeline for every set of programmes, users, crawls *)
(* and verifications.                                                      *)
(***************************************************************************)
EXTENDS ReviewPipeline, FiniteSetTheorems, WellFoundedInduction, TLAPS

---------------------------------------------------------------------------
(* Operators *)

\* An event with a candidate names the programme the candidate is about.
NamesItsProgram(e) == e.candidate # Nothing => e.program \in Programs

\* What a crawl finds is a set of change events, and each proposal among them
\* names its programme: diffPrograms stamps programId on all it emits.
LEMMA CrawlEventsTyped ==
    ASSUME NEW next \in [Programs -> Record \cup {Nothing}], NEW now \in 1..MaxInstants,
           corpus \in [Programs -> Record \cup {Nothing}]
    PROVE  \A e \in CrawlEvents(next, now) : e \in EventType /\ NamesItsProgram(e)
<1>1. \A p \in Programs : PublishedHere[p] \in Record \cup {Nothing}
  BY DEF PublishedHere
<1>2. \A records, p : p \in Stated(records) <=> p \in Programs /\ records[p] # Nothing
  BY DEF Stated
<1>3. \A r \in Record : r.terms \in Terms /\ r.status \in Statuses
  BY DEF Record
<1>4. Cardinality(Stated(next)) \in Nat
  BY ConstantsAssumption, FS_Subset, FS_CardinalityType DEF ConstantsAssumption, Stated
<1>5. \A e \in YieldAlarm(next, now) : e \in EventType /\ NamesItsProgram(e)
  BY <1>4 DEF YieldAlarm, Event, EventType, Kinds, NamesItsProgram
<1>6. \A e \in DiffPrograms(PublishedHere, next, now) : e \in EventType /\ NamesItsProgram(e)
  <2> SUFFICES ASSUME NEW e \in DiffPrograms(PublishedHere, next, now)
               PROVE  e \in EventType /\ NamesItsProgram(e)
    OBVIOUS
  <2>1. CASE \E p \in Stated(next) : e = Event(now, "new", p, Nothing, Nothing, next[p])
    BY <1>2, <2>1 DEF Event, EventType, Kinds, NamesItsProgram
  <2>2. CASE \E p \in Stated(PublishedHere) :
               e = Event(now, "vanished", p, Nothing, Nothing, PublishedHere[p])
    BY <1>1, <1>2, <2>2 DEF Event, EventType, Kinds, NamesItsProgram
  <2>3. CASE \E p \in Stated(PublishedHere) \cap Stated(next) :
               e = Event(now, "terms_changed", p, PublishedHere[p].terms, next[p].terms, next[p])
    BY <1>1, <1>2, <1>3, <2>3 DEF Event, EventType, Kinds, NamesItsProgram
  <2>4. CASE \E p \in Stated(PublishedHere) \cap Stated(next) :
               e = Event(now, "status_changed", p, PublishedHere[p].status, next[p].status, next[p])
    BY <1>1, <1>2, <1>3, <2>4 DEF Event, EventType, Kinds, NamesItsProgram
  <2> QED
    BY <2>1, <2>2, <2>3, <2>4 DEF DiffPrograms
<1> QED
  BY <1>5, <1>6 DEF CrawlEvents

\* A drain writes unread notices to users, about events it was given.
LEMMA DeliveriesTyped ==
    ASSUME NEW due
    PROVE  \A n \in Deliveries(due) : \E u \in Users, e \in due : n = Notice(u, e)
BY DEF Deliveries, Told, Announced

\* Only events that were gated and have a candidate pass into the queue.
LEMMA PassingProposes ==
    ASSUME NEW e, NEW rejects, Passes(e, rejects)
    PROVE  e.candidate # Nothing /\ (IsDoNotPublish(e.candidate) => e.kind = "vanished")
BY DEF Passes, Spared, IsDoNotPublish

---------------------------------------------------------------------------
(* The type invariant.  It is not inductive as it stands: the key a         *)
(* rejection remembers and the row an approval writes have a programme only *)
(* because every queued event proposes something, and what a crawl holds    *)
(* across its awaits passed the gates before.                               *)

EventsNamePrograms == \A e \in events : NamesItsProgram(e)
ItemsPropose == \A i \in items : i.event \in events /\ i.event.candidate # Nothing

\* What a crawl has gated and not yet queued is stored and has a candidate.
Gated(e) ==
    /\ e \in events /\ e.candidate # Nothing
    /\ IsDoNotPublish(e.candidate) => e.kind = "vanished"
HeldIsGated ==
    \A r \in Runs : run[r].phase = "scoring" =>
        /\ Gated(run[r].held)
        /\ \A e \in run[r].todo : Gated(e)

TypeInv == TypeOK /\ EventsNamePrograms /\ ItemsPropose /\ HeldIsGated

LEMMA InitTyped == Init => TypeInv
<1> SUFFICES ASSUME Init PROVE TypeInv
  OBVIOUS
<1>1. TypeOK
  BY ConstantsAssumption
  DEF Init, TypeOK, ConstantsAssumption, RunType, VerifyType, Visible
<1>2. \A r \in Runs : run[r].phase = "idle"
  BY DEF Init, Idle
<1> QED
  BY <1>1, <1>2 DEF Init, TypeInv, EventsNamePrograms, ItemsPropose, HeldIsGated

\* A drain keeps the digest and the ledger what they are.
NoticeType == [user : Users, event : EventType, read : BOOLEAN]

LEMMA DrainTyped ==
    ASSUME TypeOK, Drain
    PROVE  fanned' \in SUBSET EventType /\ digest' \in SUBSET NoticeType
<1>1. Undelivered \subseteq EventType
  BY DEF TypeOK, Undelivered
<1>2. \A u \in Users, e \in EventType : Notice(u, e) \in NoticeType
  BY DEF Notice, NoticeType
<1>3. Deliveries(Undelivered) \in SUBSET NoticeType
  BY <1>1, <1>2, DeliveriesTyped
<1>4. events \in SUBSET EventType /\ digest \in SUBSET NoticeType
  BY DEF TypeOK, NoticeType
<1> QED
  BY <1>3, <1>4 DEF Drain

LEMMA VisibleTyped ==
    ASSUME NEW records \in [Programs -> Record \cup {Nothing}]
    PROVE  Visible(records) \in [Programs -> Record \cup {Nothing}]
BY DEF Visible

\* Score, from a stored set of proposals, leaves the run idle or holding gated
\* events.
LEMMA ScoreTyped ==
    ASSUME TypeOK, NEW r \in Runs, run[r] # Idle, NEW todo \in SUBSET EventType,
           Score(r, todo)
    PROVE  /\ run' \in [Runs -> RunType]
           /\ \A q \in Runs \ {r} : run'[q] = run[q]
           /\ run'[r].phase = "scoring" =>
                 /\ run'[r].held \in todo /\ run'[r].todo \subseteq todo
                 /\ Passes(run'[r].held, rejected)
                 /\ \A e \in run'[r].todo : Passes(e, rejected)
<1> DEFINE passing == {e \in todo : Passes(e, rejected)}
<1>1. run \in [Runs -> RunType] /\ run[r].at \in 1..MaxInstants
  BY DEF TypeOK, RunType
<1>2. CASE passing = {}
  <2>1. run' = [run EXCEPT ![r] = Idle]
    BY <1>2 DEF Score
  <2> QED
    BY <1>1, <2>1 DEF RunType, Idle
<1>3. CASE passing # {}
  <2>1. PICK e \in passing :
          run' = [run EXCEPT ![r] = [phase |-> "scoring", at |-> run[r].at,
                                     held |-> e, todo |-> passing \ {e}]]
    BY <1>3 DEF Score
  <2> QED
    BY <1>1, <2>1 DEF RunType
<1> QED
  BY <1>2, <1>3

\* A decision keeps the queue's rows proposals about their own programme.
LEMMA DecideTyped ==
    ASSUME TypeOK, ItemsPropose, NEW i \in items, NEW candidate \in Record,
           NEW decision \in Decisions, Decide(i, decision, candidate), events' = events
    PROVE  /\ items' \in SUBSET [event : EventType, candidate : Record, decision : Decisions]
           /\ ItemsPropose'
           /\ decisions' \in Nat
<1> DEFINE j == [i EXCEPT !.decision = decision, !.candidate = candidate]
           Row == [event : EventType, candidate : Record, decision : Decisions]
<1>1. i \in Row
  BY DEF TypeOK
<1>2. j \in Row /\ j.event = i.event
  BY <1>1
<1>3. items' = (items \ {i}) \cup {j} /\ decisions' = decisions + 1
  BY DEF Decide
<1>4. \A k \in items' : k \in items \/ k = j
  BY <1>3
<1>5. items \in SUBSET Row /\ decisions \in Nat
  BY DEF TypeOK
<1>6. items' \in SUBSET Row /\ decisions' \in Nat
  <2> HIDE DEF j, Row
  <2> QED BY <1>2, <1>3, <1>4, <1>5
<1>7. ItemsPropose'
  BY <1>2, <1>4 DEF ItemsPropose
<1> QED
  BY <1>6, <1>7

\* The programme and the candidate an item is decided about.
LEMMA ItemNamesRecord ==
    ASSUME TypeInv, NEW i \in items
    PROVE  i.event.program \in Programs /\ i.event.candidate \in Record /\ i.candidate \in Record
<1>1. i.event \in events /\ i.event.candidate # Nothing /\ i.candidate \in Record
  BY DEF TypeInv, TypeOK, ItemsPropose
<1>2. i.event \in EventType
  BY <1>1 DEF TypeInv, TypeOK
<1> QED
  BY <1>1, <1>2 DEF TypeInv, EventsNamePrograms, NamesItsProgram, EventType

LEMMA StepTyped == TypeInv /\ [Next]_vars => TypeInv'
<1> SUFFICES ASSUME TypeInv, [Next]_vars PROVE TypeInv'
  OBVIOUS
<1> USE DEF TypeInv
<1>1. CASE UNCHANGED vars
  BY <1>1 DEF vars, corpusVars, reviewVars, toldVars, TypeOK, EventsNamePrograms, ItemsPropose,
              HeldIsGated, Gated
<1>2. ASSUME NEW p \in Programs, FunderEdits(p) PROVE TypeInv'
  BY <1>2 DEF FunderEdits, corpusVars, reviewVars, toldVars, TypeOK, EventsNamePrograms,
              ItemsPropose, HeldIsGated, Gated
<1>3. ASSUME NEW u \in Users, NEW p \in Programs, Star(u, p) \/ Unstar(u, p) PROVE TypeInv'
  BY <1>3 DEF Star, Unstar, corpusVars, reviewVars, toldVars, TypeOK, EventsNamePrograms,
              ItemsPropose, HeldIsGated, Gated
<1>4. CASE ReadDigest
  BY <1>4, DrainTyped DEF ReadDigest, corpusVars, reviewVars, toldVars, TypeOK,
              EventsNamePrograms, ItemsPropose, HeldIsGated, Gated, NoticeType
<1>5. ASSUME NEW n \in digest, MarkRead(n) PROVE TypeInv'
  BY <1>5 DEF MarkRead, corpusVars, reviewVars, toldVars, TypeOK,
              EventsNamePrograms, ItemsPropose, HeldIsGated, Gated
<1>6. ASSUME NEW r \in Runs, BeginPoll(r) PROVE TypeInv'
  BY <1>6, ConstantsAssumption DEF BeginPoll, ConstantsAssumption, RunType, corpusVars, reviewVars, toldVars, TypeOK,
              EventsNamePrograms, ItemsPropose, HeldIsGated, Gated
<1>7. ASSUME NEW r \in Runs, PollFails(r) PROVE TypeInv'
  BY <1>7 DEF PollFails, Idle, RunType, corpusVars, reviewVars, toldVars, TypeOK,
              EventsNamePrograms, ItemsPropose, HeldIsGated, Gated
<1>8. ASSUME NEW v \in Verifiers, NEW p \in Programs, StartVerify(v, p) PROVE TypeInv'
  BY <1>8, ConstantsAssumption DEF StartVerify, ConstantsAssumption, VerifyType, corpusVars, reviewVars, toldVars, TypeOK,
              EventsNamePrograms, ItemsPropose, HeldIsGated, Gated
<1>9. ASSUME NEW v \in Verifiers, VerifyFails(v) PROVE TypeInv'
  BY <1>9 DEF VerifyFails, VerifyType, corpusVars, reviewVars, toldVars, TypeOK,
              EventsNamePrograms, ItemsPropose, HeldIsGated, Gated
<1>10. ASSUME NEW r \in Runs, Diff(r) PROVE TypeInv'
  <2> DEFINE found == CrawlEvents(run[r].page, run[r].at)
  <2>1. run[r].page \in [Programs -> Record \cup {Nothing}] /\ run[r].at \in 1..MaxInstants
    BY <1>10 DEF Diff, TypeOK, RunType, Idle
  <2>2. \A e \in found : e \in EventType /\ NamesItsProgram(e)
    BY <2>1, CrawlEventsTyped DEF TypeOK
  <2>3. events' = events \cup found
    BY <1>10 DEF Diff
  <2>4. EventsNamePrograms' /\ events' \in SUBSET EventType
    BY <2>2, <2>3 DEF EventsNamePrograms, TypeOK, NamesItsProgram
  <2>5. CASE PreScores
    <3>1. items' = items /\ Score(r, found) /\ run[r] # Idle
      BY <1>10, <2>5 DEF Diff, Idle
    <3>2. HeldIsGated' /\ run' \in [Runs -> RunType]
      BY <2>2, <2>3, <3>1, ScoreTyped, PassingProposes DEF HeldIsGated, Gated
    <3> QED
      BY <1>10, <2>3, <2>4, <3>1, <3>2 DEF Diff, TypeOK, ItemsPropose, corpusVars, toldVars
  <2>6. CASE ~PreScores
    <3>1. /\ items' = items \cup {NewItem(e) : e \in {f \in found : Passes(f, rejected)}}
          /\ run' = [run EXCEPT ![r] = Idle]
      BY <1>10, <2>6 DEF Diff
    <3>2. \A e \in found : Passes(e, rejected) =>
             NewItem(e) \in [event : EventType, candidate : Record, decision : Decisions]
      BY <2>2, PassingProposes DEF NewItem, EventType, Decisions
    <3>3. items' \in SUBSET [event : EventType, candidate : Record, decision : Decisions]
      BY <3>1, <3>2 DEF TypeOK
    <3>4. ItemsPropose'
      BY <2>3, <3>1, PassingProposes DEF ItemsPropose, NewItem
    <3>5. HeldIsGated' /\ run' \in [Runs -> RunType]
      BY <2>3, <3>1 DEF TypeOK, RunType, Idle, HeldIsGated, Gated
    <3> QED
      BY <1>10, <2>4, <3>3, <3>4, <3>5 DEF Diff, TypeOK, corpusVars, toldVars
  <2> QED
    BY <2>5, <2>6
<1>11. ASSUME NEW r \in Runs, Scored(r) PROVE TypeInv'
  <2> DEFINE held == run[r].held
             todo == run[r].todo
  <2>1. /\ held \in EventType /\ todo \in SUBSET EventType /\ run[r] # Idle
        /\ Gated(held) /\ \A e \in todo : Gated(e)
    BY <1>11 DEF Scored, TypeOK, RunType, Idle, HeldIsGated
  <2>2. Score(r, todo) /\ items' = items \cup {NewItem(held)} /\ events' = events
    BY <1>11 DEF Scored
  <2>3. NewItem(held) \in [event : EventType, candidate : Record, decision : Decisions]
    BY <2>1 DEF NewItem, Gated, EventType, Decisions
  <2>4. HeldIsGated' /\ run' \in [Runs -> RunType]
    BY <2>1, <2>2, ScoreTyped DEF HeldIsGated, Gated
  <2>5. ItemsPropose'
    BY <2>1, <2>2 DEF ItemsPropose, NewItem, Gated
  <2> QED
    BY <1>11, <2>2, <2>3, <2>4, <2>5
    DEF Scored, TypeOK, EventsNamePrograms, corpusVars, toldVars
<1>12. ASSUME NEW i \in items, Approve(i) PROVE TypeInv'
  <2>1. i.event.program \in Programs /\ i.candidate \in Record
    BY ItemNamesRecord
  <2>2. Drain /\ Decide(i, "approved", i.candidate) /\ Reindex
    BY <1>12 DEF Approve
  <2>3. /\ corpus' \in [Programs -> Record \cup {Nothing}]
        /\ keyed' \in SUBSET Programs /\ watches' \in SUBSET (Users \X Programs)
    BY <1>12, <2>1 DEF Approve, Publish, Withdraw, TypeOK
  <2>4. browse' \in [Programs -> Record \cup {Nothing}]
    BY <2>2, <2>3, VisibleTyped DEF Reindex
  <2>5. ItemsPropose' /\ decisions' \in Nat
        /\ items' \in SUBSET [event : EventType, candidate : Record, decision : Decisions]
    BY <1>12, <2>1, <2>2, DecideTyped DEF Approve, Decisions
  <2> QED
    BY <1>12, <2>2, <2>3, <2>4, <2>5, DrainTyped
    DEF Approve, TypeOK, NoticeType, EventsNamePrograms, HeldIsGated, Gated
<1>13. ASSUME NEW i \in items, NEW edited \in Record, Edit(i, edited) PROVE TypeInv'
  <2>1. i.event.program \in Programs
    BY ItemNamesRecord
  <2>2. Drain /\ Decide(i, "edited", edited) /\ Reindex
    BY <1>13 DEF Edit
  <2>3. /\ corpus' \in [Programs -> Record \cup {Nothing}]
        /\ keyed' \in SUBSET Programs /\ watches' = watches
    BY <1>13, <2>1 DEF Edit, Publish, TypeOK
  <2>4. browse' \in [Programs -> Record \cup {Nothing}]
    BY <2>2, <2>3, VisibleTyped DEF Reindex
  <2>5. ItemsPropose' /\ decisions' \in Nat
        /\ items' \in SUBSET [event : EventType, candidate : Record, decision : Decisions]
    BY <1>13, <2>2, DecideTyped DEF Edit, Decisions
  <2> QED
    BY <1>13, <2>2, <2>3, <2>4, <2>5, DrainTyped
    DEF Edit, TypeOK, NoticeType, EventsNamePrograms, HeldIsGated, Gated
<1>14. ASSUME NEW i \in items, Reject(i) PROVE TypeInv'
  <2>1. i.event.program \in Programs /\ i.event.candidate \in Record /\ i.candidate \in Record
    BY ItemNamesRecord
  <2>2. RejectKey(i.event) \in Programs \X Terms
    BY <2>1 DEF RejectKey, Record
  <2>3. ItemsPropose' /\ decisions' \in Nat
        /\ items' \in SUBSET [event : EventType, candidate : Record, decision : Decisions]
    BY <1>14, <2>1, DecideTyped DEF Reject, Decisions
  <2>4. rejected' \in SUBSET (Programs \X Terms)
    BY <1>14, <2>2 DEF Reject, TypeOK
  <2> QED
    BY <1>14, <2>3, <2>4
    DEF Reject, TypeOK, EventsNamePrograms, HeldIsGated, Gated, corpusVars, toldVars
<1>15. ASSUME NEW v \in Verifiers, FinishVerify(v) PROVE TypeInv'
  <2> DEFINE p == verify[v].program
             found == VerifyEvents(p, verify[v].at)
             due == Undelivered \cup found
  <2>1. p \in Programs /\ verify[v].at \in 1..MaxInstants /\ verify[v].snapshot \in Record
    BY <1>15 DEF FinishVerify, TypeOK, VerifyType, Idle
  <2>2. page[p] # Nothing => page[p].terms \in Terms
    BY <2>1 DEF TypeOK, Record
  <2>3. \A e \in found : e \in EventType /\ NamesItsProgram(e)
    BY <2>1, <2>2 DEF VerifyEvents, Event, EventType, Kinds, NamesItsProgram, TypeOK
  <2>4. /\ events' = events \cup found /\ fanned' = events'
        /\ digest' = digest \cup Deliveries(due)
        /\ corpus' = [corpus EXCEPT ![p] = verify[v].snapshot]
        /\ provenance' = IF page[p] = Nothing THEN provenance
                         ELSE [provenance EXCEPT ![p] = page[p].terms]
        /\ browse' = Visible(corpus')
    BY <1>15 DEF FinishVerify, Reindex
  <2>5. EventsNamePrograms' /\ events' \in SUBSET EventType
    BY <2>3, <2>4 DEF EventsNamePrograms, TypeOK, NamesItsProgram
  <2>6. digest' \in SUBSET NoticeType
    <3>1. \A u \in Users, e \in EventType : Notice(u, e) \in NoticeType
      BY DEF Notice, NoticeType
    <3>2. due \subseteq EventType
      BY <2>3 DEF Undelivered, TypeOK
    <3>3. digest \in SUBSET NoticeType
      BY DEF TypeOK, NoticeType
    <3> QED
      BY <2>4, <3>1, <3>2, <3>3, DeliveriesTyped
  <2>7. corpus' \in [Programs -> Record \cup {Nothing}]
    BY <2>1, <2>4 DEF TypeOK
  <2>8. browse' \in [Programs -> Record \cup {Nothing}]
    BY <2>4, <2>7, VisibleTyped
  <2>9. provenance' \in [Programs -> Terms \cup {Nothing}]
    BY <2>1, <2>2, <2>4 DEF TypeOK
  <2>10. verify' \in [Verifiers -> VerifyType]
    BY <1>15 DEF FinishVerify, TypeOK, VerifyType
  <2>11. ItemsPropose' /\ HeldIsGated'
    BY <1>15, <2>4 DEF FinishVerify, ItemsPropose, HeldIsGated, Gated, reviewVars
  <2>12. UNCHANGED <<page, keyed, items, rejected, decisions, watches, clock, run>>
    BY <1>15 DEF FinishVerify, reviewVars
  <2> QED
    BY <2>4, <2>5, <2>6, <2>7, <2>8, <2>9, <2>10, <2>11, <2>12 DEF TypeOK, NoticeType
<1>16. CASE Restart
  <2>1. Drain /\ browse' = Visible(corpus) /\ run' = [r \in Runs |-> Idle]
        /\ verify' = [v \in Verifiers |-> Idle]
    BY <1>16 DEF Restart
  <2>2. browse' \in [Programs -> Record \cup {Nothing}]
    BY <2>1, VisibleTyped DEF TypeOK
  <2>3. run' \in [Runs -> RunType] /\ verify' \in [Verifiers -> VerifyType]
    BY <2>1 DEF RunType, VerifyType
  <2>4. HeldIsGated'
    BY <2>1 DEF HeldIsGated, Idle
  <2> QED
    BY <1>16, <2>1, <2>2, <2>3, <2>4, DrainTyped
    DEF Restart, TypeOK, NoticeType, EventsNamePrograms, ItemsPropose, reviewVars
<1> QED
  BY <1>1, <1>2, <1>3, <1>4, <1>5, <1>6, <1>7, <1>8, <1>9, <1>10, <1>11, <1>12, <1>13, <1>14,
     <1>15, <1>16 DEF Next

\* Every table, and what a crawl or a verification holds between two awaits,
\* keeps its shape in every reachable state.
THEOREM TypeCorrect == Spec => []TypeOK
<1>1. TypeInv => TypeOK
  BY DEF TypeInv
<1> QED
  BY <1>1, InitTyped, StepTyped, PTL DEF Spec

LEMMA Typed == Spec => []TypeInv
BY InitTyped, StepTyped, PTL DEF Spec

---------------------------------------------------------------------------
(* Browse *)

\* Whatever decided, verified or restarted last, the browse page lists the
\* corpus without its suppressed records.
THEOREM BrowseIsFaithful == Spec => []BrowseMirrorsCorpus
<1>1. Init => BrowseMirrorsCorpus
  BY DEF Init, BrowseMirrorsCorpus
<1>2. BrowseMirrorsCorpus /\ [Next]_vars => BrowseMirrorsCorpus'
  <2> SUFFICES ASSUME BrowseMirrorsCorpus, [Next]_vars,
                      ~ (browse' = Visible(corpus'))
               PROVE  FALSE
    BY DEF BrowseMirrorsCorpus
  <2>1. ~ UNCHANGED <<corpus, browse>>
    BY DEF BrowseMirrorsCorpus
  <2>2. CASE UNCHANGED vars
    BY <2>1, <2>2 DEF vars, corpusVars
  <2>3. ASSUME NEW r \in Runs, BeginPoll(r) \/ PollFails(r) \/ Diff(r) \/ Scored(r) PROVE FALSE
    BY <2>1, <2>3 DEF BeginPoll, PollFails, Diff, Scored, corpusVars
  <2>4. ASSUME NEW i \in items, Approve(i) \/ Reject(i) \/ (\E e \in Record : Edit(i, e))
        PROVE  FALSE
    BY <2>1, <2>4 DEF Approve, Reject, Edit, Reindex, corpusVars
  <2>5. ASSUME NEW v \in Verifiers,
               VerifyFails(v) \/ FinishVerify(v) \/ (\E p \in Programs : StartVerify(v, p))
        PROVE  FALSE
    BY <2>1, <2>5 DEF VerifyFails, FinishVerify, StartVerify, Reindex, corpusVars
  <2>6. CASE Restart
    BY <2>6 DEF Restart
  <2>7. CASE ReadDigest \/ \E n \in digest : MarkRead(n)
    BY <2>1, <2>7 DEF ReadDigest, MarkRead, corpusVars
  <2>8. ASSUME NEW p \in Programs, FunderEdits(p) \/ \E u \in Users : Star(u, p) \/ Unstar(u, p)
        PROVE  FALSE
    BY <2>1, <2>8 DEF FunderEdits, Star, Unstar, corpusVars
  <2> QED
    BY <2>2, <2>3, <2>4, <2>5, <2>6, <2>7, <2>8 DEF Next
<1> QED
  BY <1>1, <1>2, PTL DEF Spec

---------------------------------------------------------------------------
(* The suppression gates *)

\* What a verification holds was not suppressed when it was read.
SnapshotsAreLive ==
    \A v \in Verifiers : verify[v].phase = "fetching" => ~IsDoNotPublish(verify[v].snapshot)

\* No decision and no verification puts a suppressed record into the corpus:
\* the backstops of approve and edit hold on their own, whatever was queued.
THEOREM SuppressedStaysUnpublished == Spec => NothingSuppressedIsPublished
<1>1. Init => SnapshotsAreLive
  BY DEF Init, Idle, SnapshotsAreLive
<1>2. TypeInv /\ SnapshotsAreLive /\ [Next]_vars => SnapshotsAreLive'
  <2> SUFFICES ASSUME TypeInv, SnapshotsAreLive, [Next]_vars PROVE SnapshotsAreLive'
    OBVIOUS
  <2>1. CASE UNCHANGED verify
    BY <2>1 DEF SnapshotsAreLive
  <2>2. ASSUME NEW v \in Verifiers, NEW p \in Programs, StartVerify(v, p)
        PROVE  SnapshotsAreLive'
    BY <2>2 DEF StartVerify, SnapshotsAreLive, TypeInv, TypeOK
  <2>3. ASSUME NEW v \in Verifiers, VerifyFails(v) \/ FinishVerify(v) PROVE SnapshotsAreLive'
    BY <2>3 DEF VerifyFails, FinishVerify, Idle, SnapshotsAreLive, TypeInv, TypeOK
  <2>4. CASE Restart
    BY <2>4 DEF Restart, Idle, SnapshotsAreLive
  <2>5. CASE ReadDigest \/ \E n \in digest : MarkRead(n)
    BY <2>1, <2>5 DEF ReadDigest, MarkRead
  <2>6. ASSUME NEW r \in Runs, BeginPoll(r) \/ PollFails(r) \/ Diff(r) \/ Scored(r)
        PROVE  SnapshotsAreLive'
    BY <2>1, <2>6 DEF BeginPoll, PollFails, Diff, Scored
  <2>7. ASSUME NEW i \in items, Approve(i) \/ Reject(i) \/ (\E e \in Record : Edit(i, e))
        PROVE  SnapshotsAreLive'
    BY <2>1, <2>7 DEF Approve, Reject, Edit
  <2>8. ASSUME NEW p \in Programs, FunderEdits(p) \/ \E u \in Users : Star(u, p) \/ Unstar(u, p)
        PROVE  SnapshotsAreLive'
    BY <2>1, <2>8 DEF FunderEdits, Star, Unstar
  <2> QED
    BY <2>1, <2>2, <2>3, <2>4, <2>5, <2>6, <2>7, <2>8 DEF Next, vars
<1>3. TypeInv /\ SnapshotsAreLive /\ [Next]_vars =>
        [\A p \in Programs : IsDoNotPublish(corpus'[p]) => corpus'[p] = corpus[p]]_vars
  <2> SUFFICES ASSUME TypeInv, SnapshotsAreLive, Next,
                      NEW p \in Programs, IsDoNotPublish(corpus'[p]), corpus'[p] # corpus[p]
               PROVE  FALSE
    BY DEF vars, corpusVars
  <2>1. corpus' # corpus
    OBVIOUS
  <2>2. ASSUME NEW i \in items, Approve(i) PROVE FALSE
    BY <2>2 DEF Approve, Publish, Withdraw, IsDoNotPublish, TypeInv, TypeOK
  <2>3. ASSUME NEW i \in items, NEW e \in Record, Edit(i, e) PROVE FALSE
    BY <2>3 DEF Edit, Publish, TypeInv, TypeOK
  <2>4. ASSUME NEW v \in Verifiers, FinishVerify(v) PROVE FALSE
    BY <2>4 DEF FinishVerify, SnapshotsAreLive, TypeInv, TypeOK
  <2>5. ASSUME NEW r \in Runs, BeginPoll(r) \/ PollFails(r) \/ Diff(r) \/ Scored(r) PROVE FALSE
    BY <2>1, <2>5 DEF BeginPoll, PollFails, Diff, Scored, corpusVars
  <2>6. CASE \E v \in Verifiers : VerifyFails(v) \/ \E q \in Programs : StartVerify(v, q)
    BY <2>1, <2>6 DEF VerifyFails, StartVerify, corpusVars
  <2>7. CASE Restart \/ ReadDigest \/ (\E n \in digest : MarkRead(n)) \/ \E i \in items : Reject(i)
    BY <2>1, <2>7 DEF Restart, ReadDigest, MarkRead, Reject, corpusVars
  <2>8. CASE \E q \in Programs : FunderEdits(q) \/ \E u \in Users : Star(u, q) \/ Unstar(u, q)
    BY <2>1, <2>8 DEF FunderEdits, Star, Unstar, corpusVars
  <2> QED
    BY <2>2, <2>3, <2>4, <2>5, <2>6, <2>7, <2>8 DEF Next
<1> QED
  BY <1>1, <1>2, <1>3, Typed, PTL DEF Spec, NothingSuppressedIsPublished

\* What the queue proposes to publish is never suppressed, also after waiting
\* for the assist and after an edit.
THEOREM SuppressedStaysUnqueued == Spec => []NothingSuppressedIsQueued
<1>1. Init => NothingSuppressedIsQueued
  BY DEF Init, NothingSuppressedIsQueued
<1>2. TypeInv /\ NothingSuppressedIsQueued /\ [Next]_vars => NothingSuppressedIsQueued'
  <2> SUFFICES ASSUME TypeInv, NothingSuppressedIsQueued, [Next]_vars,
                      NEW i \in items', IsDoNotPublish(i.candidate)
               PROVE  i.event.kind = "vanished"
    BY DEF NothingSuppressedIsQueued
  <2>1. CASE i \in items
    BY <2>1 DEF NothingSuppressedIsQueued
  <2>2. ASSUME i \notin items PROVE items' # items
    BY <2>2
  <2>3. ASSUME NEW r \in Runs, Diff(r), i \notin items PROVE i.event.kind = "vanished"
    BY <2>2, <2>3, PassingProposes DEF Diff, NewItem
  <2>4. ASSUME NEW r \in Runs, Scored(r), i \notin items PROVE i.event.kind = "vanished"
    BY <2>4 DEF Scored, NewItem, TypeInv, HeldIsGated, Gated
  <2>5. ASSUME NEW j \in items, Approve(j) \/ Reject(j), i \notin items
        PROVE  i.event.kind = "vanished"
    <3>1. \E d \in Decisions : i = [j EXCEPT !.decision = d, !.candidate = j.candidate]
      BY <2>5 DEF Approve, Reject, Decide, Decisions
    <3>2. j \in [event : EventType, candidate : Record, decision : Decisions]
      BY DEF TypeInv, TypeOK
    <3>3. i.event = j.event /\ i.candidate = j.candidate
      BY <3>1, <3>2
    <3> QED
      BY <3>3 DEF NothingSuppressedIsQueued
  <2>6. ASSUME NEW j \in items, NEW e \in Record, Edit(j, e), i \notin items
        PROVE  FALSE
    <3>1. i = [j EXCEPT !.decision = "edited", !.candidate = e] /\ ~IsDoNotPublish(e)
      BY <2>6 DEF Edit, Decide
    <3>2. j \in [event : EventType, candidate : Record, decision : Decisions]
      BY DEF TypeInv, TypeOK
    <3>3. i.candidate = e
      BY <3>1, <3>2
    <3> QED
      BY <3>1, <3>3
  <2>7. CASE \E r \in Runs : BeginPoll(r) \/ PollFails(r)
    BY <2>1, <2>2, <2>7 DEF BeginPoll, PollFails, reviewVars
  <2>8. CASE \E v \in Verifiers :
               VerifyFails(v) \/ FinishVerify(v) \/ \E p \in Programs : StartVerify(v, p)
    BY <2>1, <2>2, <2>8 DEF VerifyFails, FinishVerify, StartVerify, reviewVars
  <2>9. CASE Restart \/ ReadDigest \/ \E n \in digest : MarkRead(n)
    BY <2>1, <2>2, <2>9 DEF Restart, ReadDigest, MarkRead, reviewVars
  <2>10. CASE \E p \in Programs : FunderEdits(p) \/ \E u \in Users : Star(u, p) \/ Unstar(u, p)
    BY <2>1, <2>2, <2>10 DEF FunderEdits, Star, Unstar, reviewVars
  <2>11. CASE UNCHANGED vars
    BY <2>1, <2>2, <2>11 DEF vars, reviewVars
  <2> QED
    BY <2>1, <2>3, <2>4, <2>5, <2>6, <2>7, <2>8, <2>9, <2>10, <2>11 DEF Next
<1> QED
  BY <1>1, <1>2, Typed, PTL DEF Spec

---------------------------------------------------------------------------
(* The delivery ledger *)

\* Drained events are ledgered in the step that delivers them.
LEMMA DrainLedgers ==
    ASSUME LedgerCoversDigest, Drain
    PROVE  (\A n \in digest' : n.event \in fanned') /\ fanned' = events
BY DeliveriesTyped DEF LedgerCoversDigest, Drain, Undelivered, Notice

\* Whatever is queued or delivered is stored, and no notice is written without
\* its ledger entry.
THEOREM LedgerIsComplete == Spec => []LedgerCoversDigest
<1>1. Init => LedgerCoversDigest
  BY DEF Init, LedgerCoversDigest
<1>2. TypeInv /\ LedgerCoversDigest /\ [Next]_vars => LedgerCoversDigest'
  <2> SUFFICES ASSUME TypeInv, TypeInv', LedgerCoversDigest, [Next]_vars
               PROVE  LedgerCoversDigest'
    BY StepTyped
  <2>1. \A i \in items' : i.event \in events'
    BY DEF TypeInv, ItemsPropose
  <2>2. CASE UNCHANGED <<digest, fanned>> /\ events \subseteq events'
    BY <2>1, <2>2 DEF LedgerCoversDigest
  <2>3. CASE Drain /\ UNCHANGED events
    BY <2>1, <2>3, DrainLedgers DEF LedgerCoversDigest
  <2>4. ASSUME NEW v \in Verifiers, FinishVerify(v) PROVE LedgerCoversDigest'
    <3> DEFINE found == VerifyEvents(verify[v].program, verify[v].at)
    <3>1. /\ events' = events \cup found /\ fanned' = events'
          /\ digest' = digest \cup Deliveries(Undelivered \cup found)
      BY <2>4 DEF FinishVerify
    <3> QED
      BY <2>1, <3>1, DeliveriesTyped DEF LedgerCoversDigest, Undelivered, Notice
  <2>5. ASSUME NEW n \in digest, MarkRead(n) PROVE LedgerCoversDigest'
    <3>1. n.event = [n EXCEPT !.read = TRUE].event
      BY DEF TypeInv, TypeOK
    <3> QED
      BY <2>1, <2>5, <3>1 DEF MarkRead, LedgerCoversDigest
  <2>6. CASE ReadDigest \/ Restart
    BY <2>3, <2>6 DEF ReadDigest, Restart
  <2>7. ASSUME NEW r \in Runs, BeginPoll(r) \/ PollFails(r) \/ Diff(r) \/ Scored(r)
        PROVE  LedgerCoversDigest'
    BY <2>2, <2>7 DEF BeginPoll, PollFails, Diff, Scored, toldVars
  <2>8. ASSUME NEW i \in items, Approve(i) \/ Reject(i) \/ (\E e \in Record : Edit(i, e))
        PROVE  LedgerCoversDigest'
    BY <2>2, <2>3, <2>8 DEF Approve, Reject, Edit, toldVars
  <2>9. CASE \E v \in Verifiers : VerifyFails(v) \/ \E p \in Programs : StartVerify(v, p)
    BY <2>2, <2>9 DEF VerifyFails, StartVerify, toldVars
  <2>10. CASE \E p \in Programs : FunderEdits(p) \/ \E u \in Users : Star(u, p) \/ Unstar(u, p)
    BY <2>2, <2>10 DEF FunderEdits, Star, Unstar, toldVars
  <2>11. CASE UNCHANGED vars
    BY <2>2, <2>11 DEF vars, toldVars
  <2> QED
    BY <2>4, <2>5, <2>6, <2>7, <2>8, <2>9, <2>10, <2>11 DEF Next
<1> QED
  BY <1>1, <1>2, Typed, PTL DEF Spec

---------------------------------------------------------------------------
(* Reject memory.  The gates are read when the crawl takes an event up, the  *)
(* item is inserted after the await: what is final is a rejection no crawl   *)
(* holds an event against.                                                   *)

\* What the loop takes up next has passed the reject memory.
LEMMA ScoreHoldsUnrejected ==
    ASSUME TypeOK, NEW r \in Runs, NEW todo, Score(r, todo), NEW q \in Runs,
           run'[q].phase = "scoring"
    PROVE  run'[q] = run[q] \/ RejectKey(run'[q].held) \notin rejected
<1> DEFINE passing == {e \in todo : Passes(e, rejected)}
<1>1. DOMAIN run = Runs
  BY DEF TypeOK
<1>2. CASE passing = {}
  BY <1>1, <1>2 DEF Score, Idle
<1>3. CASE passing # {}
  <2>1. PICK e \in passing :
          run' = [run EXCEPT ![r] = [phase |-> "scoring", at |-> run[r].at,
                                     held |-> e, todo |-> passing \ {e}]]
    BY <1>3 DEF Score
  <2>2. RejectKey(e) \notin rejected
    BY <2>1 DEF Passes
  <2> HIDE DEF passing
  <2> QED
    BY <1>1, <2>1, <2>2
<1> QED
  BY <1>2, <1>3

\* What a step without a crawl in it leaves alone, it leaves settled.
LEMMA SettledStays ==
    ASSUME NEW key, Settled(key), rejected \subseteq rejected',
           \A q \in Runs : run'[q].phase = "scoring" =>
               run'[q] = run[q] \/ RejectKey(run'[q].held) # key
    PROVE  Settled(key)'
BY DEF Settled

\* A rejection no crawl waits on is final, with or without an assist, however
\* the nightly crawl, a manual one, the verifications and the reviewers
\* interleave.
THEOREM RejectionsHold == Spec => RejectionHolds
<1>1. TypeInv /\ [Next]_vars =>
        [\A key \in rejected :
            Settled(key) =>
               /\ Settled(key)'
               /\ \A i \in items' : RejectKey(i.event) = key => QueuedIn(items, i.event)]_vars
  <2> SUFFICES ASSUME TypeInv, Next, NEW key \in rejected, Settled(key)
               PROVE  /\ Settled(key)'
                      /\ \A i \in items' : RejectKey(i.event) = key => QueuedIn(items, i.event)
    OBVIOUS
  <2> DEFINE Final ==
        /\ Settled(key)'
        /\ \A i \in items' : RejectKey(i.event) = key => QueuedIn(items, i.event)
  <2>0. /\ \A r \in Runs : run[r].phase = "scoring" => RejectKey(run[r].held) # key
        /\ DOMAIN run = Runs /\ TypeOK
    BY DEF Settled, TypeInv, TypeOK
  <2>1. CASE UNCHANGED <<items, rejected, run>>
    <3>1. Settled(key)'
      BY <2>1 DEF Settled
    <3> QED
      BY <2>1, <3>1 DEF QueuedIn
  <2>2. ASSUME NEW r \in Runs, BeginPoll(r) \/ PollFails(r) PROVE Final
    <3>1. UNCHANGED <<items, rejected>> /\ \A q \in Runs : run'[q].phase = "scoring" => run'[q] = run[q]
      BY <2>0, <2>2 DEF BeginPoll, PollFails, Idle, reviewVars
    <3>2. Settled(key)'
      BY <3>1, SettledStays
    <3> QED
      BY <3>1, <3>2 DEF QueuedIn
  <2>3. ASSUME NEW r \in Runs, Diff(r) PROVE Final
    <3> DEFINE found == CrawlEvents(run[r].page, run[r].at)
    <3>1. CASE PreScores
      <4>1. items' = items /\ Score(r, found) /\ rejected' = rejected
        BY <2>3, <3>1 DEF Diff
      <4> HIDE DEF found
      <4>2. Settled(key)'
        BY <2>0, <4>1, ScoreHoldsUnrejected, SettledStays
      <4> QED
        BY <4>1, <4>2 DEF QueuedIn
    <3>2. CASE ~PreScores
      <4>1. /\ items' = items \cup {NewItem(e) : e \in {f \in found : Passes(f, rejected)}}
            /\ run' = [run EXCEPT ![r] = Idle] /\ rejected' = rejected
        BY <2>3, <3>2 DEF Diff
      <4> HIDE DEF found
      <4>2. \A q \in Runs : run'[q].phase = "scoring" => run'[q] = run[q]
        BY <2>0, <4>1 DEF Idle
      <4>3. Settled(key)'
        BY <4>1, <4>2, SettledStays
      <4>4. ASSUME NEW i \in items', RejectKey(i.event) = key PROVE QueuedIn(items, i.event)
        BY <4>1, <4>4 DEF Passes, NewItem, QueuedIn
      <4> QED
        BY <4>3, <4>4
    <3> QED
      BY <3>1, <3>2
  <2>4. ASSUME NEW r \in Runs, Scored(r) PROVE Final
    <3>1. /\ items' = items \cup {NewItem(run[r].held)} /\ Score(r, run[r].todo)
          /\ rejected' = rejected /\ RejectKey(run[r].held) # key
      BY <2>0, <2>4 DEF Scored
    <3>2. Settled(key)'
      BY <2>0, <3>1, ScoreHoldsUnrejected, SettledStays
    <3>3. ASSUME NEW i \in items', RejectKey(i.event) = key PROVE QueuedIn(items, i.event)
      BY <3>1, <3>3 DEF NewItem, QueuedIn
    <3> QED
      BY <3>2, <3>3
  <2>5. ASSUME NEW j \in items, Approve(j) \/ Reject(j) \/ (\E e \in Record : Edit(j, e))
        PROVE  Final
    <3>1. /\ run' = run /\ rejected \subseteq rejected'
          /\ \E d, c : items' = (items \ {j}) \cup {[j EXCEPT !.decision = d, !.candidate = c]}
      BY <2>5 DEF Approve, Reject, Edit, Decide
    <3>2. j \in [event : EventType, candidate : Record, decision : Decisions]
      BY <2>0 DEF TypeOK
    <3>3. \A i \in items' : \E k \in items : i.event = k.event
      BY <3>1, <3>2
    <3>4. Settled(key)'
      BY <3>1, SettledStays
    <3> QED
      BY <3>3, <3>4 DEF QueuedIn
  <2>6. CASE \E v \in Verifiers :
               VerifyFails(v) \/ FinishVerify(v) \/ \E p \in Programs : StartVerify(v, p)
    BY <2>1, <2>6 DEF VerifyFails, FinishVerify, StartVerify, reviewVars
  <2>7. CASE Restart
    <3>1. UNCHANGED <<items, rejected>> /\ \A q \in Runs : run'[q].phase # "scoring"
      BY <2>7 DEF Restart, Idle, reviewVars
    <3>2. Settled(key)'
      BY <3>1, SettledStays
    <3> QED
      BY <3>1, <3>2 DEF QueuedIn
  <2>8. CASE ReadDigest \/ \E n \in digest : MarkRead(n)
    BY <2>1, <2>8 DEF ReadDigest, MarkRead, reviewVars
  <2>9. CASE \E p \in Programs : FunderEdits(p) \/ \E u \in Users : Star(u, p) \/ Unstar(u, p)
    BY <2>1, <2>9 DEF FunderEdits, Star, Unstar, reviewVars
  <2> QED
    BY <2>2, <2>3, <2>4, <2>5, <2>6, <2>7, <2>8, <2>9 DEF Next
<1> QED
  BY <1>1, Typed, PTL DEF Spec, RejectionHolds

---------------------------------------------------------------------------
(* Refinement *)

Proposals == {Proposed(i) : i \in items}

LEMMA SuppressedAgrees ==
    \A r \in Record \cup {Nothing} :
        IsDoNotPublish(r) <=> r \in {q \in Record : q.terms \in Tagged}
BY ConstantsAssumption DEF IsDoNotPublish, ConstantsAssumption

LEMMA ShownAgrees ==
    ASSUME NEW records \in [Programs -> Record \cup {Nothing}]
    PROVE  Visible(records) = Reviewed!Shown(records)
BY SuppressedAgrees DEF Visible, Reviewed!Shown

\* A row of the queue that proposes something is a proposal.
LEMMA RowProposes ==
    ASSUME NEW i \in [event : EventType, candidate : Record, decision : Decisions],
           NamesItsProgram(i.event), i.event.candidate # Nothing
    PROVE  Proposed(i) \in Reviewed!Proposal
BY DEF NamesItsProgram, Proposed, Reviewed!Proposal

\* A decision replaces the proposal of its item and keeps all the others.
LEMMA DecideProposes ==
    ASSUME TypeInv, NEW i \in items, NEW candidate, NEW decision, Decide(i, decision, candidate)
    PROVE  \E kept \in {Proposals, Proposals \ {Proposed(i)}} :
              Proposals' = kept \cup {[Proposed(i) EXCEPT !.record = candidate]}
<1> DEFINE j == [i EXCEPT !.decision = decision, !.candidate = candidate]
           others == {Proposed(k) : k \in items \ {i}}
<1>1. i \in [event : EventType, candidate : Record, decision : Decisions]
  BY DEF TypeInv, TypeOK
<1>2. Proposed(j) = [Proposed(i) EXCEPT !.record = candidate]
  BY <1>1 DEF Proposed
<1>3. Proposals' = others \cup {Proposed(j)}
  BY DEF Decide, Proposals
<1>4. CASE Proposed(i) \in others
  <2>1. others = Proposals
    BY <1>4 DEF Proposals
  <2> QED
    BY <1>2, <1>3, <2>1
<1>5. CASE Proposed(i) \notin others
  <2>1. others = Proposals \ {Proposed(i)}
    BY <1>5 DEF Proposals
  <2> QED
    BY <1>2, <1>3, <2>1
<1> QED
  BY <1>4, <1>5

\* Where nothing is verified, the pipeline implements ReviewedCorpus: the
\* published corpus moves only as a reviewer decides.
THEOREM ImplementsReviewedCorpus ==
    ASSUME Verifiers = {} PROVE Spec => ReviewedSpec
<1>1. Init => Reviewed!Init
  <2> SUFFICES ASSUME Init PROVE Reviewed!Init
    OBVIOUS
  <2>1. corpus \in [Programs -> Record \cup {Nothing}] /\ items = {} /\ browse = Visible(corpus)
    BY ConstantsAssumption DEF Init, ConstantsAssumption
  <2> QED
    BY <2>1, ShownAgrees DEF Reviewed!Init
<1>2. TypeInv /\ TypeInv' /\ BrowseMirrorsCorpus /\ [Next]_vars => [Reviewed!Next]_(Reviewed!vars)
  <2> SUFFICES ASSUME TypeInv, TypeInv', BrowseMirrorsCorpus, [Next]_vars
               PROVE  [Reviewed!Next]_(Reviewed!vars)
    OBVIOUS
  <2>1. CASE UNCHANGED <<corpus, items, browse>>
    BY <2>1 DEF Reviewed!vars
  <2>2. CASE items \subseteq items' /\ UNCHANGED <<corpus, browse>>
    <3>1. Proposals' \in SUBSET Reviewed!Proposal
      <4>1. \A i \in items' :
               /\ i \in [event : EventType, candidate : Record, decision : Decisions]
               /\ NamesItsProgram(i.event) /\ i.event.candidate # Nothing
        BY DEF TypeInv, TypeOK, EventsNamePrograms, ItemsPropose
      <4>2. \A i \in items' : Proposed(i) \in Reviewed!Proposal
        BY <4>1, RowProposes
      <4> QED
        BY <4>2 DEF Proposals
    <3> QED
      BY <2>2, <3>1 DEF Proposals, Reviewed!Next, Reviewed!Propose
  <2>3. ASSUME NEW i \in items, Approve(i) PROVE Reviewed!Next
    <3> DEFINE q == Proposed(i)
    <3>1. q \in Proposals /\ q.program = i.event.program /\ q.record = i.candidate
          /\ (q.removal <=> i.event.kind = "vanished")
      BY DEF Proposals, Proposed
    <3>2. corpus' \in [Programs -> Record \cup {Nothing}] /\ browse' = Reviewed!Shown(corpus')
      BY <2>3, ShownAgrees DEF Approve, Reindex, TypeInv, TypeOK
    <3>3. Proposals' = Proposals
      <4>1. PICK kept \in {Proposals, Proposals \ {q}} :
              Proposals' = kept \cup {[q EXCEPT !.record = i.candidate]}
        BY <2>3, DecideProposes DEF Approve
      <4>2. [q EXCEPT !.record = i.candidate] = q
        BY DEF Proposed
      <4> QED
        BY <3>1, <4>1, <4>2
    <3>4. CASE i.event.kind = "vanished"
      <4>1. corpus' = [corpus EXCEPT ![q.program] = Nothing]
        BY <2>3, <3>1, <3>4 DEF Approve, Withdraw
      <4>2. Reviewed!Withdraw(q)
        BY <3>1, <3>2, <3>3, <3>4, <4>1 DEF Reviewed!Withdraw, Reviewed!Write, Proposals
      <4> QED
        BY <3>1, <4>2 DEF Reviewed!Next, Proposals
    <3>5. CASE i.event.kind # "vanished"
      <4>1. corpus' = [corpus EXCEPT ![q.program] = q.record] /\ ~IsDoNotPublish(q.record)
        BY <2>3, <3>1, <3>5 DEF Approve, Publish
      <4>2. q.record \notin {r \in Record : r.terms \in Tagged}
        BY <3>1, <4>1, SuppressedAgrees
      <4>3. Reviewed!Publish(q)
        BY <3>1, <3>2, <3>3, <3>5, <4>1, <4>2 DEF Reviewed!Publish, Reviewed!Write, Proposals
      <4> QED
        BY <3>1, <4>3 DEF Reviewed!Next, Proposals
    <3> QED
      BY <3>4, <3>5
  <2>4. ASSUME NEW i \in items, NEW edited \in Record, Edit(i, edited) PROVE Reviewed!Next
    <3> DEFINE q == Proposed(i)
    <3>1. q \in Proposals /\ q.program = i.event.program
      BY DEF Proposals, Proposed
    <3>2. corpus' \in [Programs -> Record \cup {Nothing}] /\ browse' = Reviewed!Shown(corpus')
      BY <2>4, ShownAgrees DEF Edit, Reindex, TypeInv, TypeOK
    <3>3. \E kept \in {Proposals, Proposals \ {q}} :
            Proposals' = kept \cup {[q EXCEPT !.record = edited]}
      BY <2>4, DecideProposes DEF Edit
    <3>4. corpus' = [corpus EXCEPT ![q.program] = edited]
      BY <2>4, <3>1 DEF Edit, Publish
    <3>5. edited \notin {r \in Record : r.terms \in Tagged}
      BY <2>4, SuppressedAgrees DEF Edit
    <3>6. Reviewed!Amend(q, edited)
      BY <3>2, <3>3, <3>4, <3>5 DEF Reviewed!Amend, Reviewed!Write, Proposals
    <3> QED
      BY <3>1, <3>6 DEF Reviewed!Next, Proposals
  <2>5. ASSUME NEW i \in items, Reject(i) PROVE UNCHANGED Reviewed!vars
    <3> DEFINE q == Proposed(i)
    <3>1. q \in Proposals /\ [q EXCEPT !.record = i.candidate] = q
      BY DEF Proposals, Proposed
    <3>2. Proposals' = Proposals
      BY <2>5, <3>1, DecideProposes DEF Reject
    <3> QED
      BY <2>5, <3>2 DEF Reject, corpusVars, Proposals, Reviewed!vars
  <2>6. CASE \E r \in Runs : BeginPoll(r) \/ PollFails(r) \/ Diff(r) \/ Scored(r)
    BY <2>1, <2>2, <2>6 DEF BeginPoll, PollFails, Diff, Scored, corpusVars, reviewVars
  <2>7. CASE Restart \/ ReadDigest \/ \E n \in digest : MarkRead(n)
    BY <2>1, <2>7 DEF Restart, ReadDigest, MarkRead, corpusVars, reviewVars, BrowseMirrorsCorpus
  <2>8. CASE \E p \in Programs : FunderEdits(p) \/ \E u \in Users : Star(u, p) \/ Unstar(u, p)
    BY <2>1, <2>8 DEF FunderEdits, Star, Unstar, corpusVars, reviewVars
  <2>9. CASE UNCHANGED vars
    BY <2>1, <2>9 DEF vars, corpusVars, reviewVars
  <2> QED
    BY <2>3, <2>4, <2>5, <2>6, <2>7, <2>8, <2>9 DEF Next
<1> QED
  BY <1>1, <1>2, Typed, BrowseIsFaithful, PTL DEF Spec, ReviewedSpec, Reviewed!Spec

---------------------------------------------------------------------------
(* Delivery *)

\* A set of numbers that is not empty has a smallest one.
LEMMA Smallest ==
    ASSUME NEW T \in SUBSET Nat, T # {}
    PROVE  \E x \in T : \A y \in T : x <= y
<1>1. PICK x \in T : \A y \in T : ~ (<<y, x>> \in OpToRel(<, Nat))
  BY WFMin, NatLessThanWellFounded
<1>2. \A y \in T : ~ (y < x)
  BY <1>1 DEF OpToRel
<1> QED
  BY <1>2

\* Of the events a drain looks at, each one a user is to hear of is told, or
\* an older one with the same alarm is, or it already waits unread.
LEMMA DueIsTold ==
    ASSUME NEW due \in SUBSET EventType, NEW u \in Users, NEW e \in Announced(u, due)
    PROVE  \/ \E n \in digest : n.user = u /\ ~n.read /\ Alarm(n.event) = Alarm(e)
           \/ \E n \in Deliveries(due) : n.user = u /\ ~n.read /\ Alarm(n.event) = Alarm(e)
<1> DEFINE alike == {d \in Announced(u, due) : Alarm(d) = Alarm(e)}
<1>1. CASE Repeats(u, e)
  BY <1>1 DEF Repeats
<1>2. CASE ~Repeats(u, e)
  <2>1. \A d \in alike : d.at \in Nat
    BY DEF Announced, EventType
  <2>2. {d.at : d \in alike} \in SUBSET Nat /\ {d.at : d \in alike} # {}
    BY <2>1
  <2>3. PICK first \in alike : \A d \in alike : first.at <= d.at
    <3> HIDE DEF alike
    <3>1. PICK x \in {d.at : d \in alike} : \A y \in {d.at : d \in alike} : x <= y
      BY <2>2, Smallest
    <3> QED
      BY <3>1
  <2>4. ~Repeats(u, first)
    BY <1>2, <2>3 DEF Repeats
  <2>5. first \in Told(u, due)
    BY <2>3, <2>4 DEF Told
  <2>6. Notice(u, first) \in Deliveries(due)
    BY <2>5 DEF Deliveries
  <2> QED
    BY <2>3, <2>6 DEF Notice
<1> QED
  BY <1>1, <1>2

\* No event enters the ledger, which is final, while a watcher of its programme
\* has no unread notice of it.
THEOREM WatchersHear == Spec => EveryWatcherHears
<1>1. TypeInv /\ LedgerCoversDigest /\ [Next]_vars =>
        [\A e \in fanned' \ fanned, u \in Users :
            e \in Announced(u, {e}) =>
               \E n \in digest' : n.user = u /\ ~n.read /\ Alarm(n.event) = Alarm(e)]_vars
  <2> SUFFICES ASSUME TypeInv, Next, NEW e \in fanned' \ fanned, NEW u \in Users,
                      e \in Announced(u, {e})
               PROVE  \E n \in digest' : n.user = u /\ ~n.read /\ Alarm(n.event) = Alarm(e)
    OBVIOUS
  <2>1. fanned' # fanned
    OBVIOUS
  <2>2. \A due : e \in due => e \in Announced(u, due)
    BY DEF Announced
  <2>3. ASSUME NEW due \in SUBSET EventType, e \in due, digest' = digest \cup Deliveries(due)
        PROVE  \E n \in digest' : n.user = u /\ ~n.read /\ Alarm(n.event) = Alarm(e)
    BY <2>2, <2>3, DueIsTold
  <2>4. CASE Drain
    BY <2>3, <2>4 DEF Drain, Undelivered, TypeInv, TypeOK
  <2>5. ASSUME NEW v \in Verifiers, FinishVerify(v)
        PROVE  \E n \in digest' : n.user = u /\ ~n.read /\ Alarm(n.event) = Alarm(e)
    <3> DEFINE found == VerifyEvents(verify[v].program, verify[v].at)
               due == Undelivered \cup found
    <3>1. /\ events' = events \cup found /\ fanned' = events'
          /\ digest' = digest \cup Deliveries(due)
      BY <2>5 DEF FinishVerify
    <3>2. events' \in SUBSET EventType
      BY <2>5, StepTyped DEF TypeInv, TypeOK
    <3>3. due \in SUBSET EventType /\ e \in due
      BY <3>1, <3>2 DEF Undelivered
    <3> HIDE DEF due
    <3> QED
      BY <2>3, <3>1, <3>3
  <2>6. CASE ReadDigest \/ Restart
    BY <2>4, <2>6 DEF ReadDigest, Restart
  <2>7. CASE \E i \in items : Approve(i) \/ Reject(i) \/ \E r \in Record : Edit(i, r)
    BY <2>1, <2>4, <2>7 DEF Approve, Reject, Edit, toldVars
  <2>8. CASE \E r \in Runs : BeginPoll(r) \/ PollFails(r) \/ Diff(r) \/ Scored(r)
    BY <2>1, <2>8 DEF BeginPoll, PollFails, Diff, Scored, toldVars
  <2>9. CASE \E v \in Verifiers : VerifyFails(v) \/ \E p \in Programs : StartVerify(v, p)
    BY <2>1, <2>9 DEF VerifyFails, StartVerify, toldVars
  <2>10. CASE \E p \in Programs : FunderEdits(p) \/ \E w \in Users : Star(w, p) \/ Unstar(w, p)
    BY <2>1, <2>10 DEF FunderEdits, Star, Unstar, toldVars
  <2>11. CASE \E n \in digest : MarkRead(n)
    BY <2>1, <2>11 DEF MarkRead
  <2> QED
    BY <2>5, <2>6, <2>7, <2>8, <2>9, <2>10, <2>11 DEF Next
<1> QED
  BY <1>1, Typed, LedgerIsComplete, PTL DEF Spec, EveryWatcherHears

---------------------------------------------------------------------------
(* Twins.  A notice has no unread twin because a drain tells the oldest of  *)
(* the due events with one alarm, and there is one oldest: whatever one     *)
(* poll or verification found carries the instant it began, and no two of   *)
(* them share an instant.                                                   *)

\* The instants that polls and verifications still in flight will stamp.
Polling(r) == run[r].phase = "fetched"
Verifying(v) == verify[v].phase = "fetching"

InstantsApart ==
    /\ \A r, q \in Runs : Polling(r) /\ Polling(q) /\ run[r].at = run[q].at => r = q
    /\ \A v, w \in Verifiers :
          Verifying(v) /\ Verifying(w) /\ verify[v].at = verify[w].at => v = w
    /\ \A r \in Runs, v \in Verifiers :
          Polling(r) /\ Verifying(v) => run[r].at # verify[v].at

InstantsUnused ==
    /\ \A e \in events : e.at <= clock
    /\ \A r \in Runs : Polling(r) => run[r].at <= clock /\ \A e \in events : e.at # run[r].at
    /\ \A v \in Verifiers :
          Verifying(v) => verify[v].at <= clock /\ \A e \in events : e.at # verify[v].at

OneAlarmAtATime == \A d, e \in events : d.at = e.at /\ Alarm(d) = Alarm(e) => d = e

Dated == InstantsApart /\ InstantsUnused /\ OneAlarmAtATime

\* One look at a page raises no alarm twice and stamps one instant on all.
LEMMA CrawlRaisesOnce ==
    ASSUME NEW next, NEW now, NEW d \in CrawlEvents(next, now), NEW e \in CrawlEvents(next, now)
    PROVE  d.at = now /\ (Alarm(d) = Alarm(e) => d = e)
<1>1. Alarm(d) = Alarm(e) =>
        d.kind = e.kind /\ d.program = e.program /\ d.before = e.before /\ d.after = e.after
  BY DEF Alarm
<1>2. ASSUME NEW c \in CrawlEvents(next, now)
      PROVE  \/ c = Event(now, "parse_yield_dropped", Nothing, Nothing,
                           Cardinality(Stated(next)), Nothing)
             \/ \E p \in Programs : c = Event(now, "new", p, Nothing, Nothing, next[p])
             \/ \E p \in Programs :
                   c = Event(now, "vanished", p, Nothing, Nothing, PublishedHere[p])
             \/ \E p \in Programs :
                   c = Event(now, "terms_changed", p, PublishedHere[p].terms, next[p].terms, next[p])
             \/ \E p \in Programs :
                   c = Event(now, "status_changed", p, PublishedHere[p].status, next[p].status, next[p])
  <2>1. CASE c \in YieldAlarm(next, now)
    BY <2>1 DEF YieldAlarm
  <2>2. CASE c \in DiffPrograms(PublishedHere, next, now)
    BY <2>2 DEF DiffPrograms, Stated
  <2> QED
    BY <2>1, <2>2 DEF CrawlEvents
<1> HIDE DEF PublishedHere
<1>3. d.at = now
  BY <1>2 DEF Event
<1>4. ASSUME Alarm(d) = Alarm(e) PROVE d = e
  BY <1>1, <1>2, <1>4 DEF Event
<1> QED
  BY <1>3, <1>4

LEMMA VerifyRaisesOnce ==
    ASSUME NEW p, NEW now, NEW d \in VerifyEvents(p, now), NEW e \in VerifyEvents(p, now)
    PROVE  d.at = now /\ d = e
BY DEF VerifyEvents, Event

LEMMA StepDated == TypeInv /\ Dated /\ [Next]_vars => Dated'
<1> SUFFICES ASSUME TypeInv, Dated, [Next]_vars PROVE Dated'
  OBVIOUS
<1> USE DEF Polling, Verifying
<1>0. clock \in Nat /\ (\A e \in events : e.at \in Nat)
  BY ConstantsAssumption DEF TypeInv, TypeOK, EventType, ConstantsAssumption
<1>1. CASE UNCHANGED <<events, clock, run, verify>>
  BY <1>1 DEF Dated, InstantsApart, InstantsUnused, OneAlarmAtATime
<1>2. ASSUME NEW r \in Runs, BeginPoll(r) PROVE Dated'
  <2>1. /\ clock' = clock + 1 /\ UNCHANGED <<events, verify>>
        /\ run'[r].at = clock + 1 /\ \A q \in Runs \ {r} : run'[q] = run[q]
    BY <1>2 DEF BeginPoll, TypeInv, TypeOK
  <2>2. \A q \in Runs : Polling(q) => run[q].at \in Nat
    BY DEF TypeInv, TypeOK, RunType, Idle
  <2>3. \A v \in Verifiers : Verifying(v) => verify[v].at \in Nat
    BY DEF TypeInv, TypeOK, VerifyType, Idle
  <2>4. InstantsApart'
    BY <1>0, <2>1, <2>2, <2>3 DEF Dated, InstantsApart, InstantsUnused
  <2>5. InstantsUnused'
    BY <1>0, <2>1, <2>2, <2>3 DEF Dated, InstantsUnused
  <2> QED
    BY <2>1, <2>4, <2>5 DEF Dated, OneAlarmAtATime
<1>3. ASSUME NEW v \in Verifiers, NEW p \in Programs, StartVerify(v, p) PROVE Dated'
  <2>1. /\ clock' = clock + 1 /\ UNCHANGED <<events, run>>
        /\ verify'[v].at = clock + 1 /\ \A w \in Verifiers \ {v} : verify'[w] = verify[w]
    BY <1>3 DEF StartVerify, TypeInv, TypeOK
  <2>2. \A q \in Runs : Polling(q) => run[q].at \in Nat
    BY DEF TypeInv, TypeOK, RunType, Idle
  <2>3. \A w \in Verifiers : Verifying(w) => verify[w].at \in Nat
    BY DEF TypeInv, TypeOK, VerifyType, Idle
  <2>4. InstantsApart'
    BY <1>0, <2>1, <2>2, <2>3 DEF Dated, InstantsApart, InstantsUnused
  <2>5. InstantsUnused'
    BY <1>0, <2>1, <2>2, <2>3 DEF Dated, InstantsUnused
  <2> QED
    BY <2>1, <2>4, <2>5 DEF Dated, OneAlarmAtATime
<1>4. ASSUME NEW r \in Runs, PollFails(r) \/ Scored(r) PROVE Dated'
  <2>1. /\ UNCHANGED <<events, clock, verify>>
        /\ run'[r].phase # "fetched" /\ \A q \in Runs \ {r} : run'[q] = run[q]
    BY <1>4 DEF PollFails, Scored, Score, Idle, TypeInv, TypeOK
  <2> QED
    BY <2>1 DEF Dated, InstantsApart, InstantsUnused, OneAlarmAtATime
<1>5. ASSUME NEW r \in Runs, Diff(r) PROVE Dated'
  <2> DEFINE found == CrawlEvents(run[r].page, run[r].at)
  <2>1. /\ Polling(r) /\ UNCHANGED <<clock, verify>> /\ events' = events \cup found
        /\ run'[r].phase # "fetched" /\ \A q \in Runs \ {r} : run'[q] = run[q]
    BY <1>5 DEF Diff, Score, Idle, TypeInv, TypeOK
  <2>2. \A e \in found : e.at = run[r].at
    BY CrawlRaisesOnce
  <2>3. InstantsApart'
    BY <2>1 DEF Dated, InstantsApart
  <2>4. InstantsUnused'
    BY <2>1, <2>2 DEF Dated, InstantsApart, InstantsUnused
  <2>5. OneAlarmAtATime'
    BY <2>1, <2>2, CrawlRaisesOnce DEF Dated, InstantsUnused, OneAlarmAtATime
  <2> QED
    BY <2>3, <2>4, <2>5 DEF Dated
<1>6. ASSUME NEW v \in Verifiers, VerifyFails(v) PROVE Dated'
  <2>1. /\ UNCHANGED <<events, clock, run>>
        /\ verify'[v].phase = "idle" /\ \A w \in Verifiers \ {v} : verify'[w] = verify[w]
    BY <1>6 DEF VerifyFails, Idle, TypeInv, TypeOK
  <2> QED
    BY <2>1 DEF Dated, InstantsApart, InstantsUnused, OneAlarmAtATime
<1>7. ASSUME NEW v \in Verifiers, FinishVerify(v) PROVE Dated'
  <2> DEFINE found == VerifyEvents(verify[v].program, verify[v].at)
  <2>1. /\ Verifying(v) /\ UNCHANGED <<clock, run>> /\ events' = events \cup found
        /\ verify'[v].phase = "idle" /\ \A w \in Verifiers \ {v} : verify'[w] = verify[w]
    BY <1>7 DEF FinishVerify, Idle, TypeInv, TypeOK
  <2>2. \A e \in found : e.at = verify[v].at
    BY VerifyRaisesOnce
  <2>3. InstantsApart'
    BY <2>1 DEF Dated, InstantsApart
  <2>4. InstantsUnused'
    BY <2>1, <2>2 DEF Dated, InstantsApart, InstantsUnused
  <2>5. OneAlarmAtATime'
    BY <2>1, <2>2, VerifyRaisesOnce DEF Dated, InstantsUnused, OneAlarmAtATime
  <2> QED
    BY <2>3, <2>4, <2>5 DEF Dated
<1>8. CASE Restart
  <2>1. /\ UNCHANGED <<events, clock>>
        /\ (\A r \in Runs : run'[r].phase = "idle") /\ \A v \in Verifiers : verify'[v].phase = "idle"
    BY <1>8 DEF Restart, Idle
  <2> QED
    BY <2>1 DEF Dated, InstantsApart, InstantsUnused, OneAlarmAtATime
<1>9. CASE \E i \in items : Approve(i) \/ Reject(i) \/ \E e \in Record : Edit(i, e)
  BY <1>1, <1>9 DEF Approve, Reject, Edit
<1>10. CASE ReadDigest \/ \E n \in digest : MarkRead(n)
  BY <1>1, <1>10 DEF ReadDigest, MarkRead
<1>11. CASE \E p \in Programs : FunderEdits(p) \/ \E u \in Users : Star(u, p) \/ Unstar(u, p)
  BY <1>1, <1>11 DEF FunderEdits, Star, Unstar
<1>12. CASE UNCHANGED vars
  BY <1>1, <1>12 DEF vars
<1> QED
  BY <1>2, <1>3, <1>4, <1>5, <1>6, <1>7, <1>8, <1>9, <1>10, <1>11, <1>12 DEF Next

\* A drain adds no twin to a digest that has none.
LEMMA DeliveriesTwinless ==
    ASSUME NEW due \in SUBSET EventType, NoUnreadTwins,
           \A d, e \in due : d.at = e.at /\ Alarm(d) = Alarm(e) => d = e,
           digest' = digest \cup Deliveries(due)
    PROVE  NoUnreadTwins'
<1> SUFFICES ASSUME NEW n \in digest', NEW m \in digest', n.user = m.user, ~n.read, ~m.read,
                    Alarm(n.event) = Alarm(m.event)
             PROVE  n = m
  BY DEF NoUnreadTwins, Alarm
<1>1. ASSUME NEW k \in Deliveries(due)
      PROVE  \E u \in Users : \E e \in Told(u, due) : k = Notice(u, e)
  BY DEF Deliveries
<1>2. ASSUME NEW k \in Deliveries(due), NEW l \in digest, k.user = l.user, ~l.read,
             Alarm(k.event) = Alarm(l.event)
      PROVE  FALSE
  <2>1. PICK u \in Users, e \in due : e \in Told(u, due) /\ k = Notice(u, e)
    BY <1>1 DEF Told, Announced
  <2>2. ~Repeats(u, e) /\ k.user = u /\ k.event = e
    BY <2>1 DEF Told, Notice
  <2> QED
    BY <1>2, <2>2 DEF Repeats
<1>3. CASE n \in Deliveries(due) /\ m \in Deliveries(due)
  <2>1. PICK u \in Users, e \in due : e \in Told(u, due) /\ n = Notice(u, e)
    BY <1>1, <1>3 DEF Told, Announced
  <2>2. PICK w \in Users, d \in due : d \in Told(w, due) /\ m = Notice(w, d)
    BY <1>1, <1>3 DEF Told, Announced
  <2>3. u = w /\ Alarm(e) = Alarm(d)
    BY <2>1, <2>2 DEF Notice
  <2>4. /\ e \in due /\ d \in due /\ e \in Announced(u, due) /\ d \in Announced(u, due)
        /\ e.at \in Nat /\ d.at \in Nat
    BY <2>1, <2>2, <2>3 DEF Told, Announced, EventType
  <2>5. e.at <= d.at /\ d.at <= e.at
    BY <2>1, <2>2, <2>3, <2>4 DEF Told
  <2>6. e = d
    BY <2>3, <2>4, <2>5
  <2> QED
    BY <2>1, <2>2, <2>3, <2>6
<1>4. CASE n \in digest /\ m \in digest
  BY <1>4 DEF NoUnreadTwins
<1> QED
  BY <1>2, <1>3, <1>4

\* However often one alarm is raised again and drained, by whichever of the
\* four callers that drain, no digest holds it unread twice.
THEOREM DigestHasNoTwins == Spec => []NoUnreadTwins
<1>1. Init => Dated /\ NoUnreadTwins
  BY DEF Init, Idle, Dated, InstantsApart, InstantsUnused, OneAlarmAtATime, Polling, Verifying,
         NoUnreadTwins
<1>2. TypeInv /\ Dated /\ NoUnreadTwins /\ [Next]_vars => NoUnreadTwins'
  <2> SUFFICES ASSUME TypeInv, Dated, NoUnreadTwins, [Next]_vars PROVE NoUnreadTwins'
    OBVIOUS
  <2>1. CASE UNCHANGED digest
    BY <2>1 DEF NoUnreadTwins, Alarm
  <2>2. CASE Drain
    BY <2>2, DeliveriesTwinless DEF Drain, Undelivered, Dated, OneAlarmAtATime, TypeInv, TypeOK
  <2>3. ASSUME NEW v \in Verifiers, FinishVerify(v) PROVE NoUnreadTwins'
    <3> DEFINE found == VerifyEvents(verify[v].program, verify[v].at)
               due == Undelivered \cup found
    <3>1. events' = events \cup found /\ digest' = digest \cup Deliveries(due)
      BY <2>3 DEF FinishVerify
    <3>2. (TypeInv /\ Dated)'
      BY <2>3, StepTyped, StepDated
    <3>3. due \subseteq events' /\ events' \in SUBSET EventType
      BY <3>1, <3>2 DEF Undelivered, TypeInv, TypeOK
    <3>4. \A d, e \in due : d.at = e.at /\ Alarm(d) = Alarm(e) => d = e
      BY <3>2, <3>3 DEF Dated, OneAlarmAtATime, Alarm
    <3> HIDE DEF due
    <3> QED
      BY <3>1, <3>3, <3>4, DeliveriesTwinless
  <2>4. ASSUME NEW n \in digest, MarkRead(n) PROVE NoUnreadTwins'
    <3>1. [n EXCEPT !.read = TRUE].read
      BY DEF TypeInv, TypeOK
    <3> QED
      BY <2>4, <3>1 DEF MarkRead, NoUnreadTwins, Alarm
  <2>5. CASE ReadDigest \/ Restart
    BY <2>2, <2>5 DEF ReadDigest, Restart
  <2>6. CASE \E i \in items : Approve(i) \/ Reject(i) \/ \E r \in Record : Edit(i, r)
    BY <2>1, <2>2, <2>6 DEF Approve, Reject, Edit, toldVars
  <2>7. CASE \E r \in Runs : BeginPoll(r) \/ PollFails(r) \/ Diff(r) \/ Scored(r)
    BY <2>1, <2>7 DEF BeginPoll, PollFails, Diff, Scored, toldVars
  <2>8. CASE \E v \in Verifiers : VerifyFails(v) \/ \E p \in Programs : StartVerify(v, p)
    BY <2>1, <2>8 DEF VerifyFails, StartVerify, toldVars
  <2>9. CASE \E p \in Programs : FunderEdits(p) \/ \E w \in Users : Star(w, p) \/ Unstar(w, p)
    BY <2>1, <2>9 DEF FunderEdits, Star, Unstar, toldVars
  <2>10. CASE UNCHANGED vars
    BY <2>1, <2>10 DEF vars, toldVars
  <2> QED
    BY <2>3, <2>4, <2>5, <2>6, <2>7, <2>8, <2>9, <2>10 DEF Next
<1> QED
  BY <1>1, <1>2, Typed, StepDated, PTL DEF Spec

---------------------------------------------------------------------------
(* Differences.  Between two awaits of the queueing, every event of the     *)
(* crawl that proposes something is still to be queued, is queued, or is     *)
(* withheld for a reason that does not lapse: reject memory only grows, and  *)
(* a decided item keeps its event.                                          *)

Scoring(r) == run[r].phase = "scoring"
Left(r) == run[r].todo \cup {run[r].held}

Accounted(e) ==
    \/ QueuedIn(items, e)
    \/ Spared(e.candidate) /\ e.kind # "vanished"
    \/ RejectKey(e) \in rejected

ScoringApart ==
    \A r, q \in Runs : Scoring(r) /\ Scoring(q) /\ run[r].at = run[q].at => r = q

LeftToQueue ==
    \A r \in Runs : Scoring(r) =>
        /\ run[r].held \notin run[r].todo
        /\ \A e \in Left(r) : e \in events /\ e.at = run[r].at /\ ~QueuedIn(items, e)

NothingForgotten ==
    \A r \in Runs : Scoring(r) =>
        \A e \in events :
            e.at = run[r].at /\ e.candidate # Nothing => e \in Left(r) \/ Accounted(e)

CrawlsAccount == ScoringApart /\ LeftToQueue /\ NothingForgotten

\* A turn of the loop leaves what passes the gates, one of it held.
LEMMA ScoreSplits ==
    ASSUME TypeOK, NEW r \in Runs, NEW todo, Score(r, todo)
    PROVE  /\ \A q \in Runs \ {r} : run'[q] = run[q]
           /\ LET passing == {e \in todo : Passes(e, rejected)}
              IN  \/ run'[r] = Idle /\ passing = {}
                  \/ /\ Scoring(r)' /\ run'[r].at = run[r].at
                     /\ Left(r)' = passing /\ run'[r].held \notin run'[r].todo
<1> DEFINE passing == {e \in todo : Passes(e, rejected)}
<1>1. DOMAIN run = Runs
  BY DEF TypeOK
<1>2. CASE passing = {}
  BY <1>1, <1>2 DEF Score
<1>3. CASE passing # {}
  <2>1. PICK e \in passing :
          run' = [run EXCEPT ![r] = [phase |-> "scoring", at |-> run[r].at,
                                     held |-> e, todo |-> passing \ {e}]]
    BY <1>3 DEF Score
  <2> HIDE DEF passing
  <2>2. /\ run'[r].phase = "scoring" /\ run'[r].at = run[r].at
        /\ run'[r].held = e /\ run'[r].todo = passing \ {e}
        /\ \A q \in Runs \ {r} : run'[q] = run[q]
    BY <1>1, <2>1
  <2> QED
    BY <2>2 DEF Scoring, Left, passing
<1> QED
  BY <1>2, <1>3

\* What the gates withhold is accounted for.
LEMMA WithheldIsAccounted ==
    ASSUME NEW e, e.candidate # Nothing, ~Passes(e, rejected)
    PROVE  Accounted(e)
BY DEF Passes, Accounted

\* What is accounted for stays so while the queue keeps its events.
LEMMA AccountedStays ==
    ASSUME NEW e, Accounted(e), rejected \subseteq rejected',
           QueuedIn(items, e) => QueuedIn(items', e)
    PROVE  Accounted(e)'
BY DEF Accounted

\* A decided item keeps its event.
LEMMA DecidedKeepsEvent ==
    ASSUME TypeOK, NEW i \in items, NEW decision, NEW candidate,
           Decide(i, decision, candidate), NEW e
    PROVE  QueuedIn(items', e) <=> QueuedIn(items, e)
<1> DEFINE j == [i EXCEPT !.decision = decision, !.candidate = candidate]
<1>1. items' = (items \ {i}) \cup {j} /\ j.event = i.event
  <2>1. i \in [event : EventType, candidate : Record, decision : Decisions]
    BY DEF TypeOK
  <2> QED
    BY <2>1 DEF Decide
<1> HIDE DEF j
<1> QED
  BY <1>1 DEF QueuedIn

\* Scoring runs whose loop did not move, beside a queue that keeps its events
\* and gains none of theirs, and events that gain none of theirs.
LEMMA StillAccounts ==
    ASSUME CrawlsAccount,
           \A r \in Runs : Scoring(r)' => run'[r] = run[r],
           events \subseteq events', rejected \subseteq rejected',
           \A r \in Runs, e \in events' \ events :
               Scoring(r)' => e.candidate = Nothing \/ e.at # run[r].at,
           \A r \in Runs : Scoring(r)' => \A e \in Left(r) : ~QueuedIn(items', e),
           \A e \in events : QueuedIn(items, e) => QueuedIn(items', e)
    PROVE  CrawlsAccount'
<1>1. ASSUME NEW r \in Runs, Scoring(r)'
      PROVE  Scoring(r) /\ Left(r)' = Left(r) /\ run'[r] = run[r]
  BY <1>1 DEF Scoring, Left
<1>2. ScoringApart'
  BY <1>1 DEF CrawlsAccount, ScoringApart
<1>3. LeftToQueue'
  BY <1>1 DEF CrawlsAccount, LeftToQueue
<1>4. ASSUME NEW r \in Runs, Scoring(r)', NEW e \in events', e.at = run'[r].at, e.candidate # Nothing
      PROVE  e \in Left(r)' \/ Accounted(e)'
  <2>1. Scoring(r) /\ Left(r)' = Left(r) /\ e.at = run[r].at
    BY <1>1, <1>4
  <2>2. e \in events
    BY <1>4, <2>1
  <2>3. e \in Left(r) \/ Accounted(e)
    BY <1>4, <2>1, <2>2 DEF CrawlsAccount, NothingForgotten
  <2> QED
    BY <2>1, <2>2, <2>3, AccountedStays
<1>5. NothingForgotten'
  BY <1>4 DEF NothingForgotten
<1> QED
  BY <1>2, <1>3, <1>5 DEF CrawlsAccount

\* What a crawl finds is at its own instant, which nothing stored shares; so
\* nothing it finds is queued, and no crawl still queueing shares it.
LEMMA FoundIsFresh ==
    ASSUME TypeInv, Dated, CrawlsAccount, NEW r \in Runs, run[r].phase = "fetched"
    PROVE  /\ \A e \in CrawlEvents(run[r].page, run[r].at) :
                 e.at = run[r].at /\ e \notin events /\ ~QueuedIn(items, e)
           /\ \A e \in events : e.at # run[r].at
           /\ \A q \in Runs : Scoring(q) => run[q].at # run[r].at
<1>1. \A e \in CrawlEvents(run[r].page, run[r].at) : e.at = run[r].at
  BY CrawlRaisesOnce
<1>2. \A e \in events : e.at # run[r].at
  BY DEF Dated, InstantsUnused, Polling
<1>3. \A i \in items : i.event \in events
  BY DEF TypeInv, ItemsPropose
<1>4. ASSUME NEW q \in Runs, Scoring(q)
      PROVE  run[q].at # run[r].at
  <2>1. run[q].held \in events /\ run[q].held.at = run[q].at
    BY <1>4 DEF CrawlsAccount, LeftToQueue, Left
  <2> QED
    BY <1>2, <2>1
<1> QED
  BY <1>1, <1>2, <1>3, <1>4 DEF QueuedIn

\* The crawl that diffs its page accounts for all it found.
LEMMA DiffAccounts ==
    ASSUME TypeInv, Dated, CrawlsAccount, NEW r \in Runs, Diff(r)
    PROVE  /\ CrawlsAccount'
           /\ run'[r] = Idle => \A e \in events' :
                e.at = run[r].at /\ e.candidate # Nothing => Accounted(e)'
<1> DEFINE found == CrawlEvents(run[r].page, run[r].at)
           passing == {e \in found : Passes(e, rejected)}
<1>1. /\ run[r].phase = "fetched" /\ events' = events \cup found /\ rejected' = rejected
      /\ TypeOK /\ DOMAIN run = Runs
  BY DEF Diff, TypeInv, TypeOK
<1>2. /\ \A e \in found : e.at = run[r].at /\ e \notin events /\ ~QueuedIn(items, e)
      /\ \A e \in events : e.at # run[r].at
      /\ \A q \in Runs : Scoring(q) => run[q].at # run[r].at
  BY <1>1, FoundIsFresh
<1> HIDE DEF found
<1>3. \A e \in events' : e.at = run[r].at => e \in found
  BY <1>1, <1>2
<1>4. \A e \in found : e.candidate # Nothing => e \in passing \/ Accounted(e)
  BY WithheldIsAccounted
<1>5. CASE ~PreScores
  <2>1. /\ items' = items \cup {NewItem(e) : e \in passing}
        /\ run' = [run EXCEPT ![r] = Idle]
    BY <1>5 DEF Diff, found
  <2>2. \A e : QueuedIn(items, e) => QueuedIn(items', e)
    BY <2>1 DEF QueuedIn
  <2>3. \A e \in passing : QueuedIn(items', e)
    <3> HIDE DEF passing
    <3>1. ASSUME NEW e \in passing PROVE NewItem(e) \in items' /\ NewItem(e).event = e
      BY <2>1, <3>1 DEF NewItem
    <3> QED
      BY <3>1 DEF QueuedIn
  <2>4. \A e : QueuedIn(items', e) /\ ~QueuedIn(items, e) => e \in passing
    BY <2>1 DEF QueuedIn, NewItem
  <2>5. ASSUME NEW e \in events', e.at = run[r].at, e.candidate # Nothing
        PROVE  Accounted(e)'
    <3>1. e \in passing \/ Accounted(e)
      BY <1>3, <1>4, <2>5
    <3> QED
      BY <1>1, <2>2, <2>3, <3>1 DEF Accounted
  <2>6. CrawlsAccount'
    <3>1. \A q \in Runs : Scoring(q)' => q # r /\ run'[q] = run[q] /\ Scoring(q)
      BY <1>1, <2>1 DEF Scoring, Idle
    <3>2. \A q \in Runs, e \in events' \ events :
            Scoring(q)' => e.candidate = Nothing \/ e.at # run[q].at
      BY <1>1, <1>2, <3>1
    <3>3. \A q \in Runs : Scoring(q)' => \A e \in Left(q) : ~QueuedIn(items', e)
      BY <1>2, <2>4, <3>1 DEF CrawlsAccount, LeftToQueue
    <3> QED
      BY <1>1, <2>2, <3>1, <3>2, <3>3, StillAccounts
  <2> QED
    BY <2>5, <2>6
<1>6. CASE PreScores
  <2>1. items' = items /\ Score(r, found)
    BY <1>6 DEF Diff, found
  <2>2. /\ \A q \in Runs \ {r} : run'[q] = run[q]
        /\ \/ run'[r] = Idle /\ passing = {}
           \/ /\ Scoring(r)' /\ run'[r].at = run[r].at
              /\ Left(r)' = passing /\ run'[r].held \notin run'[r].todo
    BY <1>1, <2>1, ScoreSplits
  <2>3. \A e : Accounted(e) => Accounted(e)'
    BY <1>1, <2>1 DEF Accounted
  <2>4. \A q \in Runs \ {r} : (Scoring(q)' <=> Scoring(q)) /\ Left(q)' = Left(q)
    BY <2>2 DEF Scoring, Left
  <2>5. ScoringApart'
    <3>1. \A q \in Runs : run'[q].phase = "scoring" =>
            /\ q = r => run'[q].at = run[r].at
            /\ q # r => run'[q] = run[q] /\ Scoring(q) /\ run[q].at # run[r].at
      BY <1>2, <2>2 DEF Scoring, Idle
    <3> QED
      BY <3>1 DEF CrawlsAccount, ScoringApart, Scoring
  <2>6. ASSUME NEW q \in Runs, Scoring(q)'
        PROVE  /\ run'[q].held \notin run'[q].todo
               /\ \A e \in Left(q)' : e \in events' /\ e.at = run'[q].at /\ ~QueuedIn(items', e)
    <3>1. CASE q = r
      <4>1. Left(r)' = passing /\ run'[r].at = run[r].at /\ run'[r].held \notin run'[r].todo
        BY <2>2, <2>6, <3>1 DEF Scoring, Idle
      <4> QED
        BY <1>1, <1>2, <2>1, <3>1, <4>1
    <3>2. CASE q # r
      BY <1>1, <2>1, <2>2, <2>4, <2>6, <3>2 DEF CrawlsAccount, LeftToQueue
    <3> QED
      BY <3>1, <3>2
  <2>7. ASSUME NEW q \in Runs, Scoring(q)', NEW e \in events', e.at = run'[q].at,
               e.candidate # Nothing
        PROVE  e \in Left(q)' \/ Accounted(e)'
    <3>1. CASE q = r
      <4>1. Left(r)' = passing /\ run'[r].at = run[r].at
        BY <2>2, <2>7, <3>1 DEF Scoring, Idle
      <4> QED
        BY <1>3, <1>4, <2>3, <2>7, <3>1, <4>1
    <3>2. CASE q # r
      <4>1. Scoring(q) /\ run'[q] = run[q] /\ Left(q)' = Left(q)
        BY <2>2, <2>4, <2>7, <3>2
      <4>2. e \in events
        BY <1>1, <1>2, <2>7, <4>1
      <4> QED
        BY <2>3, <2>7, <4>1, <4>2 DEF CrawlsAccount, NothingForgotten
    <3> QED
      BY <3>1, <3>2
  <2>8. CrawlsAccount'
    BY <2>5, <2>6, <2>7 DEF CrawlsAccount, LeftToQueue, NothingForgotten
  <2>9. ASSUME run'[r] = Idle, NEW e \in events', e.at = run[r].at, e.candidate # Nothing
        PROVE  Accounted(e)'
    <3>1. passing = {}
      BY <2>2, <2>9 DEF Scoring, Idle
    <3> QED
      BY <1>3, <1>4, <2>3, <2>9, <3>1
  <2> QED
    BY <2>8, <2>9
<1> QED
  BY <1>5, <1>6

\* So does a crawl whose assist answered.
LEMMA ScoredAccounts ==
    ASSUME TypeInv, CrawlsAccount, NEW r \in Runs, Scored(r)
    PROVE  /\ CrawlsAccount'
           /\ run'[r] = Idle => \A e \in events' :
                e.at = run[r].at /\ e.candidate # Nothing => Accounted(e)'
<1> DEFINE passing == {e \in run[r].todo : Passes(e, rejected)}
<1>1. /\ Scoring(r) /\ items' = items \cup {NewItem(run[r].held)} /\ Score(r, run[r].todo)
      /\ events' = events /\ rejected' = rejected /\ TypeOK /\ DOMAIN run = Runs
  BY DEF Scored, Scoring, TypeInv, TypeOK
<1>2. /\ \A q \in Runs \ {r} : run'[q] = run[q]
      /\ \/ run'[r] = Idle /\ passing = {}
         \/ /\ Scoring(r)' /\ run'[r].at = run[r].at
            /\ Left(r)' = passing /\ run'[r].held \notin run'[r].todo
  BY <1>1, ScoreSplits
<1>3. /\ \A e : QueuedIn(items, e) => QueuedIn(items', e)
      /\ QueuedIn(items', run[r].held)
      /\ \A e : QueuedIn(items', e) /\ ~QueuedIn(items, e) => e = run[r].held
  <2>1. NewItem(run[r].held).event = run[r].held
    BY DEF NewItem
  <2> QED
    BY <1>1, <2>1 DEF QueuedIn
<1>4. ASSUME NEW e, Accounted(e) PROVE Accounted(e)'
  BY <1>1, <1>3, <1>4 DEF Accounted
<1>6. \A q \in Runs \ {r} : (Scoring(q)' <=> Scoring(q)) /\ Left(q)' = Left(q)
  BY <1>2 DEF Scoring, Left
<1>7. /\ run[r].held \notin run[r].todo
      /\ \A e \in Left(r) : e \in events /\ e.at = run[r].at /\ ~QueuedIn(items, e)
  BY <1>1 DEF CrawlsAccount, LeftToQueue
<1>8. \A e \in events : e.at = run[r].at /\ e.candidate # Nothing =>
        e \in passing \/ Accounted(e)'
  <2>1. \A e \in run[r].todo : e.candidate # Nothing => e \in passing \/ Accounted(e)
    BY WithheldIsAccounted
  <2>2. \A e \in events : e.at = run[r].at /\ e.candidate # Nothing =>
          e \in Left(r) \/ Accounted(e)
    BY <1>1 DEF CrawlsAccount, NothingForgotten
  <2>3. ASSUME NEW e \in events, e.at = run[r].at, e.candidate # Nothing
        PROVE  e \in passing \/ Accounted(e)'
    <3>1. CASE e \in run[r].todo
      BY <1>4, <2>1, <2>3, <3>1
    <3>2. CASE e = run[r].held
      BY <1>3, <3>2 DEF Accounted
    <3>3. CASE e \notin Left(r)
      BY <1>4, <2>2, <2>3, <3>3
    <3> QED
      BY <3>1, <3>2, <3>3 DEF Left
  <2> QED
    BY <2>3
<1>9. ScoringApart'
  <2>1. \A q \in Runs : run'[q].phase = "scoring" =>
          /\ q = r => run'[q].at = run[r].at /\ Scoring(q)
          /\ q # r => run'[q] = run[q] /\ Scoring(q)
    BY <1>1, <1>2 DEF Scoring, Idle
  <2> QED
    BY <2>1 DEF CrawlsAccount, ScoringApart, Scoring
<1>10. ASSUME NEW q \in Runs, Scoring(q)'
       PROVE  /\ run'[q].held \notin run'[q].todo
              /\ \A e \in Left(q)' : e \in events' /\ e.at = run'[q].at /\ ~QueuedIn(items', e)
  <2>1. CASE q = r
    <3>1. Left(r)' = passing /\ run'[r].at = run[r].at /\ run'[r].held \notin run'[r].todo
      BY <1>2, <1>10, <2>1 DEF Scoring, Idle
    <3>2. \A e \in passing : e \in Left(r) /\ e # run[r].held
      BY <1>7 DEF Left
    <3> QED
      BY <1>1, <1>3, <1>7, <2>1, <3>1, <3>2
  <2>2. CASE q # r
    <3>1. Scoring(q) /\ run'[q] = run[q] /\ Left(q)' = Left(q)
      BY <1>2, <1>6, <1>10, <2>2
    <3>2. run[q].at # run[r].at
      BY <1>1, <2>2, <3>1 DEF CrawlsAccount, ScoringApart
    <3>3. run[r].held.at = run[r].at
      BY <1>7 DEF Left
    <3> QED
      BY <1>1, <1>3, <3>1, <3>2, <3>3 DEF CrawlsAccount, LeftToQueue
  <2> QED
    BY <2>1, <2>2
<1>11. ASSUME NEW q \in Runs, Scoring(q)', NEW e \in events', e.at = run'[q].at,
              e.candidate # Nothing
       PROVE  e \in Left(q)' \/ Accounted(e)'
  <2>1. CASE q = r
    <3>1. Left(r)' = passing /\ run'[r].at = run[r].at
      BY <1>2, <1>11, <2>1 DEF Scoring, Idle
    <3> QED
      BY <1>1, <1>8, <1>11, <2>1, <3>1
  <2>2. CASE q # r
    <3>1. Scoring(q) /\ run'[q] = run[q] /\ Left(q)' = Left(q)
      BY <1>2, <1>6, <1>11, <2>2
    <3> QED
      BY <1>1, <1>4, <1>11, <3>1 DEF CrawlsAccount, NothingForgotten
  <2> QED
    BY <2>1, <2>2
<1>12. CrawlsAccount'
  BY <1>9, <1>10, <1>11 DEF CrawlsAccount, LeftToQueue, NothingForgotten
<1>13. ASSUME run'[r] = Idle, NEW e \in events', e.at = run[r].at, e.candidate # Nothing
       PROVE  Accounted(e)'
  <2>1. passing = {}
    BY <1>2, <1>13 DEF Scoring, Idle
  <2> QED
    BY <1>1, <1>8, <1>13, <2>1
<1> QED
  BY <1>12, <1>13

\* No step forgets an event of a crawl that is still queueing.
LEMMA StepAccounts == TypeInv /\ Dated /\ CrawlsAccount /\ [Next]_vars => CrawlsAccount'
<1> SUFFICES ASSUME TypeInv, Dated, CrawlsAccount, [Next]_vars PROVE CrawlsAccount'
  OBVIOUS
<1>0. TypeOK /\ DOMAIN run = Runs
  BY DEF TypeInv, TypeOK
<1>a. \A r \in Runs : Scoring(r) => \A e \in Left(r) : ~QueuedIn(items, e)
  BY DEF CrawlsAccount, LeftToQueue
<1>1. ASSUME UNCHANGED <<items, events, rejected>>,
             \A r \in Runs : Scoring(r)' => run'[r] = run[r]
      PROVE  CrawlsAccount'
  <2>1. \A r \in Runs : Scoring(r)' => Scoring(r)
    BY <1>1 DEF Scoring
  <2> QED
    BY <1>a, <1>1, <2>1, StillAccounts
<1>2. CASE UNCHANGED <<items, events, rejected, run>>
  BY <1>1, <1>2
<1>3. ASSUME NEW r \in Runs, BeginPoll(r) \/ PollFails(r) PROVE CrawlsAccount'
  <2>1. /\ UNCHANGED <<items, events, rejected>>
        /\ run'[r].phase # "scoring" /\ \A q \in Runs \ {r} : run'[q] = run[q]
    BY <1>0, <1>3 DEF BeginPoll, PollFails, Idle, reviewVars
  <2> QED
    BY <1>1, <2>1 DEF Scoring
<1>4. ASSUME NEW r \in Runs, Diff(r) PROVE CrawlsAccount'
  BY <1>4, DiffAccounts
<1>5. ASSUME NEW r \in Runs, Scored(r) PROVE CrawlsAccount'
  BY <1>5, ScoredAccounts
<1>6. ASSUME NEW i \in items, Approve(i) \/ Reject(i) \/ \E e \in Record : Edit(i, e)
      PROVE  CrawlsAccount'
  <2>1. /\ \E decision, candidate : Decide(i, decision, candidate)
        /\ UNCHANGED <<events, run>> /\ rejected \subseteq rejected'
    BY <1>6 DEF Approve, Reject, Edit
  <2>2. \A e : QueuedIn(items', e) <=> QueuedIn(items, e)
    BY <1>0, <2>1, DecidedKeepsEvent
  <2>3. \A r \in Runs : Scoring(r)' => Scoring(r) /\ run'[r] = run[r]
    BY <2>1 DEF Scoring
  <2> QED
    BY <1>a, <2>1, <2>2, <2>3, StillAccounts
<1>7. ASSUME NEW v \in Verifiers, FinishVerify(v) PROVE CrawlsAccount'
  <2>1. /\ UNCHANGED <<items, rejected, run>>
        /\ events' = events \cup VerifyEvents(verify[v].program, verify[v].at)
    BY <1>7 DEF FinishVerify, reviewVars
  <2>2. \A e \in VerifyEvents(verify[v].program, verify[v].at) : e.candidate = Nothing
    BY DEF VerifyEvents, Event
  <2>3. \A r \in Runs : Scoring(r)' => Scoring(r) /\ run'[r] = run[r]
    BY <2>1 DEF Scoring
  <2> QED
    BY <1>a, <2>1, <2>2, <2>3, StillAccounts
<1>8. CASE Restart
  <2>1. UNCHANGED <<items, events, rejected>> /\ \A r \in Runs : run'[r] = Idle
    BY <1>8 DEF Restart, reviewVars
  <2> QED
    BY <1>1, <2>1 DEF Scoring, Idle
<1>9. CASE \E v \in Verifiers : VerifyFails(v) \/ \E p \in Programs : StartVerify(v, p)
  BY <1>2, <1>9 DEF VerifyFails, StartVerify, reviewVars
<1>10. CASE ReadDigest \/ \E n \in digest : MarkRead(n)
  BY <1>2, <1>10 DEF ReadDigest, MarkRead, reviewVars
<1>11. CASE \E p \in Programs : FunderEdits(p) \/ \E u \in Users : Star(u, p) \/ Unstar(u, p)
  BY <1>2, <1>11 DEF FunderEdits, Star, Unstar, reviewVars
<1>12. CASE UNCHANGED vars
  BY <1>2, <1>12 DEF vars, reviewVars
<1> QED
  BY <1>3, <1>4, <1>5, <1>6, <1>7, <1>8, <1>9, <1>10, <1>11, <1>12 DEF Next

\* No difference is dropped: for any crawls, decisions and verifications in any
\* interleaving, the step that ends a crawl's queueing leaves every event of
\* its own that proposes something queued or withheld.
THEOREM DifferencesAreQueued == Spec => EveryDifferenceIsQueued
<1> DEFINE Ends == \A r \in Runs :
             /\ run[r] # Idle /\ run'[r] = Idle
             /\ run[r].phase = "scoring" => QueuedIn(items', run[r].held)
             => \A e \in events' :
                   e.at = run[r].at /\ e.candidate # Nothing =>
                      \/ QueuedIn(items', e)
                      \/ Spared(e.candidate) /\ e.kind # "vanished"
                      \/ RejectKey(e) \in rejected'
<1>1. Init => Dated /\ CrawlsAccount
  BY DEF Init, Idle, Dated, InstantsApart, InstantsUnused, OneAlarmAtATime, Polling, Verifying,
         CrawlsAccount, ScoringApart, LeftToQueue, NothingForgotten, Scoring
<1>2. TypeInv /\ Dated /\ CrawlsAccount /\ [Next]_vars => [Ends]_vars
  <2> SUFFICES ASSUME TypeInv, Dated, CrawlsAccount, Next, NEW r \in Runs,
                      run[r] # Idle, run'[r] = Idle,
                      run[r].phase = "scoring" => QueuedIn(items', run[r].held),
                      NEW e \in events', e.at = run[r].at, e.candidate # Nothing
               PROVE  Accounted(e)'
    BY DEF Accounted
  <2>0. TypeOK /\ DOMAIN run = Runs
    BY DEF TypeInv, TypeOK
  <2>1. CASE Diff(r)
    BY <2>1, DiffAccounts
  <2>2. CASE Scored(r)
    BY <2>2, ScoredAccounts
  <2>3. CASE PollFails(r)
    BY <2>3 DEF PollFails, Dated, InstantsUnused, Polling
  <2>4. CASE Restart
    <3>1. UNCHANGED <<items, events>>
      BY <2>4 DEF Restart, reviewVars
    <3>2. run[r].phase # "scoring"
      BY <3>1 DEF CrawlsAccount, LeftToQueue, Scoring, Left
    <3>3. run[r].phase = "fetched"
      BY <2>0, <3>2 DEF TypeOK, RunType
    <3> QED
      BY <3>1, <3>3 DEF Dated, InstantsUnused, Polling
  <2>5. ASSUME NEW q \in Runs, BeginPoll(q) PROVE FALSE
    <3>1. CASE q = r
      BY <2>0, <2>5, <3>1 DEF BeginPoll
    <3>2. CASE q # r
      BY <2>0, <2>5, <3>2 DEF BeginPoll
    <3> QED
      BY <3>1, <3>2
  <2>6. ASSUME NEW q \in Runs \ {r}, Diff(q) \/ Scored(q) \/ PollFails(q) PROVE FALSE
    BY <2>0, <2>6 DEF Diff, Scored, Score, PollFails
  <2>7. run' # run
    OBVIOUS
  <2>8. CASE \E i \in items : Approve(i) \/ Reject(i) \/ \E edited \in Record : Edit(i, edited)
    BY <2>7, <2>8 DEF Approve, Reject, Edit
  <2>9. CASE \E v \in Verifiers :
               VerifyFails(v) \/ FinishVerify(v) \/ \E p \in Programs : StartVerify(v, p)
    BY <2>7, <2>9 DEF StartVerify, VerifyFails, FinishVerify
  <2>10. CASE \/ ReadDigest \/ \E n \in digest : MarkRead(n)
              \/ \E p \in Programs : FunderEdits(p)
              \/ \E u \in Users, p \in Programs : Star(u, p) \/ Unstar(u, p)
    BY <2>7, <2>10 DEF FunderEdits, Star, Unstar, ReadDigest, MarkRead
  <2>11. CASE \E q \in Runs : BeginPoll(q) \/ PollFails(q) \/ Diff(q) \/ Scored(q)
    BY <2>1, <2>2, <2>3, <2>5, <2>6, <2>11
  <2> QED
    BY <2>4, <2>8, <2>9, <2>10, <2>11 DEF Next
<1> QED
  BY <1>1, <1>2, Typed, StepDated, StepAccounts, PTL DEF Spec, EveryDifferenceIsQueued
===========================================================================
