--------------------------- MODULE DeadlineCycles ---------------------------
(***************************************************************************)
(* The cycles table: the dates of every published programme, projected     *)
(* from its own deadline or from the deadline of the programme it inherits *)
(* from.  A decision projects the programme it publishes and the ones that *)
(* ride its deadline (review/index.ts); the end of every crawl projects    *)
(* all of them.  Each action is synchronous code, hence one step.          *)
(***************************************************************************)
EXTENDS Naturals

CONSTANTS
    Programs,
    Rules,       \* repeat rules and stated windows: each a set of dates
    Candidates,  \* what reviewers may publish: pairs <<programme, deadline>>
    Removable,   \* the programmes whose removal reviewers may approve
    Own          \* the deadline's source: the programme itself

\* A deadline states dates of its own, or names the programme that does.
Deadline == [from : Programs \cup {Own}, dates : SUBSET Rules]
Unpublished == [from |-> Own, dates |-> {}, published |-> FALSE]

ASSUME CandidatesAssumption ==
    /\ Candidates \subseteq Programs \X Deadline
    /\ Removable \subseteq Programs
    /\ Own \notin Programs

VARIABLES
    corpus,   \* table programs, as far as its deadlines go
    cycles    \* table cycles: the dates stored for each programme

vars == <<corpus, cycles>>

Published(records) == {p \in Programs : records[p].published}

---------------------------------------------------------------------------
(* Inheritance *)

\* One step along the sources; a programme that owns its dates stays put, and
\* so does one whose source is not published.
Hop(q, records) ==
    IF records[q].from \in Published(records) THEN records[q].from ELSE q

\* resolveDeadlineOwner: seven steps (hops < 8) to a programme that
\* owns its dates; the programme itself when the chain breaks, loops or is
\* longer than that.
Owner(p, records) ==
    LET hop == [q \in Programs |-> Hop(q, records)]
        end == hop[hop[hop[hop[hop[hop[hop[p]]]]]]]
    IN  IF records[end].from = Own THEN end ELSE p

\* expandCycles and observedCycles: an inheriting deadline has no dates itself.
DatesOf(p, records) ==
    LET owner == Owner(p, records)
    IN  IF records[owner].from = Own THEN records[owner].dates ELSE {}

\* writeCyclesFor: delete, then insert, for each programme of the set.
WriteCycles(written, records) ==
    cycles' = [p \in Programs |->
        IF p \in written THEN DatesOf(p, records)
        ELSE IF p \in Published(records) THEN cycles[p] ELSE {}]

---------------------------------------------------------------------------
(* Actions *)

\* Mutant: only the published programme is projected.
RidersNone(p, records) == {}

\* backfillInheritedDependents: the published programmes that ride p.
Riders(p, records) ==
    {q \in Published(records) \ {p} : records[q].from # Own /\ Owner(q, records) = p}

\* approveReviewItem, editReviewItem: upsert, then projectCycles.
Publish(p, deadline) ==
    LET records == [corpus EXCEPT ![p] = [from |-> deadline.from, dates |-> deadline.dates,
                                          published |-> TRUE]]
    IN  /\ corpus' = records
        /\ WriteCycles({p} \cup Riders(p, records), records)

\* An approved removal: the row's cycles cascade, nothing is projected again.
Withdraw(p) ==
    /\ corpus[p].published
    /\ corpus' = [corpus EXCEPT ![p] = Unpublished]
    /\ WriteCycles({}, corpus')

\* Mutant: the nightly pass skips the programmes that inherit their dates.
ReprojectOwners ==
    /\ WriteCycles({p \in Published(corpus) : corpus[p].from = Own}, corpus)
    /\ UNCHANGED corpus

\* reprojectAllCycles, at the end of every crawl.
Reproject ==
    /\ WriteCycles(Published(corpus), corpus)
    /\ UNCHANGED corpus

---------------------------------------------------------------------------
Init ==
    /\ corpus = [p \in Programs |-> Unpublished]
    /\ cycles = [p \in Programs |-> {}]

Next ==
    \/ \E c \in Candidates : Publish(c[1], c[2])
    \/ \E p \in Removable : Withdraw(p)
    \/ Reproject

Spec == Init /\ [][Next]_vars

---------------------------------------------------------------------------
(* Properties *)

TypeOK ==
    /\ corpus \in [Programs -> [from : Programs \cup {Own}, dates : SUBSET Rules,
                                published : BOOLEAN]]
    /\ cycles \in [Programs -> SUBSET Rules]

\* In whatever order programmes are approved, edited and withdrawn, one that
\* owns its dates, or rides a published programme that does, has the dates its
\* owner states now; one that left the corpus has none.
DirectRidersMatch ==
    \A p \in Programs :
        LET source == corpus[p].from
        IN  IF ~corpus[p].published THEN cycles[p] = {}
            ELSE IF source = Own THEN cycles[p] = corpus[p].dates
            ELSE corpus[source].published /\ corpus[source].from = Own
                    => cycles[p] = corpus[source].dates

\* In whatever order programmes and the programmes they inherit from are
\* approved, edited and withdrawn, the stored dates are those the corpus as it
\* stands would project: approval order is immaterial.
CyclesMatchCorpus ==
    \A p \in Programs : cycles[p] = IF corpus[p].published THEN DatesOf(p, corpus) ELSE {}

\* Right dates go wrong only by a decision about a programme that another one
\* inherits from: it is withdrawn, or it comes to inherit itself.  Publishing
\* dates never does it, at whatever length of chain, nor does a new rider.
OnlyRiddenGoWrong ==
    [][CyclesMatchCorpus /\ ~CyclesMatchCorpus' =>
         \E p \in Programs : \E q \in Published(corpus) \ {p} :
            /\ corpus[q].from = p
            /\ corpus'[p] # corpus[p]
            /\ corpus'[p].published => corpus'[p].from # Own
      ]_vars

\* Whatever a decision left behind, the next crawl makes the table right again.
CyclesHeal == []<>CyclesMatchCorpus
===========================================================================
