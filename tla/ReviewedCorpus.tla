--------------------------- MODULE ReviewedCorpus ---------------------------
(***************************************************************************)
(* What the review pipeline promises: nothing enters or leaves the         *)
(* published corpus except by a decision on something that was proposed,   *)
(* and what is shown is the corpus without its suppressed records.         *)
(***************************************************************************)
CONSTANTS
    Programs,    \* the programmes
    Record,      \* what can be published about one
    Suppressed,  \* the records that are evidence and never an offer
    Nothing      \* no record

VARIABLES
    published,   \* the corpus
    proposals,   \* what waits in the queue or was decided there
    shown        \* what browse lists

vars == <<published, proposals, shown>>

Proposal == [removal : BOOLEAN, program : Programs, record : Record]

Shown(records) ==
    [p \in Programs |-> IF records[p] \in Suppressed THEN Nothing ELSE records[p]]

Init ==
    /\ published \in [Programs -> Record \cup {Nothing}]
    /\ proposals = {}
    /\ shown = Shown(published)

\* The crawl may add proposals and nothing else.
Propose ==
    /\ proposals' \in SUBSET Proposal /\ proposals \subseteq proposals'
    /\ UNCHANGED <<published, shown>>

Write(p, record) ==
    /\ published' = [published EXCEPT ![p] = record]
    /\ shown' = Shown(published')

Publish(q) ==
    /\ ~q.removal /\ q.record \notin Suppressed
    /\ Write(q.program, q.record)
    /\ UNCHANGED proposals

Withdraw(q) ==
    /\ q.removal
    /\ Write(q.program, Nothing)
    /\ UNCHANGED proposals

\* A reviewer replaces a proposed record by one of their own and publishes it.
Amend(q, record) ==
    /\ record \notin Suppressed
    /\ Write(q.program, record)
    /\ \E kept \in {proposals, proposals \ {q}} :
          proposals' = kept \cup {[q EXCEPT !.record = record]}

Next ==
    \/ Propose
    \/ \E q \in proposals : Publish(q) \/ Withdraw(q)
    \/ \E q \in proposals, record \in Record : Amend(q, record)

Spec == Init /\ [][Next]_vars
===========================================================================
