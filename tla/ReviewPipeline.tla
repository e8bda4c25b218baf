-------------------------- MODULE ReviewPipeline --------------------------
(***************************************************************************)
(* How a change on a funder's page becomes a change of the published       *)
(* corpus, for the programmes of one source.                               *)
(*                                                                         *)
(* A crawl (crawl/runner.ts) fetches the page, diffs it against the corpus *)
(* (diff/index.ts), stores one change event per difference and queues the  *)
(* events a reviewer should see (review/index.ts).  An administrator       *)
(* decides a queued item through POST /api/inbox/:id/decision, one         *)
(* database transaction that also delivers the undelivered events to the   *)
(* watchers (api/notify.ts) and rebuilds the browse projection             *)
(* (api/reindex.ts).  "Verify now" (api/verify.ts) refetches the page of   *)
(* one programme and rewrites that programme.                              *)
(*                                                                         *)
(* Node runs one callback at a time, so a step here is the code between    *)
(* two awaits.  The nightly crawl and an administrator's "Crawl now" are   *)
(* two Runs that nothing keeps apart.                                      *)
(***************************************************************************)
EXTENDS Naturals, FiniteSets

CONSTANTS
    Programs,      \* the programmes this source can state
    Terms,         \* what hashProgram covers; two of them differ in a deadline,
                   \* amount or eligibility, so that the diff reports it
    Tagged,        \* the terms that carry the do_not_publish tag
    Faint,         \* the terms its parser scores below ADJACENCY_THRESHOLD
    Statuses,      \* trust.status, which hashProgram leaves out
    Users,
    Runs,          \* the callers of runCrawl: the nightly one, the admin's
    Verifiers,     \* "Verify now" requests that can be in flight together
    Seeds,         \* the corpora a seeded database can start from
    PreScores,     \* whether buildReviewItems waits for an assist per item
    ExpectedMin,   \* the source's expectedMinRecords
    MaxInstants,   \* bound: how many polls and verifications are started
    MaxDecisions,  \* bound: how many decisions are taken
    Nothing        \* no record, no programme, no value

Record == [terms : Terms, status : Statuses]
Kinds == {"new", "vanished", "terms_changed", "status_changed", "parse_yield_dropped"}
Decisions == {"pending", "approved", "rejected", "edited"}

ASSUME ConstantsAssumption ==
    /\ Tagged \subseteq Terms /\ Faint \subseteq Terms
    /\ Seeds \subseteq [Programs -> Record \cup {Nothing}]
    /\ IsFiniteSet(Programs)
    /\ PreScores \in BOOLEAN
    /\ ExpectedMin \in Nat
    /\ MaxInstants \in Nat /\ MaxDecisions \in Nat
    /\ Nothing \notin Record \cup Programs

VARIABLES
    page,        \* what the funder's page states now
    corpus,      \* table programs
    keyed,       \* the programmes whose row has a source_id
    events,      \* table change_events
    items,       \* table review_items
    rejected,    \* table review_rejects
    decisions,   \* how many rows the decisions appended to the audit log
    browse,      \* table program_search
    watches,     \* table watches
    fanned,      \* table change_event_fanout
    digest,      \* table notifications
    provenance,  \* table field_provenance
    clock,       \* polls and verifications started so far
    run,         \* what each crawl holds across its awaits
    verify       \* what each verification holds across its awaits

corpusVars == <<corpus, keyed, browse>>
reviewVars == <<items, rejected, decisions>>
toldVars   == <<watches, fanned, digest>>
vars == <<page, corpusVars, events, reviewVars, toldVars, provenance, clock, run, verify>>

Idle == [phase |-> "idle"]

---------------------------------------------------------------------------
(* Change events *)

Event(at, kind, p, before, after, candidate) ==
    [at |-> at, kind |-> kind, program |-> p,
     before |-> before, after |-> after, candidate |-> candidate]

\* isDoNotPublish: a past award or cross-check row, evidence and not an offer.
IsDoNotPublish(record) == record # Nothing /\ record.terms \in Tagged

\* What a human is spared: evidence, and what its source scored as off-topic.
\* A removal is exempt from both.
Spared(record) == record.terms \in Tagged \cup Faint

Stated(records) == {p \in Programs : records[p] # Nothing}

\* listProgramsBySource: the published programmes that carry this source's key.
PublishedHere == [p \in Programs |-> IF p \in keyed THEN corpus[p] ELSE Nothing]

(* Diff of a parsed page with the published programmes of its source.  A     *)
(* removal carries the published record; every other event the parsed one.   *)
DiffPrograms(previous, next, now) ==
    LET gone == Stated(previous) \ Stated(next)
        both == Stated(previous) \cap Stated(next)
        moved(field) == {p \in both : previous[p][field] # next[p][field]}
    IN  {Event(now, "new", p, Nothing, Nothing, next[p]) : p \in Stated(next) \ Stated(previous)}
        \cup {Event(now, "vanished", p, Nothing, Nothing, previous[p]) : p \in gone}
        \cup {Event(now, "terms_changed", p, previous[p].terms, next[p].terms, next[p]) :
                p \in moved("terms")}
        \cup {Event(now, "status_changed", p, previous[p].status, next[p].status, next[p]) :
                p \in moved("status")}

\* An empty page of a source that may be empty is no mass disappearance.
ShouldSuppressVanished(next) == Stated(next) = {} /\ ExpectedMin = 0

YieldAlarm(next, now) ==
    LET parsed == Cardinality(Stated(next))
    IN  IF parsed < ExpectedMin
        THEN {Event(now, "parse_yield_dropped", Nothing, Nothing, parsed, Nothing)}
        ELSE {}

CrawlEvents(next, now) ==
    YieldAlarm(next, now)
    \cup {e \in DiffPrograms(PublishedHere, next, now) :
             ~(ShouldSuppressVanished(next) /\ e.kind = "vanished")}

---------------------------------------------------------------------------
(* The review queue *)

\* rejectKeyFor: programme and hashed content, neither the kind nor the status.
RejectKey(e) == <<e.program, e.candidate.terms>>

QueuedIn(table, e) == \E i \in table : i.event = e

\* Mutant: the reject memory is written and never read.
PassesForgetful(e, rejects) ==
    /\ e.candidate # Nothing
    /\ Spared(e.candidate) => e.kind = "vanished"

\* The gates of buildReviewItems; `rejects` is the reject memory it reads.
Passes(e, rejects) ==
    /\ e.candidate # Nothing
    /\ Spared(e.candidate) => e.kind = "vanished"
    /\ RejectKey(e) \notin rejects

NewItem(e) == [event |-> e, candidate |-> e.candidate, decision |-> "pending"]

---------------------------------------------------------------------------
(* Fan-out *)

Alarm(e) == <<e.kind, e.program, e.before, e.after>>

\* Who hears of an event: the watchers of its programme, or of the source's
\* programmes for an alarm that names none.
Subscribers(e) ==
    {u \in Users : \E w \in watches :
        /\ w[1] = u
        /\ IF e.program = Nothing THEN w[2] \in keyed ELSE w[2] = e.program}

\* The record an event is about, from the corpus or from its own payload.
RecordOf(e) ==
    IF e.program = Nothing THEN Nothing
    ELSE IF corpus[e.program] # Nothing THEN corpus[e.program]
    ELSE IF e.kind \in {"new", "vanished"} THEN e.candidate ELSE Nothing

Undelivered == events \ fanned
Announced(u, due) == {e \in due : u \in Subscribers(e) /\ ~IsDoNotPublish(RecordOf(e))}

\* Mutant: no look for an unread twin.
RepeatsNever(u, e) == FALSE

\* duplicate_unread: the same alarm already sits unread in the user's digest.
Repeats(u, e) == \E n \in digest : n.user = u /\ ~n.read /\ Alarm(n.event) = Alarm(e)

\* Oldest first: of several due events with the same alarm the first is told.
Told(u, due) ==
    {e \in Announced(u, due) :
        /\ ~Repeats(u, e)
        /\ \A d \in Announced(u, due) : Alarm(d) = Alarm(e) => e.at <= d.at}

Notice(u, e) == [user |-> u, event |-> e, read |-> FALSE]
Deliveries(due) == UNION {{Notice(u, e) : e \in Told(u, due)} : u \in Users}

\* drainChangeEvents: each undelivered event is delivered or deliberately
\* withheld, and entered in the ledger either way.
Drain ==
    /\ digest' = digest \cup Deliveries(Undelivered)
    /\ fanned' = events

---------------------------------------------------------------------------
(* The browse projection: reindexBrowse rebuilds it wholesale. *)

Visible(records) ==
    [p \in Programs |-> IF IsDoNotPublish(records[p]) THEN Nothing ELSE records[p]]

Reindex == browse' = Visible(corpus')

---------------------------------------------------------------------------
(* The funder and the watchers *)

\* The funder rewrites, adds or removes one entry of its page.
FunderEdits(p) ==
    /\ \E r \in Record \cup {Nothing} : page' = [page EXCEPT ![p] = r]
    /\ UNCHANGED <<corpusVars, events, reviewVars, toldVars, provenance, clock, run, verify>>

Star(u, p) ==
    /\ corpus[p] # Nothing /\ ~IsDoNotPublish(corpus[p])
    /\ watches' = watches \cup {<<u, p>>}
    /\ UNCHANGED <<page, corpusVars, events, reviewVars, fanned, digest, provenance, clock, run, verify>>

Unstar(u, p) ==
    /\ watches' = watches \ {<<u, p>>}
    /\ UNCHANGED <<page, corpusVars, events, reviewVars, fanned, digest, provenance, clock, run, verify>>

\* GET /api/notifications drains before it reads.
ReadDigest ==
    /\ Undelivered # {}
    /\ Drain
    /\ UNCHANGED <<page, corpusVars, events, reviewVars, watches, provenance, clock, run, verify>>

\* "Read all" is this for each of a user's unread notices.
MarkRead(n) ==
    /\ digest' = (digest \ {n}) \cup {[n EXCEPT !.read = TRUE]}
    /\ UNCHANGED <<page, corpusVars, events, reviewVars, watches, fanned, provenance, clock, run, verify>>

---------------------------------------------------------------------------
(* A crawl of the source *)

\* runSource stamps `now`, then waits for the page as the server has it.
BeginPoll(r) ==
    /\ run[r] = Idle
    /\ clock < MaxInstants
    /\ clock' = clock + 1
    /\ run' = [run EXCEPT ![r] = [phase |-> "fetched", at |-> clock + 1, page |-> page]]
    /\ UNCHANGED <<page, corpusVars, events, reviewVars, toldVars, provenance, verify>>

\* A refusal, a network error or a parser that throws: health only.
PollFails(r) ==
    /\ run[r].phase = "fetched"
    /\ run' = [run EXCEPT ![r] = Idle]
    /\ UNCHANGED <<page, corpusVars, events, reviewVars, toldVars, provenance, clock, verify>>

\* Mutant: a withheld event ends the loop instead of being skipped.
ScoreStops(r, todo) ==
    IF todo = {} \/ \E e \in todo : ~Passes(e, rejected)
    THEN run' = [run EXCEPT ![r] = Idle]
    ELSE \E e \in todo :
            run' = [run EXCEPT ![r] = [phase |-> "scoring", at |-> run[r].at,
                                       held |-> e, todo |-> todo \ {e}]]

\* buildReviewItems, up to its next await: the run holds one event it has
\* gated and not yet queued, and the ones it has still to gate.
Score(r, todo) ==
    LET passing == {e \in todo : Passes(e, rejected)}
    IN  IF passing = {}
        THEN run' = [run EXCEPT ![r] = Idle]
        ELSE \E e \in passing :
                run' = [run EXCEPT ![r] = [phase |-> "scoring", at |-> run[r].at,
                                           held |-> e, todo |-> passing \ {e}]]

\* The page arrived: parse, diff against the corpus as it is now, store the
\* events, and queue them; without an assist the queueing does not wait.
Diff(r) ==
    /\ run[r].phase = "fetched"
    /\ LET found == CrawlEvents(run[r].page, run[r].at)
       IN  /\ events' = events \cup found
           /\ IF PreScores
              THEN items' = items /\ Score(r, found)
              ELSE /\ items' = items \cup {NewItem(e) : e \in {f \in found : Passes(f, rejected)}}
                   /\ run' = [run EXCEPT ![r] = Idle]
    /\ UNCHANGED <<page, corpusVars, rejected, decisions, toldVars, provenance, clock, verify>>

\* The assist answered for the held event: queue it and go on to the next.
Scored(r) ==
    /\ run[r].phase = "scoring"
    /\ items' = items \cup {NewItem(run[r].held)}
    /\ Score(r, run[r].todo)
    /\ UNCHANGED <<page, corpusVars, events, rejected, decisions, toldVars, provenance, clock, verify>>

---------------------------------------------------------------------------
(* An administrator's decision, on an item in whatever state it is *)

Decide(i, decision, candidate) ==
    /\ decisions < MaxDecisions
    /\ items' = (items \ {i}) \cup {[i EXCEPT !.decision = decision, !.candidate = candidate]}
    /\ decisions' = decisions + 1

\* Writing a row: it takes the source key its tags carry.
Publish(p, record) ==
    /\ corpus' = [corpus EXCEPT ![p] = record]
    /\ keyed' = keyed \cup {p}
    /\ UNCHANGED watches

\* Deleting a row: its watches cascade away with it.
Withdraw(p) ==
    /\ corpus' = [corpus EXCEPT ![p] = Nothing]
    /\ keyed' = keyed \ {p}
    /\ watches' = {w \in watches : w[2] # p}

\* Mutant: what is published is the event's payload, not the item's candidate.
ApprovePayload(i) ==
    /\ Drain
    /\ IF i.event.kind = "vanished"
       THEN Withdraw(i.event.program)
       ELSE /\ ~IsDoNotPublish(i.event.candidate)
            /\ Publish(i.event.program, i.event.candidate)
    /\ Decide(i, "approved", i.candidate)
    /\ Reindex
    /\ UNCHANGED <<page, events, rejected, provenance, clock, run, verify>>

(* The drain runs first and reads the watches as they still are.             *)
Approve(i) ==
    /\ Drain
    /\ IF i.event.kind = "vanished"
       THEN Withdraw(i.event.program)
       ELSE /\ ~IsDoNotPublish(i.candidate)
            /\ Publish(i.event.program, i.candidate)
    /\ Decide(i, "approved", i.candidate)
    /\ Reindex
    /\ UNCHANGED <<page, events, rejected, provenance, clock, run, verify>>

\* Mutant: the backstop looks at the queued candidate, not at the edit.
EditUnchecked(i, edited) ==
    /\ ~IsDoNotPublish(i.candidate)
    /\ Drain
    /\ Publish(i.event.program, edited)
    /\ Decide(i, "edited", edited)
    /\ Reindex
    /\ UNCHANGED <<page, events, rejected, provenance, clock, run, verify>>

Edit(i, edited) ==
    /\ ~IsDoNotPublish(edited)
    /\ Drain
    /\ Publish(i.event.program, edited)
    /\ Decide(i, "edited", edited)
    /\ Reindex
    /\ UNCHANGED <<page, events, rejected, provenance, clock, run, verify>>

Reject(i) ==
    /\ Decide(i, "rejected", i.candidate)
    /\ rejected' = rejected \cup {RejectKey(i.event)}
    /\ UNCHANGED <<page, corpusVars, events, toldVars, provenance, clock, run, verify>>

---------------------------------------------------------------------------
(* "Verify now" *)

\* The runner reads the programme, then waits for the page.
StartVerify(v, p) ==
    /\ verify[v] = Idle
    /\ corpus[p] # Nothing /\ ~IsDoNotPublish(corpus[p])
    /\ clock < MaxInstants
    /\ clock' = clock + 1
    /\ verify' = [verify EXCEPT ![v] =
                    [phase |-> "fetching", at |-> clock + 1, program |-> p, snapshot |-> corpus[p]]]
    /\ UNCHANGED <<page, corpusVars, events, reviewVars, toldVars, provenance, run>>

\* A fetch error, or a page that read as no records: nothing was verified.
VerifyFails(v) ==
    /\ verify[v].phase = "fetching"
    /\ verify' = [verify EXCEPT ![v] = Idle]
    /\ UNCHANGED <<page, corpusVars, events, reviewVars, toldVars, provenance, clock, run>>

\* What the refetched page says of the programme, against its last refetch.
VerifyEvents(p, now) ==
    IF page[p] = Nothing
    THEN {Event(now, "vanished", p, Nothing, Nothing, Nothing)}
    ELSE IF page[p].terms = provenance[p] THEN {}
    ELSE {Event(now, "terms_changed", p, provenance[p], page[p].terms, Nothing)}

\* Mutant: the drain runs before the refetch's events are stored, the ledger after.
FinishVerifyDrainsFirst(v) ==
    /\ verify[v].phase = "fetching"
    /\ Stated(page) # {}
    /\ LET p == verify[v].program
       IN  /\ corpus' = [corpus EXCEPT ![p] = verify[v].snapshot]
           /\ provenance' = IF page[p] = Nothing THEN provenance
                            ELSE [provenance EXCEPT ![p] = page[p].terms]
           /\ events' = events \cup VerifyEvents(p, verify[v].at)
           /\ digest' = digest \cup Deliveries(Undelivered)
           /\ fanned' = events'
    /\ verify' = [verify EXCEPT ![v] = Idle]
    /\ Reindex
    /\ UNCHANGED <<page, keyed, reviewVars, watches, clock, run>>

(* The row is rewritten from the record read before the fetch; an upsert      *)
(* without a source key keeps the stored key, and a new row has none.  The    *)
(* router then reindexes and drains.                                          *)
FinishVerify(v) ==
    /\ verify[v].phase = "fetching"
    /\ Stated(page) # {}
    /\ LET p == verify[v].program
           found == VerifyEvents(p, verify[v].at)
           due == Undelivered \cup found
       IN  /\ corpus' = [corpus EXCEPT ![p] = verify[v].snapshot]
           /\ provenance' = IF page[p] = Nothing THEN provenance
                            ELSE [provenance EXCEPT ![p] = page[p].terms]
           /\ events' = events \cup found
           /\ digest' = digest \cup Deliveries(due)
           /\ fanned' = events'
    /\ verify' = [verify EXCEPT ![v] = Idle]
    /\ Reindex
    /\ UNCHANGED <<page, keyed, reviewVars, watches, clock, run>>

---------------------------------------------------------------------------
(* A crash or a redeploy: what was in flight is gone; the boot reindexes and *)
(* drains.                                                                   *)
Restart ==
    /\ \/ \E r \in Runs : run[r] # Idle
       \/ \E v \in Verifiers : verify[v] # Idle
    /\ run' = [r \in Runs |-> Idle]
    /\ verify' = [v \in Verifiers |-> Idle]
    /\ browse' = Visible(corpus)
    /\ Drain
    /\ UNCHANGED <<page, corpus, keyed, events, reviewVars, watches, provenance, clock>>

---------------------------------------------------------------------------
Init ==
    /\ corpus \in Seeds
    /\ page = corpus
    /\ keyed = {p \in Programs : corpus[p] # Nothing}
    /\ events = {} /\ items = {} /\ rejected = {} /\ decisions = 0
    /\ browse = Visible(corpus)
    /\ watches = {} /\ fanned = {} /\ digest = {}
    /\ provenance = [p \in Programs |-> Nothing]
    /\ clock = 0
    /\ run = [r \in Runs |-> Idle]
    /\ verify = [v \in Verifiers |-> Idle]

Next ==
    \/ \E p \in Programs : FunderEdits(p)
    \/ \E u \in Users, p \in Programs : Star(u, p) \/ Unstar(u, p)
    \/ ReadDigest
    \/ \E n \in digest : MarkRead(n)
    \/ \E r \in Runs : BeginPoll(r) \/ PollFails(r) \/ Diff(r) \/ Scored(r)
    \/ \E i \in items : Approve(i) \/ Reject(i)
    \/ \E i \in items, edited \in Record : Edit(i, edited)
    \/ \E v \in Verifiers, p \in Programs : StartVerify(v, p)
    \/ \E v \in Verifiers : VerifyFails(v) \/ FinishVerify(v)
    \/ Restart

Spec == Init /\ [][Next]_vars

---------------------------------------------------------------------------
(* Properties *)

EventType ==
    [at : 1..MaxInstants, kind : Kinds, program : Programs \cup {Nothing},
     before : Terms \cup Statuses \cup {Nothing},
     after : Terms \cup Statuses \cup Nat \cup {Nothing},
     candidate : Record \cup {Nothing}]

RunType ==
    {Idle}
    \cup [phase : {"fetched"}, at : 1..MaxInstants, page : [Programs -> Record \cup {Nothing}]]
    \cup [phase : {"scoring"}, at : 1..MaxInstants, held : EventType, todo : SUBSET EventType]

VerifyType ==
    {Idle} \cup [phase : {"fetching"}, at : 1..MaxInstants, program : Programs, snapshot : Record]

\* Every table, and what a crawl or a verification holds between two awaits,
\* has the shape the code's rows and locals have.
TypeOK ==
    /\ page \in [Programs -> Record \cup {Nothing}]
    /\ corpus \in [Programs -> Record \cup {Nothing}]
    /\ browse \in [Programs -> Record \cup {Nothing}]
    /\ keyed \in SUBSET Programs
    /\ events \in SUBSET EventType
    /\ items \in SUBSET [event : EventType, candidate : Record, decision : Decisions]
    /\ rejected \in SUBSET (Programs \X Terms)
    /\ decisions \in Nat
    /\ watches \in SUBSET (Users \X Programs)
    /\ fanned \in SUBSET EventType
    /\ digest \in SUBSET [user : Users, event : EventType, read : BOOLEAN]
    /\ provenance \in [Programs -> Terms \cup {Nothing}]
    /\ clock \in 0..MaxInstants
    /\ run \in [Runs -> RunType]
    /\ verify \in [Verifiers -> VerifyType]

\* What the browse page lists is the corpus without its suppressed records
\* whatever decided, verified or restarted last: reindexBrowse follows every
\* write of programs.
BrowseMirrorsCorpus == browse = Visible(corpus)

\* No decision and no verification ever puts a do_not_publish record into the
\* corpus, whichever of the two gates a candidate passed and however it was
\* edited; a suppressed row a seed stored may only stay as it is or leave.
NothingSuppressedIsPublished ==
    [][\A p \in Programs : IsDoNotPublish(corpus'[p]) => corpus'[p] = corpus[p]]_vars

\* The queue a reviewer reads proposes a do_not_publish record for removal only.
NothingSuppressedIsQueued ==
    \A i \in items : IsDoNotPublish(i.candidate) => i.event.kind = "vanished"

\* No event is entered in the delivery ledger, which is final, while somebody
\* who watched its programme when the step began has no unread notice of it:
\* the approval of a removal cascades the watches away only after the drain.
EveryWatcherHears ==
    [][\A e \in fanned' \ fanned, u \in Users :
          e \in Announced(u, {e}) =>
             \E n \in digest' : n.user = u /\ ~n.read /\ Alarm(n.event) = Alarm(e)]_vars

\* However often the same alarm is raised and drained, no digest holds it
\* unread twice.
NoUnreadTwins ==
    \A n, m \in digest :
        /\ n.user = m.user /\ ~n.read /\ ~m.read
        /\ Alarm(n.event) = Alarm(m.event)
        => n = m

\* Only events that are stored are queued or delivered, and a notice is only
\* ever written together with its ledger entry.
LedgerCoversDigest ==
    /\ \A n \in digest : n.event \in fanned
    /\ fanned \subseteq events
    /\ \A i \in items : i.event \in events

\* Rejected content that no crawl has already let through the gates.
Settled(key) ==
    /\ key \in rejected
    /\ \A r \in Runs : run[r].phase = "scoring" => RejectKey(run[r].held) # key

\* Reject memory: a rejection is final once no crawl waits for the assist on
\* content of its key.  From then on no crawl lets that key through or queues
\* it, whichever crawls overlap, whatever is decided next, and over a restart.
\* A crawl that was waiting when the rejection fell still queues what it holds.
RejectionHolds ==
    [][\A key \in rejected :
          Settled(key) =>
             /\ Settled(key)'
             /\ \A i \in items' :
                   RejectKey(i.event) = key => QueuedIn(items, i.event)]_vars

\* When a crawl has worked through its events, each one with a candidate is
\* queued, or withheld by the tag, the score or the reject memory, even where
\* decisions fell between its awaits.
EveryDifferenceIsQueued ==
    [][\A r \in Runs :
          /\ run[r] # Idle /\ run'[r] = Idle
          /\ run[r].phase = "scoring" => QueuedIn(items', run[r].held)
          => \A e \in events' :
                e.at = run[r].at /\ e.candidate # Nothing =>
                   \/ QueuedIn(items', e)
                   \/ Spared(e.candidate) /\ e.kind # "vanished"
                   \/ RejectKey(e) \in rejected']_vars

\* The corpus changes only in a step that records a reviewer's decision:
\* approveReviewItem and editReviewItem are the only path that writes it.
OnlyReviewWrites == [][corpus' # corpus => decisions' = decisions + 1]_vars

\* Whether the reviewer has decided the same proposal about the same record.
DecidedBefore(e) ==
    \E i \in items :
        /\ i.decision # "pending"
        /\ i.event.program = e.program /\ i.event.candidate = e.candidate
        /\ (i.event.kind = "vanished") = (e.kind = "vanished")

\* A candidate whose status moved is queued unless that very record was decided
\* before: a moved status gets a new reject key and resurfaces.
MovedStatusResurfaces ==
    [][\A e \in events' \ events :
          e.kind = "status_changed" /\ ~IsDoNotPublish(e.candidate) =>
             QueuedIn(items', e) \/ DecidedBefore(e)]_vars

\* A crawl's proposal to remove a published record is queued unless a removal
\* of that record was decided before: removals are exempt from suppression.
RemovalsAreNeverSwallowed ==
    [][\A e \in events' \ events :
          e.kind = "vanished" /\ e.candidate # Nothing =>
             QueuedIn(items', e) \/ DecidedBefore(e)]_vars

\* What an item proposes for the corpus.
Proposed(i) ==
    [removal |-> i.event.kind = "vanished", program |-> i.event.program, record |-> i.candidate]

Reviewed == INSTANCE ReviewedCorpus WITH
    Suppressed <- {r \in Record : r.terms \in Tagged},
    published <- corpus,
    proposals <- {Proposed(i) : i \in items},
    shown <- browse

\* Seen from outside, the corpus is only ever changed by publishing or
\* withdrawing what was proposed or by a hand-edited record, and browse follows.
ReviewedSpec == Reviewed!Spec
===========================================================================
