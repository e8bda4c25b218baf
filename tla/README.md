# grantspotter, specified

grantspotter watches the web pages of amateur-radio grant and scholarship
funders. It crawls them at night, compares what it finds with the corpus it
publishes, lets an administrator decide every difference, and tells the members
who starred a programme what changed. This directory holds TLA+ specifications
of the parts of its server and of its web client in which order, concurrency and
time matter, the TLC runs that check them on small instances, and TLAPS proofs of
what matters most.

All paths below are under `src/packages/server/src/` unless they say otherwise.

## The system

The server is one Node process over one SQLite database (synchronous:
`better-sqlite3`). One callback runs at a time, so the code between two `await`s
is one atomic step; everything that waits (a page, a password hash, an
assist's answer) is where another request can come in between. That is the grain of every
module here: an action is the code from one await to the next.

| part | state it keeps | operations | interacts with | what makes it correct |
|---|---|---|---|---|
| hash gate (`auth/rateLimit.ts`, `createConcurrencyGate`) | slots taken, nested Maps of waiters | `run`, `release`, shedding, expiry | sign-in and registration run argon2id inside it | no slot lost or minted; bounded queue; fair at each level; every waiter answered |
| sliding-window limiter (`auth/rateLimit.ts`, `createRateLimiter`) | per key: recorded timestamps, slots held; the sweep's threshold | `check`, `begin`/`charge`/`release`, `recordFailure`, `reset`, sweep | sign-in, registration ladder, callsign lookups, feeds | budget kept over overlapping attempts; slots given back once; quoted wait is true; sweep spares live entries |
| crawl (`crawl/runner.ts`) | what a run holds across its awaits | poll, diff, store events, queue | fetcher, diff, review queue | every difference is queued or withheld for a reason |
| diff (`diff/index.ts`, `packages/core/src/hash.ts`) | none | `diffPrograms`, yield alarm | crawl | reported kinds match what moved |
| review queue and decisions (`review/index.ts`, `api/inbox*.ts`) | `review_items`, `review_rejects`, `programs`, audit rows | approve, edit, reject | fan-out, browse, cycles in one transaction | nothing suppressed is published; a rejection holds against every crawl that does not already hold what it rejects; only decisions write the corpus |
| fan-out (`api/notify.ts`) | `change_event_fanout`, `notifications` | `drainChangeEvents`, read, mark read | decisions, verify, boot, digest reader | everyone who watched hears once |
| watchlist (`api/watchRouter.ts`) | `watches` | star, unstar; cascade on removal | fan-out | see fan-out |
| browse projection (`api/reindex.ts`) | `program_search` | `reindexBrowse` | every writer of `programs` | mirrors the corpus |
| verify now (`api/verify.ts`, `api/verifyRouter.ts`) | `field_provenance`; the row read before the fetch | refetch of one programme | fetcher, `programs`, fan-out | must not undo decisions |
| cycles (`review/index.ts`, `packages/core/src/deadline.ts`) | `cycles` | projection on publish, on crawl | decisions, calendar | dates match the deadline's owner |
| boot, schedule, shutdown (`index.ts`, `crawl/scheduler.ts`) | timers | start, crawl, stop | all | restart leaves projections right |
| accounts (`api/auth.ts`, `api/adminUsersRouter.ts`, `auth/`) | users, sessions, first-run token | claim, register, sign in and out, create, role, disable, reset, delete | gate, limiter | one claim; an administrator remains; a reset ends every session it finds; slots and charges exact |
| polite fetcher (`fetcher/`) | per-host lanes and penalties, robots cache, a purse per fetch | paced requests, redirects, retries, rules | crawl, verify | pace per host; rules govern; bounded cost; every fetch ends |
| callsign lookup (`api/callsign.ts`, `callsign/`) | hold per host, one question in flight | lookup, hold | limiter, profile editor | one question; hold honoured; lookup reopens |
| matcher (`packages/core/src/matcher.ts`, `geo.ts`) | none | verdict of a profile on a programme | every list of the client | a decided verdict is final; questions are answerable |
| profile editor (`packages/web/src/routes/Profile.tsx`, `components/CallsignLookup.tsx`) | drafts, marks of what a lookup filled, the save in flight | type, look up, accept, save, reload | callsign lookup, `api/profileRouter.ts` | a value credited to a licence record is that record's |
| seeds and corrections (`seed/`, `api/seedCorrectionsRouter.ts`) | `programs`, audit rows; the list on an administrator's screen | import, boot corrections, consent | decisions, crawl | nobody's work overwritten; boots change no answer |
| crawls and sources (`crawl/scheduler.ts`, `crawl/runner.ts`, `api/sourcesRouter.ts`) | the timer, the loop's position, the manual guard; pause and poll columns per source | nightly crawl, crawl now, pause, resume | cycles, decisions | a paused source is left alone, one that is on is polled every night whatever fails; crawl now reopens |
| parsers, exports, prose, templates, channels | none that others rely on | text in, text out | - | functional |

The behaviours that are hard to test, with the line each bites at, are in
`PROJECT.json` under `hazards`; the properties below are aimed at them.

## Modules

| module | what it is |
|---|---|
| `ConcurrencyGate` | the hash gate, one action per branch of `run` and `release` |
| `ConcurrencyGateProofs` | its theorems |
| `RateLimiter` | the sliding-window limiter with its three kinds of caller |
| `RateLimiterProofs` | its theorems |
| `SlotBudget` | what a limiter promises a route: implemented by `RateLimiter`, relied on by `Accounts` |
| `ReviewPipeline` | crawl, diff, review queue, decisions, fan-out, watchlist, browse projection and verify now, composed over the tables they share |
| `ReviewedCorpus` | the abstract promise of the review workflow |
| `ReviewPipelineProofs` | theorems about `ReviewPipeline`, the implementation of `ReviewedCorpus` among them |
| `DeadlineCycles` | the `cycles` table and deadline inheritance |
| `CrawlRounds` | the nightly and the manual crawl over all sources, pausing and source health, composed with `DeadlineCycles` |
| `CrawlRoundsProofs` | theorems about both, that `CrawlRounds` implements `DeadlineCycles` among them |
| `Accounts` | accounts, sessions and the first-run token, with the routes that hash split at the await |
| `AccountsProofs` | its theorems |
| `PoliteFetch` | the fetcher: pages, rules, redirects, the purse and the host queue |
| `PoliteFetchProofs` | its theorems |
| `CallsignSource` | the server's half of the callsign lookup |
| `Matcher` | the verdict, as a profile is filled in |
| `ProfileForm` | the profile editor and the lookup inside it, beside the stored profiles |
| `CallsignLookupProofs` | theorems about `CallsignSource` and `ProfileForm` |
| `SeedCorrections` | the shipped corpus meeting the records a deployment holds |
| `RecordProofs` | theorems about `SeedCorrections` and `Matcher` |
| `MC...` | small instances of each for TLC |

An operator whose comment begins with "Mutant:" is a broken variant of the
definition after it; no specification uses it. Each shows, put in place of the
real definition, that some property notices.

### ConcurrencyGate

`status` says where each request is, `running` is the code's counter (kept apart
from the set of running requests on purpose: that they agree is a property).
The nested Maps of peers, routes and origins become groups, prefixes of a lane;
`turn[g]` is the insertion stamp of a group, so the front of a Map is its group
with the least stamp, and deleting and re-inserting a Map entry is a new stamp.
A request is next (`IsNext`) when it wins at every level, and heaviest
(`IsHeaviest`) when it is what `heaviestIn` finds. `release` loops, so it is
split at the loop: `Finish` enters it with a slot in hand (`handing`), `Expire`
is a turn that refuses a stale waiter, `Admit` and `GiveUp` end it; no request
can arrive while it runs. `WaitTooLong` is time passing `maxWaitMs`, in
arrival order because waiters share one limit. `passedBy` is a history variable.

### RateLimiter

`failures` and `inFlight` are the code's two maps, `Record` and `RemoveOne` its
two mutations of them, `phase` the attempt's own `settled` flag and fate. A tick
is one second. `use`, fixed at the start, says which caller the limiter was
created for, since `decide` treats a budget that counts successes differently.
`promise` and `lost` are history variables: the earliest moment at which some refusal has
said a slot frees, and the keys a sweep took with an entry still in its window.
`WindowBudget` excepts the keys in `lost`: see "Where code and comments part".
`Filtered` is `Array.filter` (and `splice`) by places, so that the prover can follow it.

`SlotBudget` is the promise without dates and sweeps: a slot is taken only while the key
has room, what is given back was held, an entry comes from a slot or is recorded while there is
room, and everything else only forgets. `RateLimiter` reads it with the slots of
`inFlight` as `held` and the entries inside the window as `spent` (`Promised`), `Accounts` with its own two
counters (`Limiters`), so what `Accounts` does with the limiters it abstracts is what the limiter allows.

### ReviewPipeline

The tables are sets or functions: `corpus` (`programs`), `keyed` (which rows
carry a source id), `events`, `items`, `rejected`, `browse`, `watches`, `fanned`,
`digest`, `provenance`; `run` and `verify` are what a crawl and a verification
hold across an await. A crawl is `BeginPoll` (the fetch starts), `Diff` (the
page is in: parse, diff, store, queue) and, where an assist is configured,
`Scored` for every item the queueing waits for. `Approve`, `Edit` and `Reject`
are the whole transaction of `POST /api/inbox/:id/decision`: the drain, the
write, the decision row and the reindex. Items may be decided again, as the code
allows. `FinishVerify` is everything after the refetch; `Restart` loses what was
in flight and repeats the boot's reindex and drain.

Abstractions, and why they lose nothing the properties tell apart:

- A record is its hashed content (`terms`) and its status. `deadline_changed`,
  `amount_changed` and `eligibility_changed` are one kind, `terms_changed`: the
  pipeline handles them alike. Two members of `Terms` differ in one of those
  fields; a change of tags or wording alone raises no event in the code.
- Scores are a set of terms below the threshold (`Faint`), tags a set of terms
  that carry `do_not_publish` (`Tagged`).
- One source. Sources share nothing but the fan-out and the tables' other rows.
- Every poll and verification has an instant of its own; event ids, which hash
  the instant, are then distinct.
- Muted stars and the riders of a moved deadline are not in the fan-out yet, nor
  are sources that yield news items instead of programmes.

### DeadlineCycles

A deadline states dates or names the programme it inherits them from. `Publish`
is the write followed by `projectCycles` on the programme and its `Riders`;
`Withdraw` is an approved removal; `Reproject` is the end of a crawl. The
calendar arithmetic is abstract: a rule, seen from today, is a set of dates. The
horizon's daily advance is therefore not modelled. It is the abstract specification of
what happens to the two tables; `CrawlRounds` is who makes it happen.

### CrawlRounds

`crawl[c]` is where the loop of `runCrawl` stands for each of the two crawlers: the source
being asked and the ids still to come, in whatever order the registry or the request
lists them. `switch` is `sources.enabled` together with the audit row that says who turned it off,
`health` what `sourceHealth` reads from the poll columns. `GoesOn` is the turn of the loop that
every end of a poll (`Succeeds`, `Fails`, `IsGone`) and every beginning (`Nightly`, `CrawlNow`)
shares: it asks the next source, breaks on an id nobody knows, or projects every
programme's dates and stops. The timer is armed exactly while no nightly crawl runs, so it
has no variable. What a poll does with its pages is `ReviewPipeline`'s.

### Accounts

`users` is the table in order of insertion, `version` counts an account's
passwords, `sessions` remembers under which of them each was opened. A route that
hashes is `...Begins`, all it does before the await, and what may follow it;
`flight[c]` is what its closure holds meanwhile, the row read before the hash
included, and with it the password version a sign-in is verified against: the session it
opens is that version's, whatever the table holds by then. `raced` is history: a reset came
while the sign-in was being verified (`AnsweredBeside`). `held` and `spent` are what the limiter's keys count: their own rules are
`RateLimiter`'s, as the queue before the hash is `ConcurrencyGate`'s; here any hash
may settle in any order or fail. `WindowPasses` ages an entry, `Restart` empties
what lived in memory and mints a token when the table is empty.

### PoliteFetch

A fetch is a record of where `fetchOne` stands (`at`), which origin's page it is
after, which request it has in hand and what its purse has left. `Consult` is
`robotsFor` up to its await, with the three things it can find in the cache;
`Request` is `gatedRequest` up to the lane; `Sent` is the lane releasing it;
`Retried`, `GaveUp`, `RulesArrive`, `RulesAnswered`, `RulesMoved`, `PageAnswered` and `PageMoved`
are what the headers of an answer lead to, and there the slot of the lane ends
(`fetcher/hostQueue.ts:120`). A body that is wanted is a stage of its own (`BodyAwaited`), ended
by `RulesRead` or `PageRead` with the whole text or broken off, while other requests of the host
may already leave. `quiet`, `until` and `interval` are `HostQueue`'s clock, penalty and
interval per host, as the distance to now. `heard`, `asked`, `cost` and `since` are history: how long
ago a host asked for each wait, unclamped, which Crawl-delay it asked for last, what a fetch spent. Time passes only when no continuation is
ready, as in a process whose event loop is not blocked. Crawl begins by forgetting
the rules (`ForgetRobots`) while reads go on.

### CallsignSource

A press decides twice whether it would reach the source, once to charge the
ration and once to send, reading the clock each time; `PressAtHoldEnd` is the instant
between the two. `AskedToWait` covers a 429 and a 503 that says when to come back.
`owed` is the wait the source last asked for, up to the cap of a day, kept apart from `hold`, what the code
remembers of it. The code keeps the longer of two holds; no question leaves
during a hold, so that branch is never taken by this program.

### Matcher

The state is one profile filled in blank by blank beside one programme; the
verdict is an operator, recomputed as the pages do. One operator per axis of
`evaluateTier`. An `AxisResult` keeps the code's four statuses, the fields it asks
for and whether a funder closed the route by name. Words, distances and dates are
data: a field of study is a set of words, a place is inside a radius or not, a
date is months.

### ProfileForm

`drafts`, `sources` and `stored` are the page's two pieces of state and the server's
profiles. The code never flags who put a value in a box; it compares the value
with what the record put there. `by` is the history those comparisons stand in
for; it takes what comes out of the store for the applicant's own, so `OneLicensee` says nothing
of values an earlier save brought there. `state` stands for the fields stored with a mark, `lat` for the coordinates,
which are stored without. `amiss` is the history of the kinds whose coordinate has lost its
subject (see "Where code and comments part"); a lookup mends it only when it puts a coordinate of its
own in the box or leaves none of a record's, since one that is silent does not
vacate a coordinate the page no longer knows to be a record's. The answer of a save and of a lookup may come after any
edit or change of tab.

### SeedCorrections

A record is four fields: one nothing reads, the deadline's note, a rule and the
sentence displayed of it. `Boot` is import or `applySeedCorrections`, `Read` fetches
`pendingChanges` into the administrator's `list`, `Consent` sends ids of that list,
however old, and recomputes. Witnesses are a union over images, since the shipped
ledger only ever grows. `Publish`, `PublishTwin` and `Withdraw` are what the review
queue does to the same table.

## Runs

| run | shows | instance |
|---|---|---|
| `gate_round` | slot accounting, the round at each level, the share shedding leaves a peer, every waiter answered | 5 requests, 1 slot, 3 waiting places |
| `limiter_budget` | the window's budget, slots, the quoted wait and the ration's sweep, for all three callers | 5 attempts, 2 keys, budget 2, window 2, 4 ticks |
| `review_one` | the review workflow implements `ReviewedCorpus`; nothing suppressed is published | 1 programme, 3 terms, 2 polls, 3 decisions |
| `review_awaits` | watchers, twins, differences and rejections while two crawls wait for the assist, one over the other, and a verification is in flight | 1 programme, 2 statuses, 2 crawls, 1 verification, 1 decision |
| `review_stale` | verify now changes the corpus without a decision (violation) | 1 programme |
| `cycles_heal` | direct riders are always right, the next crawl repairs everything; paused sources are left alone, others polled every night; crawl now reopens | 3 programmes in a chain or loop, 2 sources, 1 unknown id, 1 restart |
| `accounts` | claim, administrators, slots, sessions, charges | 2 clients, 2 addresses, 3 accounts, 1 reset, hashes in flight beside it |
| `callsign` | the hold, reopening | 3 presses of 2 users, waits of 0, 3 and 9 units between a floor of 2 and a cap of 6 |
| `fetch` | pace, purse, rules, every fetch ends | 2 fetches begun at 2 sites, 3 origins on 3 hosts, 1 hop, 1 retry, bodies, a Retry-After of 3 over a cap of 2 |
| `matcher` | decided is final, questions are open, "nothing to fill in" is true | every axis in each form, alone, with an alternative, with a second axis |
| `profile` | what is credited to the source is its record's | 2 kinds, 3 callsigns of 2 licences, 2 edits, 2 lookups, 1 save |
| `seed` | boots, consent and human work | 2 programmes, 3 images, 2 writes |

Why these bounds are enough. The gate's properties speak of at most two groups
of one parent and of one request of each, so five requests with two in one lane,
two origins of a route, two routes of a peer and two peers meet a pair at every level; three
places make shedding choose between lanes.
The limiter needs three overlapping attempts on one key to pass a budget of
two, a fourth for the budget to be passed after a sweep (two entries that settle out of
order, the sweep, two more), a fifth on another key to set off that sweep, and two windows' worth of
ticks. In the review pipeline a property is about one event, one item and one
watcher at a time; two polls give the repeated alarm and the removal that
follows a new record, three decisions give approve-after-reject and a decision
on an item already decided. Two crawls and one decision let the rejection fall before, between and
inside the assist's awaits of either crawl. `MaxInstants` and `MaxDecisions` only stop the run.
A chain of three is the shortest in which inheritance has a
middle; the code's limit of seven hops is kept as it is, though three programmes
reach it only by looping. Two sources are enough for one to fail, be paused or be gone before,
while and after the other is asked, by either crawler. `MaxRestarts` bounds restarts, since a
process that is restarted before every crawl never crawls.

For the accounts two clients behind one address contend for every key, and
a registration can be overtaken by the other's; three rows give an administrator
to delete after two others were made; one reset separates old sessions from new, and the second
client's sign-in can be in flight at it.
The fetcher's two fetches begin at two sites (`Asked`), one of which redirects to the other and that one into
the blocklist (`LeadsTo`): they meet in a lane, a read and a penalty after coming from different
places, one of them still with a body to read, and a purse of three is spent by one hop and one retry.
A chain that comes back to its first host, and fetches of both sites by both, are left to the theorems.
The one Retry-After lies beyond the cap; shorter ones are honoured whole, by the same clause. `Memory`
stops `heard` from counting on where nothing more depends on it. `quiet`, `until` and the ages are distances from now, so no clock
is bounded. The lookup has two presses of one user, which the ration joins, and a
third that it does not; one asked wait lies below the floor, one between and one
beyond the cap. The matcher's constraints are evaluated one by one and
combined by a few rules, so one of each form, and pairs, exercise each rule and
combination; numbers take the values around each bound. Two edits, two lookups and a
save are what it takes to separate a mark from its callsign and bring it back.
Three images let a field change twice and a rule come, change and go. The answers
of a profile, the licences, and the images are listed in the MC modules.

`CHECK_DEADLOCK FALSE` is set for the gate, the limiter and the matcher: there every
request is made, or every blank is filled, once, and the system then rests.

### Fairness

- `gate_round`: a hash that was started settles, and `release`, once entered, runs to
  its end. The first is a property of argon2id, which computes and returns or throws, both
  reaching the `finally`; the second is synchronous code. Nothing is assumed of
  arrivals or of the clock: a waiter is answered by others' settling alone.
- `cycles_heal`: a timer that is armed runs out, and a poll ends, since every fetch does
  (`EveryFetchEnds`). That the timer is armed again, and that `runCrawl` comes to
  `reprojectAllCycles` whatever its sources did, is what is checked.
- `callsign`: every question in flight ends, since one `AbortSignal.timeout` covers both
  awaits, and clocks run. Nobody is bound to press.
- `fetch`: continuations that are ready run, a request that was sent is answered or aborted,
  and clocks run. The last is strong fairness of `Tick`: other fetches that are
  refused at once can make continuations ready again and again, yet a timer's time
  passes all the same.

No other run assumes fairness; the rest are safety.

## Where code and comments part

One is a run expected to find a violation, `review_stale`: verify now writes back
the record it read before its fetch. An approval during the fetch is undone; a
removed programme comes back, without its source id, so later crawls no longer
see it as published. `PROJECT.json` quotes the comment it contradicts.

The others were met while modelling. Where a property is named, its module states
it, no run of the project checks it, and putting it into the named run's
configuration shows the counterexample.

- `RateLimiter.SweepSparesLive` (`limiter_budget` with `Uses = {"ladder"}`): entries are
  dated from the start of an attempt and appended when it settles, so a key's last entry
  need not be its newest. The sweep (`auth/rateLimit.ts:764`) looks only at the last
  one and can delete a key with an entry still in the window, after which the key's budget
  counts from less than it should: `WindowBudget` over all of `Keys`, without excepting
  `lost`, is violated in `limiter_budget` with `Uses = {"ladder"}` too, and needs its fifth attempt.
  It takes 1024 keys in the map and attempts of one key that settle out of order.
  For the same reason the
  wait a shut registration budget quotes can be longer than the remaining life of its
  oldest slot; it is never too short (`QuoteIsKept`).
- `ReviewPipeline.MovedStatusResurfaces` (`review_one` with two statuses): the reject key
  (`review/index.ts:55`) hashes what `hashProgram` covers, which the status is not; the
  comment above it says a moved status gets a new key.
- `ReviewPipeline.RemovalsAreNeverSwallowed` (`review_one` with `Seeds <- EmptyOrOne`): the reject memory
  (`review/index.ts:239`) does not know the kind of the event, and removals have no exemption
  from it, as they have from every other gate.
- `DeadlineCycles.CyclesMatchCorpus` (`cycles_heal`): with a
  programme that rides one that rides a third, approving the middle one last leaves
  the far one without dates until the next crawl (`review/index.ts:369`).
- `CrawlRounds.GoneIsSaid` (`cycles_heal`): when every address of a source answers 410 the crawl
  turns it off; the row "keeps its `last_error`, which names the status and the address" for
  whoever would turn it on again (`crawl/runner.ts:272`). If the other crawl had asked before and gets
  a page, `recordPollSuccess` clears that error: the source is off, and shown as healthy. The
  manual guard is there because two crawls "race each other's `sources` bookkeeping"
  (`api/sourcesRouter.ts:228`), but it does not look at the nightly one.
- The pause is read when a crawl begins (`crawl/runner.ts:618`), not before each source, so a
  crawl that is running still asks a source paused meanwhile; `PausedIsLeftAlone` says that and no
  more. A minimum an administrator sets for a source is overwritten by the registry's at its next
  poll (`db/repositories/ingestion.ts:283`).
- With an assist, the reject memory is read before an await and the item inserted after it
  (`review/index.ts:239`, `:244`), so a crawl that is waiting when its content is rejected on
  another crawl's item queues it all the same. `RejectionHolds` excepts the crawls that hold
  rejected content at that moment, and says that after the last of them the rejection is final.
- `Accounts.ResetEndsOldPassword` (`accounts`): a sign-in verifies the hash read before its await
  (`api/auth.ts:1841`) and then opens a session without looking again (`:1940`). A reset completed
  in between removes the sessions there are, and the old password opens one more, of full
  length. The comment at `api/adminUsersRouter.ts:271` says that a reset "that leaves the holder's cookie
  working has reset nothing". `SessionsAreCurrent` excepts exactly the sign-ins that were being
  verified then.
- `PoliteFetch.HonoursRetryAfter` (`fetch` with `Memory = 3`): the repository's `README.md:165` says
  "Ask for 30 s and you get 30 s" and that the longest wait wins, and `backoffMs` that
  "Retry-After wins outright" (`fetcher/index.ts:212`); 30 s is also all one gets, since
  `MAX_BACKOFF_MS` cuts whatever is longer. `Polite` promises the cap.
- `PoliteFetch.ChainedEndToEnd` (`fetch`): requests to a host are "chained end-to-end"
  (`fetcher/hostQueue.ts:16`), but a slot ends with the headers, and the next request may leave while
  the body is still arriving. `Polite` counts from headers to requests.
- `Polite` with two asking origins on one host (`fetch` with `HostOf <- MCOneHost` and
  `Delays <- MCTwoDelays`): `HostQueue.setMinInterval` keeps what the origin judged last asked
  for, so a page of the slower origin can leave at the other's pace. One origin is enough when the
  delay it asks for moves between two reads (`Delays <- MCVaried`, with both fetches after its
  pages, `Asked <- MCAlike`): a page judged under the older
  rules is let through after one judged under the newer, and puts the older interval in force again.
- `ProfileForm.CoordinateCreditIsTrue` (`profile`): the answer of a save replaces the marks by
  those of the stored profile but carries the coordinate's provenance on
  (`Profile.tsx:739`). A lookup accepted while the save is in flight, or a callsign edited
  before it, leaves a coordinate credited to a callsign whose record does not state it.
  The run checks what holds otherwise, `CoordinateCreditIsTrueIfKept`. The same answer also
  overwrites what was typed while it was on its way.
- The id of a change of rules (`seed/consentedCorrections.ts:558`) is a digest of the rules
  alone. The sentence that is added or dropped with a rule is therefore not covered by what an
  administrator consented to; `ConsentMovesWhatWasRead` excepts it.
- `Matcher.NothingToFillInIsFinal` excepts an organization's callsign. Its call district is
  dropped from the questions as a field the profile does not have
  (`matcher.ts:1216`), although a callsign, which it does have, would settle the district.
  `CatalogueAssumption` also leaves out what no extractor writes: a school requirement beside
  alternatives, or alternatives on a field of study that exclude other subjects than the first.
  There a refusal by name is known only once enough blanks are filled, and an alternative can
  have passed before: an admission would be taken back.

## Proofs

TLAPS proves, for all values of the constants that satisfy the modules'
assumptions:

`ConcurrencyGateProofs` (from `GateAssumption`: finitely many requests, at least
one slot and one place, three-part lanes)

- `TypeCorrect`, `SlotsAreAccounted`, `QueueIsBounded`, `RoundIsFair`, `ShareIsKept`. The
  inductive invariant is `IInv`: the type invariant, the two safety invariants
  and `TurnOrder` - whoever was taken from since a group's last turn stands
  behind it in the round, and no stamp is in the future. `RoundRobin` needs
  `TurnOrder`, since the one taken is the one with the least stamp, hence not
  among those already taken since. `SlotsAccounted` needs its last conjunct,
  that nobody waits while a slot is free, for `GiveUp` not to break the first.
  `FairShare` rests on a pigeonhole: a set split into parts of at most k members, one for each
  member of T, is no larger than |T| times k (its members inject into T and 1..k, so no
  induction is needed), hence the heaviest peer of a full queue, the one shed from, has an equal part.

`ReviewPipelineProofs` (from `ConstantsAssumption`)

- `TypeCorrect`. The strengthening `TypeInv` adds that events name a programme
  unless they are yield alarms, that items rest on stored events with a
  candidate, and that what a crawl holds across the assist's awaits has passed
  the gates: without the last, `Scored` could queue anything.
- `BrowseIsFaithful`; `SuppressedStaysUnpublished`, from `SnapshotsAreLive`, that a
  verification only ever holds a record that was not suppressed when read; 
  `SuppressedStaysUnqueued`; `LedgerIsComplete`.
- `WatchersHear`, through a lemma that a finite set of due events with one alarm
  has an oldest, which is the one told; `DigestHasNoTwins`, from `Dated`, that no two
  polls or verifications share an instant, hence no two stored events with the
  same alarm do.
- `RejectionsHold`, for any crawls and with the assist's awaits: a key is settled when it is rejected
  and no crawl waits with it in hand. What a crawl takes in hand after an await, or queues at once,
  has passed the memory as it is in that step, and nothing ever leaves the memory; so a settled key
  stays settled and only what was queued before can be queued under it.
- `DifferencesAreQueued`, for any crawls, decisions, verifications and restarts in
  any interleaving. The invariant is `CrawlsAccount`, checked by TLC on the instance of
  `review_awaits` before it was proved: between two awaits every event of a crawl's
  instant that proposes something is still held by it and not yet queued, or is queued, or
  withheld for a reason that does not lapse. It needs `Dated`: were the instant of a page that arrives
  shared with a stored event, that event would be none of the crawl's doing.
- `ImplementsReviewedCorpus`, for `Verifiers = {}`: every step is a step of
  `ReviewedCorpus` or leaves its variables alone. The condition is needed:
  `review_stale` is the counterexample without it.

`AccountsProofs` (from `AccountsAssumption`)

- `AdministratorRemains`, `ClaimedOnce`, `AddressesAreUnique`, `SlotsAreAccounted`,
  `SessionsStayCurrent`, `RegistrationsAreCharged` and types. The invariant `IInv` has a part
  about the tables and one about the limiter, and most actions touch one of them, so the
  step is split by shape: every action inserts a row, changes one, deletes one or
  leaves the table alone (`TableShape`), and takes slots, gives its own back or leaves them
  alone (`LimiterStep`); each shape keeps its part. `ClaimedOnce` needs that a token that
  can still be redeemed, or a claim still hashing, means that no account was ever
  made, and that there is at most one such claim; `SessionsStayCurrent` needs `FlightsAreCurrent`, that
  a sign-in still being verified holds the present version of its account's password or was marked by
  the reset that replaced it; `SlotsAreAccounted` counts, by one
  lemma on the cardinality of the requests that hold a key.
- `RoutesKeepThePromise`: every step of the routes is a step of `SlotBudget` or leaves the counters
  alone. That nobody gives back what it does not hold needs `SlotsAreAccounted`.

`CallsignLookupProofs` (from `CallsignAssumption` and `FormAssumption`)

- `OneQuestion`, `HoldsAreHonoured`, `QuestionsAreCharged` and types. The strengthening of
  `HoldIsHonoured` is that what is owed never exceeds the hold: the code's clamp to
  floor and cap and its never shortening a hold are what keep it.
- `MarksStayTrue`, `CoordinateCreditStaysTrue`, `OneLicenseeOnAProfile` and types of the profile
  editor, for any kinds, callsigns, records and things typed (a record's values are among what can be
  typed, since they can be). `FormInv` says of the sources held that each mark is what the
  record read states (`SourcesTrue`); of the boxes that whatever a record put there is still
  marked, so that the code's comparison of values and the history agree (`BoxesTrue`); of a
  stored profile, and of the save in flight, that its marks are about its own callsign and its
  own values (`ProfileTrue`); and of a save that the coordinate it carries is still the one its kind
  holds (`SavingTrue`), without which the echo could not keep `BoxesTrue`.

`RateLimiterProofs` (from `LimiterAssumption`: finitely many attempts and keys, any window,
budget and sweep floor)

- `LimiterBudget`, `LimiterSlots`, `LimiterQuotes`, `LimiterRation` and types, from `LimiterInv`, which is
  stated key by key (`KeyInv`): `Slots`, that the slots held and the running attempts pair off, in
  order; `Entries`, that every attempt recorded in the window has an entry to itself unless a
  sweep took the key (`lost`); `Ceiling`, that young entries and slots together never pass the
  budget; `Ration`, that where check and record are one breath entries ascend; `Quote`, that at the
  moment promised one of the entries and slots held now has left the window; `Budget`, the property
  itself, since attempts outside the window may still hold slots. The
  step is proved for the key of the attempt, one lemma per action, and once for all the other keys, which
  an attempt can only sweep (`PassedKeeps`). Half the module is lemmas about sequences:
  `FilteredSelects`, that filtering keeps exactly the chosen places in order, `YoungFiltered`,
  `YoungAppended` and `RemovedIsFewer`, which count the entries of a window, and the pairing of
  attempts and entries through each of them (`PairedRemoved`: the slot given back may be
  another attempt's of the same date, and then the two attempts swap).

- `LimiterKeepsItsPromise`: the limiter implements `SlotBudget`, each call as the step of the promise it
  is. `Slots` gives that a running attempt has a slot to give back; a `reset`, a sweep and the passing of time only
  forget; and a charge dated outside the window adds no young entry, which is why the promise says at
  most one more.

`CrawlRoundsProofs` (from `RoundsAssumption` and `CandidatesAssumption`)

- `DatesAreRight` and types, of `DeadlineCycles`, for any programmes and any inheritance between
  them. Only one hop of the chain matters to a direct rider, which `OwnsItself` and
  `RidesDirectly` establish about the seven-hop walk.
- `PausedSourcesAreLeftAlone` and types, for any sources and requests. The invariant says that
  whoever is still to ask a source that is off was running when it was turned off, and that no
  crawl asks a source twice; one lemma (`LoopTurns`) says what a turn of the loop leaves, and every end
  or beginning of a poll is an instance of it.
- `ImplementsCycles`: every step is a step of `DeadlineCycles` or leaves its tables alone, so
  `DatesStayRight` follows from `DatesAreRight` without another induction.
- `RiddenGoWrong`: dates that are right go wrong only by a decision about a programme that another
  one inherits from, which is withdrawn or comes to inherit itself; `OnlyDecisionsGoWrong` carries it to
  the crawls through `ImplementsCycles`. It says what `CyclesHeal` has to repair. The walks of the other
  programmes are followed through the decision (`UnwrittenStayRight`), to the end of their seven hops.

`PoliteFetchProofs` (from `FetchAssumption`)

- Types; `FetchCostsOnePurse`, since what a fetch has sent, has left and has queued always add up
  to one purse; `RulesAlwaysGovern`; `FloorIsKept`, all of `Polite` but the Crawl-delay, for all
  constants. The invariant `FetchInv` has five parts besides types: `JobsOK`, what a fetch may be
  after and under which rules; `ReadsOK`, that whoever awaits somebody's read awaits one that goes on, for
  the page it is itself after, though the cache may have been cleared; `LanesOK`, that a queued
  fetch has its place and only the head of a lane is in flight, hence one; `RestOK`, that a fetch has
  rested as long as the host it last asked has been quiet, or its lane is held for the difference, which
  which is what `paceAcrossHostChange` is for; `HeardOK`, that what has passed since a host asked for a
  wait and what its lane is still held for make up the wait or the cap (`defer` only ever prolongs).
- `PoliteAtSteadyPace`: all of `Polite`, where the origins of each host ask for one Crawl-delay
  (`SteadyPace`). The condition is needed, as the two counterexamples above show; the run's constants
  satisfy it.
- `NobodyWaitsInACircle` and `FetchRunsDown`, the safety that `EveryFetchEnds` rests on. The first needs
  `LaneExact`, that a lane holds nobody but those who wait in it and each once: `LanesOK` alone
  would let a lane be headed by a fetch that is elsewhere. The second
  counts the steps a fetch has left, six for each request its purse still pays for and the stage it is at:
  each of its own steps lowers the count, and no other fetch, cleared cache or unit of time raises
  it, so a fetch takes at most 6 * `Purse` + 4 steps. What is left to the model checker is that
  it does take them, under fairness.

`RecordProofs`, about `SeedCorrections` (from `SeedAssumption`, by which a record has a displayed
sentence exactly when it has a rule)

- `CorrectionsHaveAWayIn`, `AnswersSurviveBoots`, `WorkIsKept`, `ConsentIsInformed` and types, for any
  images, records and edits. A boot makes its corrections one after another, so each is followed
  from the record the one before it left: a field ends as the image's text or as it was, and the
  meaning never moves. `ConsentIsInformed` needs `RulesAreDisplayed`, that a rule comes and goes
  with its sentence, which every write keeps.

`RecordProofs`, about `Matcher` (from `CatalogueAssumption`, what the extractors write: alternatives
only on a licence, a place or a field of study, those of a field of study with the exclusions of the
first (`normalize/axes/license.ts:162`, `geography.ts:678`, `:873`, `fieldOfStudy.ts:602`))

- `VerdictsAreFinal`, `NothingToFillInStays`, `QuestionsStayOpen` and types, for any programmes and any
  answers. Each axis is shown `Steady`: a decided result stays as it is, and so does an unknown
  that names no field this profile has (`Shut`), unless an organization's callsign changes. `EitherSteady`
  and `EverySteady` carry that from the questions of an axis to the axis. A school is the exception, as a
  refusal may become a refusal by name (`Keeps`). `SeveralKeep` weighs alternatives, where a refusal by
  name of the first would overrule one that has passed: `BarredIsNotNews` shows it cannot, because
  the exclusions are the same. `VerdictRule` restates the verdict by its hard constraints, before
  and after the step. For the questions, `Honest` says of every result that what it asks for is open.
- The verdict is not inductive by itself: that these properties hold of every step needs only the
  types, for they relate a step to the one before; what takes work is that thirteen axes, disjunctions
  and exceptions all keep the order from unknown to decided.

Only model-checked: liveness (`EveryWaiterAnswered`, `CyclesHeal`, `EnabledIsAsked`,
`CrawlNowReopens`, `LookupReopens`, `EveryFetchEnds`), which is beyond the prover. The properties the proofs
establish and no run repeats (the type invariants, `QueueBounded`, `BrowseMirrorsCorpus`,
`NothingSuppressedIsQueued`, `LedgerCoversDigest`, `OneAccountPerAddress`, `WithinCeilings`,
`OneQuestionAtATime`, `ChargedIffAsked`) are listed without a run. So are `KeepsItsPromise`, `UsesOnlyThePromise`,
`OnlyRiddenGoWrong`, `NoCircle` and `RunsDown`: each was model-checked before it was proved, the first two on the
constants of `RateLimiterBudget.cfg` and `Accounts.cfg`, the third on four programmes, the
last two on two fetches.

## Not modelled

The hourly limit on
verify now; the cron expression and its jitter, which only say when the timer runs out; the record counts and ages that
refine a source's health; the riders of a moved deadline in the fan-out; signal sources, snapshots, salvage and follow-ups of the
crawl; the arithmetic of recurring deadlines. Parsers and normalisation (amounts, deadlines, places), exports, prose checks, templates
and notification channels only transform text or talk to outside services, and
hold no state anything else relies on: what a page says is an input here. The
web client's other routes show what the API answers. Migrations run once, before
anything else. The order in which a crash can interrupt a crawl between storing events and
queueing items is not stated as a property: only another crawl of an unchanged
page would repair it, and nothing makes a page hold still. A write of SQLite that fails is not modelled
either: where `POST /crawl` appends its audit row between taking the guard and the `try`
(`api/sourcesRouter.ts:362`), such a failure would leave the guard taken, which `CrawlNowReopens` does
not cover.

## Plan

Done: the gate, the limiter, the review pipeline and its abstract specification, cycles,
crawls and sources, accounts, the fetcher, the callsign lookup, the matcher, the profile editor, seeds and
corrections, with the proofs above. Left, in this order:

1. Fan-out with deadline riders, shared between `ReviewPipeline` and `DeadlineCycles`; the
   verify limit.
2. Deadline recurrence as functions, checked against a reference definition over
   bounded calendars.
3. The crawl's follow-up phase and signal sources.
