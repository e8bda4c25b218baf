----------------------------- MODULE CrawlRounds -----------------------------
(***************************************************************************)
(* The crawls that keep the cycles table of DeadlineCycles right: the      *)
(* nightly one, whose timer is armed again whatever became of the last     *)
(* (crawl/scheduler.ts), and the one an administrator asks for             *)
(* (api/sourcesRouter.ts), side by side.  Both walk the sources one after  *)
(* another (crawl/runner.ts), keep the books of each poll in the sources   *)
(* table, and end by projecting every programme's dates.  An action is the *)
(* end of one poll and the beginning of the next; what a poll does with    *)
(* the pages it read is ReviewPipeline's.                                  *)
(***************************************************************************)
EXTENDS DeadlineCycles

CONSTANTS
    Sources,       \* the registry
    Requests,      \* the sets of ids a crawl may be asked for, unknown ones among them
    CrawlEnabled,  \* configuration: is the scheduler on?
    NoSource,
    MaxRestarts    \* bound: restarts of the process

Crawlers == {"nightly", "manual"}
Ids == Sources \cup UNION Requests
Idle == [asking |-> NoSource, left |-> {}]

ASSUME RoundsAssumption ==
    /\ NoSource \notin Ids
    /\ CrawlEnabled \in BOOLEAN
    /\ MaxRestarts \in Nat

VARIABLES
    switch,    \* sources.enabled, and who the audit row says turned it off
    health,    \* what sourceHealth makes of the poll columns of a source
    crawl,     \* runCrawl's loop: the source being asked, the ids left
    inFlight,  \* the manual crawl's guard
    underway,  \* history: the crawls that were running when a source was paused
               \* and have neither asked it since nor ended
    restarts

rounds == <<switch, health, crawl, inFlight, underway>>
roundVars == <<corpus, cycles, rounds, restarts>>

Enabled(s) == switch[s] = "on"
Paused == {s \in Sources : ~Enabled(s)}
Running == {c \in Crawlers : crawl[c] # Idle}

---------------------------------------------------------------------------
(* The loop of runCrawl *)

\* recordPollStart: a source nobody polled gets its row.
Polled(state) == IF state = "never_polled" THEN "stale" ELSE state

\* The loop goes on to one of the ids left.
Asks(c, left, states, were) ==
    \E s \in left \cap Sources :
        /\ crawl' = [crawl EXCEPT ![c] = [asking |-> s, left |-> left \ {s}]]
        /\ health' = [states EXCEPT ![s] = Polled(@)]
        /\ underway' = [were EXCEPT ![s] = @ \ {c}]
        /\ inFlight' = (inFlight \/ c = "manual")
        /\ UNCHANGED <<corpus, cycles, restarts>>

\* The crawl is over; the request that asked for it is answered either way.
Stops(c, states, were) ==
    /\ crawl' = [crawl EXCEPT ![c] = Idle]
    /\ health' = states
    /\ underway' = [s \in Sources |-> were[s] \ {c}]
    /\ inFlight' = (inFlight /\ c # "manual")
    /\ UNCHANGED restarts

\* Mutant: only a crawl that ends well releases the guard.
BreaksHeld(c, left, states, were) ==
    /\ left \ Sources # {}
    /\ crawl' = [crawl EXCEPT ![c] = Idle]
    /\ health' = states
    /\ underway' = [s \in Sources |-> were[s] \ {c}]
    /\ inFlight' = (inFlight \/ c = "manual")
    /\ UNCHANGED <<corpus, cycles, restarts>>

\* getSource knows no such id: the loop is left, and nothing is projected.
Breaks(c, left, states, were) ==
    /\ left \ Sources # {}
    /\ Stops(c, states, were)
    /\ UNCHANGED <<corpus, cycles>>

\* Nothing is left: reprojectAllCycles.
Ends(c, left, states, were) ==
    /\ left = {}
    /\ Stops(c, states, were)
    /\ Reproject

GoesOn(c, left, states, were) ==
    \/ Asks(c, left, states, were)
    \/ Breaks(c, left, states, were)
    \/ Ends(c, left, states, were)

\* Mutant: the pause is looked at by the nightly crawl only.
BeginsUnfiltered(c, ids) ==
    /\ crawl[c] = Idle
    /\ GoesOn(c, IF c = "nightly" THEN ids \ Paused ELSE ids, health, underway)
    /\ UNCHANGED switch

\* The pause is looked at once, when the crawl begins.
Begins(c, ids) ==
    /\ crawl[c] = Idle
    /\ GoesOn(c, ids \ Paused, health, underway)
    /\ UNCHANGED switch

---------------------------------------------------------------------------
(* How a poll ends *)

\* The crawls that may still ask s are those running when it was turned off.
PausedNow(s) == [underway EXCEPT ![s] = IF Enabled(s) THEN Running ELSE @]

\* A page was read: recordPollSuccess.  However few records it held, it is no failure.
Succeeds(c) ==
    LET s == crawl[c].asking
    IN  /\ crawl[c] # Idle
        /\ UNCHANGED switch
        /\ GoesOn(c, crawl[c].left, [health EXCEPT ![s] = "healthy"], underway)

\* Mutant: what a source throws ends the crawl.
FailsForAll(c) ==
    /\ crawl[c] # Idle
    /\ UNCHANGED <<switch, corpus, cycles>>
    /\ Stops(c, [health EXCEPT ![crawl[c].asking] = "failing"], underway)

\* No page, or an error anywhere on the way: recordPollFailure.
Fails(c) ==
    LET s == crawl[c].asking
    IN  /\ crawl[c] # Idle
        /\ UNCHANGED switch
        /\ GoesOn(c, crawl[c].left, [health EXCEPT ![s] = "failing"], underway)

\* Every address of the source is gone for good: stopPolling, then the failure.
IsGone(c) ==
    LET s == crawl[c].asking
    IN  /\ crawl[c] # Idle
        /\ switch' = [switch EXCEPT ![s] = IF Enabled(s) THEN "gone" ELSE @]
        /\ GoesOn(c, crawl[c].left, [health EXCEPT ![s] = "failing"], PausedNow(s))

Answered(c) == Succeeds(c) \/ Fails(c) \/ IsGone(c)

---------------------------------------------------------------------------
(* Who starts crawls, and who turns sources off *)

\* The timer runs out.  It is armed at boot and again when its crawl is over.
Nightly == CrawlEnabled /\ Begins("nightly", Sources)

\* POST /api/sources/crawl, refused while one it started is running.
CrawlNow(ids) == ~inFlight /\ Begins("manual", ids)

\* PATCH /api/sources/:id; there is no row before the first poll.
Configure(s, on) ==
    /\ health[s] # "never_polled"
    /\ switch' = [switch EXCEPT ![s] = IF on THEN "on" ELSE "off"]
    /\ underway' = IF on THEN [underway EXCEPT ![s] = {}] ELSE PausedNow(s)
    /\ UNCHANGED <<corpus, cycles, health, crawl, inFlight, restarts>>

\* What was in memory is gone; the timer is armed, and the table stays.
Restart ==
    /\ restarts < MaxRestarts
    /\ restarts' = restarts + 1
    /\ crawl' = [c \in Crawlers |-> Idle]
    /\ inFlight' = FALSE
    /\ underway' = [s \in Sources |-> {}]
    /\ UNCHANGED <<corpus, cycles, switch, health>>

\* Reviewers go on deciding all the while.
Decide ==
    /\ \/ \E c \in Candidates : Publish(c[1], c[2])
       \/ \E p \in Removable : Withdraw(p)
    /\ UNCHANGED <<rounds, restarts>>

---------------------------------------------------------------------------
RoundsInit ==
    /\ Init
    /\ switch = [s \in Sources |-> "on"]
    /\ health = [s \in Sources |-> "never_polled"]
    /\ crawl = [c \in Crawlers |-> Idle]
    /\ inFlight = FALSE
    /\ underway = [s \in Sources |-> {}]
    /\ restarts = 0

RoundsNext ==
    \/ Nightly
    \/ \E ids \in Requests : CrawlNow(ids)
    \/ \E c \in Crawlers : Answered(c)
    \/ \E s \in Sources, on \in BOOLEAN : Configure(s, on)
    \/ Decide
    \/ Restart

RoundsSpec == RoundsInit /\ [][RoundsNext]_roundVars

\* A process that is up fires its timer, and no fetch lasts for ever.
FairRounds ==
    /\ RoundsSpec
    /\ WF_roundVars(Nightly)
    /\ \A c \in Crawlers : WF_roundVars(Answered(c))

---------------------------------------------------------------------------
(* Properties *)

RoundsTypeOK ==
    /\ TypeOK
    /\ switch \in [Sources -> {"on", "off", "gone"}]
    /\ health \in [Sources -> {"never_polled", "stale", "failing", "healthy"}]
    /\ crawl \in [Crawlers -> [asking : Sources \cup {NoSource}, left : SUBSET Ids]]
    /\ inFlight \in BOOLEAN
    /\ underway \in [Sources -> SUBSET Crawlers]
    /\ restarts \in 0..MaxRestarts

\* Whoever turned a source off, an administrator or its own answer, it is asked
\* again before it is turned on by no crawl that begins later, and at most once by
\* one that was running already, the other crawler's as well as this one's.
PausedIsLeftAlone ==
    [][\A c \in Crawlers, s \in Sources :
            crawl[c].asking # s /\ crawl'[c].asking = s /\ ~Enabled(s) => c \in underway[s]
      ]_roundVars

\* Whatever fails, is paused, breaks or restarts around it, a source that stays on
\* is polled night after night.
EnabledIsAsked ==
    \A s \in Sources : <>[]Enabled(s) => []<>(crawl["nightly"].asking = s)

\* However a crawl an administrator asked for ends, another can be asked for.
CrawlNowReopens == inFlight ~> ~inFlight

\* A source that its own answer turned off shows the reason.  False while two
\* crawls run: the other's page, asked for before, wipes it.
GoneIsSaid == \A s \in Sources : switch[s] = "gone" => health[s] = "failing"
===========================================================================
