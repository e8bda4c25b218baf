------------------------------ MODULE PoliteFetch ------------------------------
(***************************************************************************)
(* The polite fetcher (packages/server/src/fetcher): fetchOne and          *)
(* readRobots walking their redirect chains, the purse one fetch may       *)
(* spend, the robots cache the fetches of a process share, and HostQueue,  *)
(* the lane every single request of a host goes through.                   *)
(*                                                                         *)
(* A fetch proceeds from await to await.  Time is counted in units and     *)
(* passes only when no fetch has a continuation ready to run.  Counters    *)
(* run down or up to their largest bound, never further.                   *)
(***************************************************************************)
EXTENDS Integers, Sequences

CONSTANTS
  Fetches,     (* fetches in progress at once                               *)
  Origins,     (* scheme, host and port                                     *)
  HostOf,      (* [Origins -> host], as normalizeHost names it              *)
  Blocked,     (* origins on the blocklist                                  *)
  Asked,       (* [Fetches -> origins the pages it is asked for are at]     *)
  LeadsTo,     (* [Origins -> origins a redirect there may name]            *)
  Floor,       (* defaultMinIntervalMs, in units                            *)
  Delays,      (* [Origins -> what a Crawl-delay there may ask for]         *)
  RetryAfters, (* what a Retry-After may ask for, beyond BackoffCap or not  *)
  Backoff,     (* a wait of our own after an unexplained failure            *)
  BackoffCap,  (* MAX_BACKOFF_MS                                            *)
  MaxHops,     (* maxRedirects, and ROBOTS_MAX_REDIRECTS                    *)
  MaxRetries,
  RobotsTtl,   (* ROBOTS_CACHE_TTL_MS                                       *)
  UnreadTtl,   (* ROBOTS_UNREAD_CACHE_TTL_MS                                *)
  Memory       (* bound: how many units the history of waits counts         *)

Hosts == {HostOf[o] : o \in Origins}

(* What stands for no host, no fetch.                                      *)
Nowhere == "nowhere"
Nobody  == "nobody"

AllDelays == UNION {Delays[o] : o \in Origins}

ASSUME FetchAssumption ==
  /\ Nobody \notin Fetches /\ Nowhere \notin Hosts
  /\ Blocked \subseteq Origins /\ Asked \in [Fetches -> SUBSET Origins]
  /\ Floor \in Nat \ {0} /\ Backoff \in Nat /\ BackoffCap \in Nat
  /\ Backoff <= BackoffCap
  /\ Delays \in [Origins -> SUBSET Nat] /\ RetryAfters \subseteq Nat
  /\ \E d \in AllDelays \cup {Floor} : \A e \in AllDelays \cup {Floor} : e <= d
  /\ Memory \in Nat /\ BackoffCap <= Memory
  /\ MaxHops \in Nat /\ MaxRetries \in Nat
  /\ RobotsTtl \in Nat /\ UnreadTtl \in 0..RobotsTtl

Larger(a, b)  == IF a > b THEN a ELSE b
Smaller(a, b) == IF a < b THEN a ELSE b

(* maxRequestsPerFetch: hops and retries are added, never multiplied.      *)
Purse == MaxHops + MaxRetries + 1

LongestDelay ==
  CHOOSE d \in AllDelays \cup {Floor} : \A e \in AllDelays \cup {Floor} : e <= d

(* What a read of robots.txt leaves: rules that were read, or the back-off *)
(* of one that was not.  A page's path is allowed or not; delay 0 is a     *)
(* file that asks for none.                                                *)
Read(o, delay, allowed) ==
  [of |-> o, allowed |-> allowed, delay |-> delay, wasRead |-> TRUE]
Unread(o) == [of |-> o, allowed |-> FALSE, delay |-> 0, wasRead |-> FALSE]
NoRules(o) == Read(o, 0, TRUE)
RulesOf(o) ==
  {Read(o, d, TRUE) : d \in Delays[o] \cup {0}} \cup {Read(o, 0, FALSE), Unread(o)}

VARIABLES
  fetch,    (* what each fetch is doing                                     *)
  robots,   (* robotsCache: the entry of each origin                        *)
  lane,     (* the requests queued on each host, the first one perhaps sent *)
  interval, (* HostQueue.intervals                                          *)
  quiet,    (* units since a host last began to answer a request of ours,   *)
            (* or failed to                                                 *)
  until,    (* units until HostQueue.notBefore                              *)
  heard,    (* history: units since a host last asked for each wait         *)
  asked     (* the Crawl-delay last read at each origin                     *)

vars == <<fetch, robots, lane, interval, quiet, until, heard, asked>>

NoEntry == [reader |-> Nobody, rules |-> Unread(Nowhere), age |-> 0, kept |-> FALSE]
Idle    == [at |-> "idle"]

(* at is where the fetch is: "consult" and "judge" before and after it     *)
(* awaits the rules, "awaiting" somebody else's read, "request" about to   *)
(* queue one, "queued", "sent" until the headers are there, "body" while   *)
(* the rest arrives.  page is the origin of the page, target of the        *)
(* request in hand, which reads rules or is the page itself; cost is what  *)
(* it has sent, since the units since it last had one without headers.     *)
Fresh(o) ==
  [at |-> "consult", page |-> o, target |-> o, reading |-> FALSE, hop |-> 0,
   robotsHop |-> 0, tries |-> 0, left |-> Purse, last |-> Nowhere,
   rules |-> Unread(Nowhere), awaits |-> Nobody, cost |-> 0, since |-> Floor]

Host(f) == HostOf[fetch[f].target]

(* f goes on as job says; no other fetch does anything.                    *)
Goes(f, job) == fetch' = [fetch EXCEPT ![f] = job]

-----------------------------------------------------------------------------
(* HostQueue.                                                              *)

(* Mutant: the last penalty is the one that counts.                        *)
DeferredAnew(h, wait) == [until EXCEPT ![h] = wait]

(* defer: only ever later.                                                 *)
Deferred(h, wait) == [until EXCEPT ![h] = Larger(until[h], wait)]

MinInterval(h) == Larger(Floor, interval[h])

(* releaseAt has passed and the lane is this fetch's.                      *)
MayLeave(f) ==
  /\ fetch[f].at = "queued"
  /\ Head(lane[Host(f)]) = f
  /\ quiet[Host(f)] >= MinInterval(Host(f))
  /\ until[Host(f)] = 0

Sent(f) ==
  /\ MayLeave(f)
  /\ Goes(f, [fetch[f] EXCEPT !.at = "sent", !.cost = @ + 1, !.since = 0])
  /\ quiet' = [quiet EXCEPT ![Host(f)] = 0]
  /\ UNCHANGED <<robots, lane, interval, until, heard, asked>>

-----------------------------------------------------------------------------
(* fetchOne.                                                               *)

Start(f, o) ==
  /\ fetch[f] = Idle
  /\ o \notin Blocked
  /\ Goes(f, Fresh(o))
  /\ UNCHANGED <<robots, lane, interval, quiet, until, heard, asked>>

(* Mutant: a read that failed is believed as long as one that did not.     *)
CachedAlike(o) == robots[o].kept /\ robots[o].age < RobotsTtl

Cached(o) ==
  /\ robots[o].kept
  /\ robots[o].age < IF robots[o].reader # Nobody \/ robots[o].rules.wasRead
                       THEN RobotsTtl ELSE UnreadTtl

(* robotsFor: a cached verdict, a read somebody else has begun, or a read  *)
(* of our own, which the cache keeps from its first moment.                *)
Consult(f) ==
  LET o == fetch[f].page IN
  /\ fetch[f].at = "consult"
  /\ \/ /\ Cached(o) /\ robots[o].reader = Nobody
        /\ Goes(f, [fetch[f] EXCEPT !.at = "judge", !.rules = robots[o].rules])
        /\ UNCHANGED robots
     \/ /\ Cached(o) /\ robots[o].reader # Nobody
        /\ Goes(f, [fetch[f] EXCEPT !.at = "awaiting", !.awaits = robots[o].reader])
        /\ UNCHANGED robots
     \/ /\ ~Cached(o)
        /\ robots' = [robots EXCEPT ![o] =
             [reader |-> f, rules |-> Unread(o), age |-> 0, kept |-> TRUE]]
        /\ Goes(f, [fetch[f] EXCEPT !.at = "request", !.reading = TRUE])
  /\ UNCHANGED <<lane, interval, quiet, until, heard, asked>>

(* The rules are known: the page is refused, or its delay is put in force  *)
(* and it is asked for.                                                    *)
Judge(f) ==
  /\ fetch[f].at = "judge"
  /\ \/ /\ ~fetch[f].rules.allowed
        /\ Goes(f, Idle)
        /\ UNCHANGED interval
     \/ /\ fetch[f].rules.allowed
        /\ interval' = IF fetch[f].rules.delay = 0 THEN interval
                       ELSE [interval EXCEPT ![HostOf[fetch[f].page]] = fetch[f].rules.delay]
        /\ Goes(f, [fetch[f] EXCEPT !.at = "request"])
  /\ UNCHANGED <<robots, lane, quiet, until, heard, asked>>

(* f goes on under the rules it read.                                      *)
Ruled(f, rules) ==
  [fetch[f] EXCEPT !.at = "judge", !.rules = rules, !.reading = FALSE,
                   !.target = fetch[f].page, !.robotsHop = 0, !.tries = 0]

Awaits(g, f) == fetch[g].at = "awaiting" /\ fetch[g].awaits = f

Answers(g, rules) == [fetch[g] EXCEPT !.at = "judge", !.rules = rules, !.awaits = Nobody]

(* The entry, if it is still the one f made, remembers the verdict.        *)
Remembered(f, rules) ==
  /\ robots' = IF robots[fetch[f].page].reader # f THEN robots
               ELSE [robots EXCEPT ![fetch[f].page] =
                       [@ EXCEPT !.reader = Nobody, !.rules = rules]]
  /\ asked' = IF rules.wasRead THEN [asked EXCEPT ![fetch[f].page] = rules.delay] ELSE asked

(* Mutant: readRobots has a purse of its own.                              *)
LearnedForFree(f, rules) ==
  /\ fetch' = [g \in Fetches |->
       IF g = f THEN [Ruled(f, rules) EXCEPT !.left = Purse]
       ELSE IF Awaits(g, f) THEN Answers(g, rules) ELSE fetch[g]]
  /\ Remembered(f, rules)

(* Mutant: only those who still find f's entry in the cache are answered.  *)
LearnedFromCache(f, rules) ==
  /\ fetch' = [g \in Fetches |->
       IF g = f THEN Ruled(f, rules)
       ELSE IF Awaits(g, f) /\ robots[fetch[f].page].reader = f THEN Answers(g, rules)
       ELSE fetch[g]]
  /\ Remembered(f, rules)

(* The read f began has ended: whoever awaits it has the rules too.        *)
Learned(f, rules) ==
  /\ fetch' = [g \in Fetches |->
       IF g = f THEN Ruled(f, rules)
       ELSE IF Awaits(g, f) THEN Answers(g, rules) ELSE fetch[g]]
  /\ Remembered(f, rules)

(* gatedRequest up to its first await: an empty purse is refused, and a    *)
(* chain that changes hosts takes its pace along.                          *)
Request(f) ==
  LET h == Host(f) IN
  /\ fetch[f].at = "request"
  /\ fetch[f].left > 0
  /\ until' = IF fetch[f].last \in {Nowhere, h} THEN until ELSE Deferred(h, MinInterval(h))
  /\ lane' = [lane EXCEPT ![h] = Append(lane[h], f)]
  /\ Goes(f, [fetch[f] EXCEPT !.at = "queued", !.last = h, !.left = @ - 1])
  /\ UNCHANGED <<robots, interval, quiet, heard, asked>>

RequestRefused(f) ==
  /\ fetch[f].at = "request"
  /\ fetch[f].left = 0
  /\ IF fetch[f].reading
       THEN Learned(f, Unread(fetch[f].page))
       ELSE /\ Goes(f, Idle)
            /\ UNCHANGED <<robots, asked>>
  /\ UNCHANGED <<lane, interval, quiet, until, heard>>

-----------------------------------------------------------------------------
(* The answer to a request that was sent.  Its slot of the lane ends with  *)
(* the headers; a body that is wanted is read after it, outside the lane.  *)

Finished(f) == fetch[f].at = "sent" /\ UNCHANGED quiet

LaneLeft(f) == [lane EXCEPT ![Host(f)] = Tail(lane[Host(f)])]

(* 429, 5xx or no answer: the host's lane is held, and the request queues  *)
(* again behind the others while retries and purse last.                   *)
Retried(f, wait) ==
  /\ Finished(f)
  /\ fetch[f].tries < MaxRetries /\ fetch[f].left > 0
  /\ until' = Deferred(Host(f), wait)
  /\ lane' = [lane EXCEPT ![Host(f)] = Append(Tail(lane[Host(f)]), f)]
  /\ Goes(f, [fetch[f] EXCEPT !.at = "queued", !.tries = @ + 1, !.left = @ - 1])
  /\ UNCHANGED <<robots, interval, asked>>

GaveUp(f, wait) ==
  /\ Finished(f)
  /\ fetch[f].tries = MaxRetries \/ fetch[f].left = 0
  /\ until' = Deferred(Host(f), wait)
  /\ lane' = LaneLeft(f)
  /\ IF fetch[f].reading
       THEN Learned(f, Unread(fetch[f].page))
       ELSE /\ Goes(f, Idle)
            /\ UNCHANGED <<robots, asked>>
  /\ UNCHANGED interval

(* A 429 or 5xx that says when to come back.                               *)
AskedToWait(f, wait) ==
  /\ Retried(f, Smaller(BackoffCap, wait)) \/ GaveUp(f, Smaller(BackoffCap, wait))
  /\ heard' = [heard EXCEPT ![Host(f)][wait] = 0]

(* A failure that says nothing.                                            *)
Failed(f) ==
  /\ Retried(f, Backoff) \/ GaveUp(f, Backoff)
  /\ UNCHANGED heard

(* The answer is one whose body will be read.                              *)
BodyAwaited(f) ==
  /\ lane' = LaneLeft(f)
  /\ Goes(f, [fetch[f] EXCEPT !.at = "body"])
  /\ UNCHANGED <<robots, asked>>

(* robots.txt is there (200), and its text is on the way.                  *)
RulesArrive(f) ==
  /\ Finished(f)
  /\ fetch[f].reading
  /\ BodyAwaited(f)
  /\ UNCHANGED <<interval, until, heard>>

(* Any other status, whose body nobody reads: a 4xx stands for no rules,   *)
(* a redirect that is not followed for rules that were not read.           *)
RulesAnswered(f, rules) ==
  /\ Finished(f)
  /\ fetch[f].reading
  /\ rules \in {NoRules(fetch[f].page), Unread(fetch[f].page)}
  /\ lane' = LaneLeft(f)
  /\ Learned(f, rules)
  /\ UNCHANGED <<interval, until, heard>>

(* The text has been read, or has broken off: only then are there rules.   *)
RulesRead(f, rules) ==
  /\ fetch[f].at = "body"
  /\ fetch[f].reading
  /\ rules.of = fetch[f].page
  /\ Learned(f, rules)
  /\ UNCHANGED <<lane, interval, quiet, until, heard>>

RulesMoved(f, o) ==
  /\ Finished(f)
  /\ fetch[f].reading
  /\ o \in LeadsTo[fetch[f].target]
  /\ lane' = LaneLeft(f)
  /\ IF fetch[f].robotsHop = MaxHops \/ o \in Blocked
       THEN Learned(f, Unread(fetch[f].page))
       ELSE /\ Goes(f, [fetch[f] EXCEPT !.at = "request", !.target = o, !.tries = 0,
                                     !.robotsHop = @ + 1])
            /\ UNCHANGED <<robots, asked>>
  /\ UNCHANGED <<interval, until, heard>>

(* The page, or another answer that ends the chain: it is the payload.     *)
PageAnswered(f) ==
  /\ Finished(f)
  /\ ~fetch[f].reading
  /\ BodyAwaited(f)
  /\ UNCHANGED <<interval, until, heard>>

(* The page is elsewhere: its rules are consulted first.  A redirect that  *)
(* is one too many is the payload itself.                                  *)
PageMoved(f, o) ==
  /\ Finished(f)
  /\ ~fetch[f].reading
  /\ o \in LeadsTo[fetch[f].page]
  /\ \/ /\ fetch[f].hop = MaxHops \/ (o \notin Blocked /\ fetch[f].left = 0)
        /\ BodyAwaited(f)
     \/ /\ fetch[f].hop < MaxHops /\ o \in Blocked
        /\ lane' = LaneLeft(f)
        /\ Goes(f, Idle)
        /\ UNCHANGED <<robots, asked>>
     \/ /\ fetch[f].hop < MaxHops /\ o \notin Blocked /\ fetch[f].left > 0
        /\ lane' = LaneLeft(f)
        /\ Goes(f, [fetch[f] EXCEPT !.at = "consult", !.page = o, !.target = o,
                                    !.hop = @ + 1, !.tries = 0, !.rules = Unread(Nowhere)])
        /\ UNCHANGED <<robots, asked>>
  /\ UNCHANGED <<interval, until, heard>>

(* The payload has been read, or has broken off: the fetch ends.           *)
PageRead(f) ==
  /\ fetch[f].at = "body"
  /\ ~fetch[f].reading
  /\ Goes(f, Idle)
  /\ UNCHANGED <<robots, lane, interval, quiet, until, heard, asked>>

-----------------------------------------------------------------------------
(* runCrawl begins with no rules remembered; reads in flight go on.        *)
ForgetRobots ==
  /\ \E o \in Origins : robots[o].kept
  /\ robots' = [o \in Origins |-> NoEntry]
  /\ UNCHANGED <<fetch, lane, interval, quiet, until, heard, asked>>

Ready == {f \in Fetches : fetch[f].at \in {"consult", "judge", "request"}}

InUse == {Host(f) : f \in {g \in Fetches : fetch[g].at = "sent"}}

(* A unit of time.  Nothing distinguishes waits that are over.             *)
Tick ==
  /\ Ready = {}
  /\ quiet' = [h \in Hosts |-> IF h \in InUse THEN 0 ELSE Smaller(LongestDelay, quiet[h] + 1)]
  /\ until' = [h \in Hosts |-> Larger(0, until[h] - 1)]
  /\ heard' = [h \in Hosts |-> [w \in RetryAfters |-> Smaller(Memory, heard[h][w] + 1)]]
  /\ fetch' = [f \in Fetches |->
       IF fetch[f] = Idle \/ fetch[f].at = "sent" THEN fetch[f]
       ELSE [fetch[f] EXCEPT !.since = Smaller(Floor, fetch[f].since + 1)]]
  /\ robots' = [o \in Origins |->
       IF Cached(o) THEN [robots[o] EXCEPT !.age = robots[o].age + 1] ELSE NoEntry]
  /\ UNCHANGED <<lane, interval, asked>>

Init ==
  /\ fetch = [f \in Fetches |-> Idle]
  /\ robots = [o \in Origins |-> NoEntry]
  /\ lane = [h \in Hosts |-> <<>>]
  /\ interval = [h \in Hosts |-> 0]
  /\ quiet = [h \in Hosts |-> LongestDelay]
  /\ until = [h \in Hosts |-> 0]
  /\ heard = [h \in Hosts |-> [w \in RetryAfters |-> Memory]]
  /\ asked = [o \in Origins |-> 0]

Answered(f) ==
  \/ \E wait \in RetryAfters : AskedToWait(f, wait)
  \/ Failed(f)
  \/ RulesArrive(f)
  \/ \E o \in Origins : \E rules \in RulesOf(o) : RulesAnswered(f, rules)
  \/ \E o \in Origins : RulesMoved(f, o)
  \/ PageAnswered(f)
  \/ \E o \in Origins : PageMoved(f, o)

BodyEnds(f) ==
  \/ \E o \in Origins : \E rules \in RulesOf(o) : RulesRead(f, rules)
  \/ PageRead(f)

Proceeds(f) == Consult(f) \/ Judge(f) \/ Request(f) \/ RequestRefused(f)

Next ==
  \/ \E f \in Fetches :
       \/ \E o \in Asked[f] : Start(f, o)
       \/ Proceeds(f)
       \/ Sent(f)
       \/ Answered(f)
       \/ BodyEnds(f)
  \/ ForgetRobots
  \/ Tick

Spec == Init /\ [][Next]_vars

(* Continuations run, the AbortSignal ends every wait for an answer and    *)
(* for its body, and clocks run however many fetches are refused without   *)
(* waiting.  Nobody is bound to ask for anything.                          *)
Fairness ==
  /\ \A f \in Fetches : WF_vars(Proceeds(f) \/ Sent(f) \/ Answered(f) \/ BodyEnds(f))
  /\ SF_vars(Tick)

FairSpec == Spec /\ Fairness

-----------------------------------------------------------------------------
Active == {f \in Fetches : fetch[f] # Idle}

(* A request of f leaves.                                                  *)
Leaves(f) ==
  /\ f \in Active /\ fetch[f].at = "queued"
  /\ fetch'[f] # Idle /\ fetch'[f].at = "sent"

RuleBook ==
  [of : Origins \cup {Nowhere}, allowed : BOOLEAN, delay : AllDelays \cup {0}, wasRead : BOOLEAN]

Places == {"consult", "awaiting", "judge", "request", "queued", "sent", "body"}

Jobs ==
  [at : Places, page : Origins, target : Origins, reading : BOOLEAN, hop : 0..MaxHops,
   robotsHop : 0..MaxHops, tries : 0..MaxRetries, left : 0..Purse, last : Hosts \cup {Nowhere},
   rules : RuleBook, awaits : Fetches \cup {Nobody}, cost : Nat, since : 0..Floor]

Entries ==
  [reader : Fetches \cup {Nobody}, rules : RuleBook, age : Nat, kept : BOOLEAN]

(* Every variable keeps its type.                                          *)
TypeOK ==
  /\ fetch \in [Fetches -> Jobs \cup {Idle}]
  /\ robots \in [Origins -> Entries]
  /\ lane \in [Hosts -> Seq(Fetches)]
  /\ interval \in [Hosts -> AllDelays \cup {0}]
  /\ quiet \in [Hosts -> Nat]
  /\ until \in [Hosts -> Nat]
  /\ heard \in [Hosts -> [RetryAfters -> Nat]]
  /\ asked \in [Origins -> AllDelays \cup {0}]

KeepsFloor(f) ==
  LET h == Host(f) IN
  /\ \A g \in Active : fetch[g].at = "sent" => Host(g) # h
  /\ quiet[h] >= Floor
  /\ fetch[f].since >= Floor

(* A wait the host asked for has passed, or BackoffCap of it has.          *)
KeepsRetryAfter(f) ==
  \A w \in RetryAfters : heard[Host(f)][w] >= Smaller(BackoffCap, w)

KeepsCrawlDelay(f) ==
  ~fetch[f].reading =>
    quiet[Host(f)] >= Smaller(fetch[f].rules.delay, asked[fetch[f].page])

PacedFor(f) == KeepsFloor(f) /\ KeepsRetryAfter(f) /\ KeepsCrawlDelay(f)

(* The pace the code keeps with every site, counted from headers to        *)
(* requests: a request leaves for a host only when every request sent      *)
(* there has its headers or has failed, the floor has passed since the     *)
(* last one had, every wait the host asked for has passed or BackoffCap of *)
(* it has, and the fetch's own last request, wherever it went, had its     *)
(* headers at least the floor ago; and the Crawl-delay of the rules the    *)
(* page was judged by (unless its origin has since asked for less) has     *)
(* passed too.  A body may still be arriving when the next request leaves. *)
Polite == [][\A f \in Fetches : Leaves(f) => PacedFor(f)]_vars

(* What is written of the pace beyond that, and does not hold: the whole   *)
(* of a Retry-After is waited out (README.md), and requests to a host are  *)
(* chained end to end (hostQueue.ts).                                      *)
HonoursRetryAfter ==
  [][\A f \in Fetches : Leaves(f) =>
       \A w \in RetryAfters : heard[Host(f)][w] >= Smaller(Memory, w)]_vars
ChainedEndToEnd ==
  [][\A f \in Fetches : Leaves(f) =>
       \A g \in Active : fetch[g].at \in {"sent", "body"} => Host(g) # Host(f)]_vars

(* One fetch costs at most one purse, every hop, every retry and every     *)
(* robots.txt on its way included, wherever its chain leads.               *)
OnePurse == \A f \in Active : fetch[f].cost <= Purse

RulesAllow(f) ==
  /\ fetch[f].target \notin Blocked
  /\ ~fetch[f].reading =>
       fetch[f].rules =
         [fetch[f].rules EXCEPT !.of = fetch[f].target, !.allowed = TRUE, !.wasRead = TRUE]

Believes(f) ==
  f \in Active /\ fetch[f].at = "consult" /\ fetch'[f] # fetch[f] /\ fetch'[f].at = "judge"

(* A page is asked for only under rules that were read at its own origin   *)
(* and allow it, nothing is asked of a blocked host, and a read that       *)
(* failed refuses a page for UnreadTtl at most.                            *)
RulesGovern ==
  [][\A f \in Fetches :
       /\ Leaves(f) => RulesAllow(f)
       /\ Believes(f) /\ ~fetch'[f].rules.wasRead
            => robots[fetch[f].page].age < UnreadTtl]_vars

(* Every fetch ends: the reads fetches share, the lanes they queue in and  *)
(* the waits they put on one another never leave them waiting in a circle, *)
(* and no host keeps one going.                                            *)
EveryFetchEnds == \A f \in Fetches : f \in Active ~> f \notin Active

(* The steps a fetch has in front of it until its next request is paid for. *)
Stage(job) ==
  CASE job.at = "queued"   -> 6
    [] job.at = "sent"     -> 5
    [] job.at = "body"     -> 3
    [] job.at = "consult"  -> 4
    [] job.at = "awaiting" -> 3
    [] job.at = "judge"    -> 2
    [] job.at = "request"  -> IF job.reading THEN 3 ELSE 1

StepsLeft(f) == IF fetch[f] = Idle THEN 0 ELSE 6 * fetch[f].left + Stage(fetch[f])

(* No chain, retry or shared read keeps a fetch going: every step of its    *)
(* own brings it nearer its end, and nothing another fetch or the clock     *)
(* does takes it further away.                                              *)
RunsDown ==
  [][\A f \in Active :
       /\ StepsLeft(f)' <= StepsLeft(f)
       /\ Proceeds(f) \/ Sent(f) \/ Answered(f) \/ BodyEnds(f) => StepsLeft(f)' < StepsLeft(f)]_vars

(* Nobody waits in a circle: who awaits rules awaits a fetch that is        *)
(* reading them, which awaits nobody; who is queued stands in a lane whose  *)
(* first is queued there too, for nothing but the clock, or in flight.      *)
NoCircle ==
  \A f \in Active :
    /\ fetch[f].at = "awaiting" =>
         LET g == fetch[f].awaits
         IN  g \in Active /\ fetch[g].reading /\ fetch[g].at \in {"request", "queued", "sent", "body"}
    /\ fetch[f].at = "queued" =>
         LET g == Head(lane[Host(f)])
         IN  g \in Active /\ fetch[g].at \in {"queued", "sent"} /\ Host(g) = Host(f)
=============================================================================
