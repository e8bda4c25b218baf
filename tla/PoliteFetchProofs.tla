--------------------------- MODULE PoliteFetchProofs ---------------------------
(* What is proved about the polite fetcher, for any number of fetches,     *)
(* origins and hosts, any chain of redirects and any waits: what one fetch *)
(* may cost, under which rules a page is asked for, and the pace of the    *)
(* requests a host sees.                                                   *)
EXTENDS PoliteFetch, SequenceTheorems, TLAPS

Asking(job)  == job.at \in {"request", "queued", "sent"}
Waiting(job) == job.at \in {"queued", "sent"}

(* The purse is never filled again, and a queued request is paid for.      *)
Spent(job) ==
  job.cost + job.left + (IF job.at = "queued" THEN 1 ELSE 0) = Purse

(* No chain has led to a blocked origin, and only a read of robots.txt     *)
(* asks for something else than the page.                                  *)
Placed(job) ==
  /\ job.page \notin Blocked /\ job.target \notin Blocked
  /\ ~job.reading => job.target = job.page
  /\ ~Asking(job) /\ job.at # "body" => ~job.reading

(* What a file of an origin may say.                                       *)
RulesFor(rules, o) ==
  /\ rules.of = o
  /\ rules.delay \in Delays[o] \cup {0}
  /\ rules.allowed => rules.wasRead

(* The rules in hand are those of the page's own origin.                   *)
UnderRules(job) ==
  /\ job.at = "judge" => RulesFor(job.rules, job.page)
  /\ Asking(job) /\ ~job.reading =>
       RulesFor(job.rules, job.page) /\ job.rules.allowed

JobOK(job) == Spent(job) /\ Placed(job) /\ UnderRules(job)

JobsOK == \A f \in Active : JobOK(fetch[f])

(* g reads the rules of o.                                                 *)
Reads(g, o) == g \in Active /\ fetch[g].reading /\ fetch[g].page = o

(* A cached verdict is its origin's, and a read that is shared goes on.    *)
ReadsOK ==
  /\ \A o \in Origins :
       /\ robots[o].kept => RulesFor(robots[o].rules, o)
       /\ robots[o].reader # Nobody => Reads(robots[o].reader, o)
  /\ \A f \in Active :
       fetch[f].at = "awaiting" => Reads(fetch[f].awaits, fetch[f].page)

InLane(f, queue) == \E i \in 1..Len(queue) : queue[i] = f

(* Who waits has a place in the lane, and only its head is in flight.      *)
HasLane(f) ==
  /\ fetch[f].at = "queued" => InLane(f, lane[Host(f)])
  /\ fetch[f].at = "sent" => lane[Host(f)] # <<>> /\ Head(lane[Host(f)]) = f

LanesOK == \A f \in Active : HasLane(f)

(* A fetch has been at rest as long as the host it last asked something    *)
(* of, or the lane it waits in is held long enough to make up for it.      *)
Rested(f) ==
  /\ Waiting(fetch[f]) => fetch[f].last = Host(f)
  /\ fetch[f].last = Nowhere => fetch[f].since = Floor
  /\ fetch[f].at = "sent" => quiet[Host(f)] = 0
  /\ fetch[f].last # Nowhere /\ fetch[f].since < Floor =>
       \/ quiet[fetch[f].last] <= fetch[f].since
       \/ fetch[f].at = "queued" /\ fetch[f].since + until[Host(f)] >= Floor

RestOK == \A f \in Active : Rested(f)

(* What has not passed yet of a wait a host asked for, or of BackoffCap of *)
(* it, its lane is held for.                                               *)
HeardOK ==
  \A h \in Hosts : \A w \in RetryAfters :
    heard[h][w] + until[h] >= Smaller(BackoffCap, w)

FetchInv == TypeOK /\ JobsOK /\ ReadsOK /\ LanesOK /\ RestOK /\ HeardOK

-----------------------------------------------------------------------------
(* The constants and the states a fetch can be in.                         *)

LEMMA Numbers ==
  /\ Purse \in Nat /\ Floor \in Nat \ {0} /\ MaxHops \in Nat /\ MaxRetries \in Nat
  /\ AllDelays \subseteq Nat /\ RetryAfters \subseteq Nat
  /\ Backoff \in Nat /\ BackoffCap \in Nat
  /\ LongestDelay \in Nat
  BY FetchAssumption DEF Purse, AllDelays, LongestDelay

LEMMA DelaysAreNumbers == \A d \in AllDelays \cup {0} : d \in Nat
  BY Numbers

LEMMA Names ==
  /\ Nobody \notin Fetches /\ Nowhere \notin Hosts
  /\ \A o \in Origins : HostOf[o] \in Hosts
  /\ \A o \in Origins : Delays[o] \subseteq AllDelays
  BY FetchAssumption DEF Hosts, AllDelays

LEMMA NoJobIsIdle == Idle \notin Jobs
  BY DEF Idle, Jobs, Places

LEMMA JobOrIdle ==
  ASSUME TypeOK, NEW f \in Fetches
  PROVE  /\ f \in Active => fetch[f] \in Jobs
         /\ f \notin Active => fetch[f] = Idle
         /\ fetch[f].at # "idle" => f \in Active
         /\ f \in Active => Host(f) \in Hosts
  BY NoJobIsIdle, Names DEF TypeOK, Active, Jobs, Idle, Host

LEMMA Sizes ==
  ASSUME NEW a \in Nat, NEW b \in Nat
  PROVE  /\ Larger(a, b) \in Nat /\ Larger(a, b) >= a /\ Larger(a, b) >= b
         /\ Smaller(a, b) \in Nat /\ Smaller(a, b) <= a /\ Smaller(a, b) <= b
         /\ Smaller(a, b) \in {a, b} /\ Larger(a, b) \in {a, b}
  BY DEF Larger, Smaller

-----------------------------------------------------------------------------
(* The jobs a fetch goes on with, field by field.                          *)

LEMMA WaitsAreNumbers ==
  ASSUME NEW w \in RetryAfters
  PROVE  /\ w \in Nat /\ Smaller(BackoffCap, w) \in Nat
         /\ Smaller(BackoffCap, w) <= BackoffCap /\ BackoffCap <= Memory
         /\ BackoffCap \in Nat /\ Memory \in Nat
  BY FetchAssumption, Sizes

LEMMA JobNumbers ==
  ASSUME NEW job \in Jobs
  PROVE  /\ job.since \in Nat /\ job.since <= Floor
         /\ job.cost \in Nat /\ job.left \in Nat
         /\ job.last \in Hosts \cup {Nowhere}
         /\ job.page \in Origins /\ job.target \in Origins /\ job.rules \in RuleBook
<1>1. job.since \in 0..Floor /\ job.left \in 0..Purse
  BY DEF Jobs
<1>2. /\ job.cost \in Nat /\ job.last \in Hosts \cup {Nowhere}
      /\ job.page \in Origins /\ job.target \in Origins /\ job.rules \in RuleBook
  BY DEF Jobs
<1> QED
  BY <1>1, <1>2, Numbers

Fields ==
  {"at", "page", "target", "reading", "hop", "robotsHop", "tries", "left", "last",
   "rules", "awaits", "cost", "since"}

(* A job is known by its fields.                                           *)
LEMMA JobByFields ==
  ASSUME NEW next, next = [x \in Fields |-> next[x]],
         next.at \in Places, next.page \in Origins, next.target \in Origins,
         next.reading \in BOOLEAN, next.hop \in 0..MaxHops, next.robotsHop \in 0..MaxHops,
         next.tries \in 0..MaxRetries, next.left \in 0..Purse,
         next.last \in Hosts \cup {Nowhere}, next.rules \in RuleBook,
         next.awaits \in Fetches \cup {Nobody}, next.cost \in Nat, next.since \in 0..Floor
  PROVE  next \in Jobs
<1>1. next = [at |-> next.at, page |-> next.page, target |-> next.target,
              reading |-> next.reading, hop |-> next.hop, robotsHop |-> next.robotsHop,
              tries |-> next.tries, left |-> next.left, last |-> next.last,
              rules |-> next.rules, awaits |-> next.awaits, cost |-> next.cost,
              since |-> next.since]
  BY DEF Fields
<1> QED
  BY <1>1 DEF Jobs

(* What stays while one request is in hand.                                *)
SameRequest(job, next) ==
  /\ next.page = job.page /\ next.target = job.target /\ next.reading = job.reading
  /\ next.rules = job.rules /\ next.awaits = job.awaits

WasSent(job, next) ==
  /\ next \in Jobs /\ SameRequest(job, next) /\ next.at = "sent"
  /\ next.cost = job.cost + 1 /\ next.left = job.left
  /\ next.last = job.last /\ next.since = 0

LEMMA JobSent ==
  ASSUME NEW job \in Jobs, NEW next,
         next = [job EXCEPT !.at = "sent", !.cost = @ + 1, !.since = 0]
  PROVE  WasSent(job, next)
<1>1. /\ next.at = "sent" /\ next.page = job.page /\ next.target = job.target
      /\ next.reading = job.reading /\ next.hop = job.hop
      /\ next.robotsHop = job.robotsHop /\ next.tries = job.tries
      /\ next.left = job.left /\ next.last = job.last /\ next.rules = job.rules
      /\ next.awaits = job.awaits /\ next.cost = job.cost + 1 /\ next.since = 0
  BY DEF Jobs
<1>2. next = [x \in Fields |-> next[x]]
  BY DEF Jobs, Fields
<1>3. next \in Jobs
  <2>1. next.at \in Places /\ next.cost \in Nat /\ next.since \in 0..Floor
    BY <1>1, Numbers DEF Jobs, Places
  <2> QED
    BY <1>1, <1>2, <2>1, JobByFields DEF Jobs
<1> QED
  BY <1>1, <1>3 DEF WasSent, SameRequest

WasQueued(job, next, h) ==
  /\ next \in Jobs /\ SameRequest(job, next) /\ next.at = "queued"
  /\ next.cost = job.cost /\ next.left = job.left - 1
  /\ next.last = h /\ next.since = job.since

LEMMA JobQueued ==
  ASSUME NEW job \in Jobs, NEW h \in Hosts, job.left > 0, NEW next,
         next = [job EXCEPT !.at = "queued", !.last = h, !.left = @ - 1]
  PROVE  WasQueued(job, next, h)
<1>1. /\ next.at = "queued" /\ next.page = job.page /\ next.target = job.target
      /\ next.reading = job.reading /\ next.hop = job.hop /\ next.robotsHop = job.robotsHop
      /\ next.tries = job.tries /\ next.left = job.left - 1 /\ next.last = h
      /\ next.rules = job.rules /\ next.awaits = job.awaits /\ next.cost = job.cost
      /\ next.since = job.since
  BY DEF Jobs
<1>2. next = [x \in Fields |-> next[x]]
  BY DEF Jobs, Fields
<1>3. next \in Jobs
  <2>1. /\ next.at \in Places /\ next.last \in Hosts \cup {Nowhere} /\ next.left \in 0..Purse
    BY <1>1, Numbers DEF Jobs, Places
  <2> QED
    BY <1>1, <1>2, <2>1, JobByFields DEF Jobs
<1> QED
  BY <1>1, <1>3 DEF WasQueued, SameRequest

WasRetried(job, next) ==
  /\ next \in Jobs /\ SameRequest(job, next) /\ next.at = "queued"
  /\ next.cost = job.cost /\ next.left = job.left - 1
  /\ next.last = job.last /\ next.since = job.since

LEMMA JobRetried ==
  ASSUME NEW job \in Jobs, job.left > 0, job.tries < MaxRetries, NEW next,
         next = [job EXCEPT !.at = "queued", !.tries = @ + 1, !.left = @ - 1]
  PROVE  WasRetried(job, next)
<1>1. /\ next.at = "queued" /\ next.page = job.page /\ next.target = job.target
      /\ next.reading = job.reading /\ next.hop = job.hop /\ next.robotsHop = job.robotsHop
      /\ next.tries = job.tries + 1 /\ next.left = job.left - 1 /\ next.last = job.last
      /\ next.rules = job.rules /\ next.awaits = job.awaits /\ next.cost = job.cost
      /\ next.since = job.since
  BY DEF Jobs
<1>2. next = [x \in Fields |-> next[x]]
  BY DEF Jobs, Fields
<1>3. next \in Jobs
  <2>1. /\ next.at \in Places /\ next.tries \in 0..MaxRetries /\ next.left \in 0..Purse
    BY <1>1, Numbers DEF Jobs, Places
  <2> QED
    BY <1>1, <1>2, <2>1, JobByFields DEF Jobs
<1> QED
  BY <1>1, <1>3 DEF WasRetried, SameRequest

(* What stays while nothing is asked.                                      *)
SameTrip(job, next) ==
  /\ next.cost = job.cost /\ next.left = job.left
  /\ next.last = job.last /\ next.since = job.since

HasRules(job, next, rules) ==
  /\ next \in Jobs /\ SameTrip(job, next) /\ next.at = "judge"
  /\ next.page = job.page /\ next.target = job.target
  /\ next.reading = job.reading /\ next.rules = rules

LEMMA JobJudging ==
  ASSUME NEW job \in Jobs, NEW rules \in RuleBook, NEW next,
         next = [job EXCEPT !.at = "judge", !.rules = rules]
  PROVE  HasRules(job, next, rules)
  BY DEF HasRules, Jobs, Places, SameTrip

HasToWait(job, next, g) ==
  /\ next \in Jobs /\ SameTrip(job, next) /\ next.at = "awaiting"
  /\ next.page = job.page /\ next.target = job.target
  /\ next.reading = job.reading /\ next.rules = job.rules /\ next.awaits = g

LEMMA JobAwaiting ==
  ASSUME NEW job \in Jobs, NEW g \in Fetches, NEW next,
         next = [job EXCEPT !.at = "awaiting", !.awaits = g]
  PROVE  HasToWait(job, next, g)
  BY DEF HasToWait, Jobs, Places, SameTrip

HasToRead(job, next) ==
  /\ next \in Jobs /\ SameTrip(job, next) /\ next.at = "request"
  /\ next.page = job.page /\ next.target = job.target
  /\ next.reading /\ next.rules = job.rules

LEMMA JobReading ==
  ASSUME NEW job \in Jobs, NEW next,
         next = [job EXCEPT !.at = "request", !.reading = TRUE]
  PROVE  HasToRead(job, next)
  BY DEF HasToRead, Jobs, Places, SameTrip

WasAllowed(job, next) ==
  /\ next \in Jobs /\ SameTrip(job, next) /\ SameRequest(job, next)
  /\ next.at = "request"

LEMMA JobAllowed ==
  ASSUME NEW job \in Jobs, NEW next, next = [job EXCEPT !.at = "request"]
  PROVE  WasAllowed(job, next)
  BY DEF WasAllowed, Jobs, Places, SameTrip, SameRequest

IsAnswered(job, next) ==
  /\ next \in Jobs /\ SameTrip(job, next) /\ SameRequest(job, next)
  /\ next.at = "body"

LEMMA JobIsAnswered ==
  ASSUME NEW job \in Jobs, NEW next, next = [job EXCEPT !.at = "body"]
  PROVE  IsAnswered(job, next)
  BY DEF IsAnswered, Jobs, Places, SameTrip, SameRequest

RulesAreAt(job, next, o) ==
  /\ next \in Jobs /\ SameTrip(job, next) /\ next.at = "request"
  /\ next.page = job.page /\ next.target = o
  /\ next.reading = job.reading /\ next.rules = job.rules

LEMMA JobRulesMoved ==
  ASSUME NEW job \in Jobs, NEW o \in Origins, job.robotsHop # MaxHops, NEW next,
         next = [job EXCEPT !.at = "request", !.target = o, !.tries = 0,
                            !.robotsHop = @ + 1]
  PROVE  RulesAreAt(job, next, o)
<1>1. /\ next.at = "request" /\ next.page = job.page /\ next.target = o
      /\ next.reading = job.reading /\ next.hop = job.hop /\ next.robotsHop = job.robotsHop + 1
      /\ next.tries = 0 /\ next.left = job.left /\ next.last = job.last
      /\ next.rules = job.rules /\ next.awaits = job.awaits /\ next.cost = job.cost
      /\ next.since = job.since
  BY DEF Jobs
<1>2. next = [x \in Fields |-> next[x]]
  BY DEF Jobs, Fields
<1>3. next \in Jobs
  <2>1. /\ next.at \in Places /\ next.target \in Origins /\ next.tries \in 0..MaxRetries
        /\ next.robotsHop \in 0..MaxHops
    BY <1>1, Numbers DEF Jobs, Places
  <2> QED
    BY <1>1, <1>2, <2>1, JobByFields DEF Jobs
<1> QED
  BY <1>1, <1>3 DEF RulesAreAt, SameTrip

LEMMA UnreadRules ==
  ASSUME NEW o \in Origins \cup {Nowhere}
  PROVE  Unread(o) \in RuleBook /\ (o \in Origins => RulesFor(Unread(o), o))
  BY DEF Unread, RuleBook, RulesFor

(* A file says what its origin may say.                                    *)
LEMMA RulesOfTyped ==
  ASSUME NEW o \in Origins, NEW rules \in RulesOf(o)
  PROVE  rules \in RuleBook /\ RulesFor(rules, o)
<1>1. CASE rules \in {Read(o, d, TRUE) : d \in Delays[o] \cup {0}}
  <2>1. PICK d \in Delays[o] \cup {0} : rules = Read(o, d, TRUE)
    BY <1>1
  <2>2. d \in AllDelays \cup {0}
    BY Names
  <2> QED
    BY <2>1, <2>2 DEF Read, RuleBook, RulesFor
<1>2. CASE rules = Read(o, 0, FALSE)
  BY <1>2 DEF Read, RuleBook, RulesFor
<1>3. CASE rules = Unread(o)
  BY <1>3, UnreadRules
<1> QED
  BY <1>1, <1>2, <1>3 DEF RulesOf

PageIsAt(job, next, o) ==
  /\ next \in Jobs /\ SameTrip(job, next) /\ next.at = "consult"
  /\ next.page = o /\ next.target = o /\ next.reading = job.reading

LEMMA JobPageMoved ==
  ASSUME NEW job \in Jobs, NEW o \in Origins, job.hop # MaxHops, NEW next,
         next = [job EXCEPT !.at = "consult", !.page = o, !.target = o, !.hop = @ + 1,
                            !.tries = 0, !.rules = Unread(Nowhere)]
  PROVE  PageIsAt(job, next, o)
<1>1. /\ next.at = "consult" /\ next.page = o /\ next.target = o
      /\ next.reading = job.reading /\ next.hop = job.hop + 1 /\ next.robotsHop = job.robotsHop
      /\ next.tries = 0 /\ next.left = job.left /\ next.last = job.last
      /\ next.rules = Unread(Nowhere) /\ next.awaits = job.awaits /\ next.cost = job.cost
      /\ next.since = job.since
  BY DEF Jobs
<1>2. next = [x \in Fields |-> next[x]]
  BY DEF Jobs, Fields
<1>3. next \in Jobs
  <2>1. /\ next.at \in Places /\ next.page \in Origins /\ next.target \in Origins
        /\ next.hop \in 0..MaxHops /\ next.tries \in 0..MaxRetries /\ next.rules \in RuleBook
    BY <1>1, Numbers, UnreadRules DEF Jobs, Places
  <2> QED
    BY <1>1, <1>2, <2>1, JobByFields DEF Jobs
<1> QED
  BY <1>1, <1>3 DEF PageIsAt, SameTrip

LEMMA JobFresh ==
  ASSUME NEW o \in Origins
  PROVE  /\ Fresh(o) \in Jobs /\ Fresh(o).at = "consult"
         /\ Fresh(o).page = o /\ Fresh(o).target = o /\ ~Fresh(o).reading
         /\ Fresh(o).cost = 0 /\ Fresh(o).left = Purse
         /\ Fresh(o).last = Nowhere /\ Fresh(o).since = Floor
  BY Numbers, UnreadRules DEF Fresh, Jobs, Places

HasRead(job, next, rules) ==
  /\ next \in Jobs /\ SameTrip(job, next) /\ next.at = "judge" /\ ~next.reading
  /\ next.page = job.page /\ next.target = job.page /\ next.rules = rules

LEMMA JobRuled ==
  ASSUME NEW job \in Jobs, NEW rules \in RuleBook, NEW next,
         next = [job EXCEPT !.at = "judge", !.rules = rules, !.reading = FALSE,
                            !.target = job.page, !.robotsHop = 0, !.tries = 0]
  PROVE  HasRead(job, next, rules)
<1>1. /\ next.at = "judge" /\ next.page = job.page /\ next.target = job.page
      /\ next.reading = FALSE /\ next.hop = job.hop /\ next.robotsHop = 0
      /\ next.tries = 0 /\ next.left = job.left /\ next.last = job.last
      /\ next.rules = rules /\ next.awaits = job.awaits /\ next.cost = job.cost
      /\ next.since = job.since
  BY DEF Jobs
<1>2. next = [x \in Fields |-> next[x]]
  BY DEF Jobs, Fields
<1>3. next \in Jobs
  <2>1. /\ next.at \in Places /\ next.target \in Origins /\ next.reading \in BOOLEAN
        /\ next.rules \in RuleBook /\ next.robotsHop \in 0..MaxHops /\ next.tries \in 0..MaxRetries
    BY <1>1, Numbers DEF Jobs, Places
  <2> QED
    BY <1>1, <1>2, <2>1, JobByFields DEF Jobs
<1> QED
  BY <1>1, <1>3 DEF HasRead, SameTrip

LEMMA JobAnswered ==
  ASSUME NEW job \in Jobs, NEW rules \in RuleBook, NEW next,
         next = [job EXCEPT !.at = "judge", !.rules = rules, !.awaits = Nobody]
  PROVE  HasRules(job, next, rules)
  BY DEF HasRules, Jobs, Places, SameTrip

-----------------------------------------------------------------------------
(* What a step of f leaves of the others: they are answered at most.       *)

Undisturbed(g) ==
  \/ fetch'[g] = fetch[g]
  \/ /\ fetch[g] \in Jobs /\ fetch[g].at = "awaiting"
     /\ fetch'[g] \in Jobs /\ fetch'[g].at = "judge" /\ SameTrip(fetch[g], fetch'[g])
     /\ fetch'[g].page = fetch[g].page /\ fetch'[g].target = fetch[g].target
     /\ fetch'[g].reading = fetch[g].reading

(* Each fetch is as before, is idle or has a job.                          *)
FetchesTyped == fetch \in [Fetches -> Jobs \cup {Idle}]

LEMMA GoesOn ==
  ASSUME FetchesTyped, NEW f \in Fetches, NEW next \in Jobs \cup {Idle}, Goes(f, next)
  PROVE  /\ FetchesTyped' /\ fetch'[f] = next
         /\ \A g \in Fetches \ {f} : fetch'[g] = fetch[g]
         /\ \A g \in Fetches \ {f} : Undisturbed(g)
  BY DEF FetchesTyped, Goes, Undisturbed

LEMMA LearnedOn ==
  ASSUME FetchesTyped, NEW f \in Active, NEW rules \in RuleBook, Learned(f, rules)
  PROVE  /\ FetchesTyped'
         /\ HasRead(fetch[f], fetch'[f], rules)
         /\ \A g \in Fetches \ {f} : Undisturbed(g)
         /\ \A g \in Fetches \ {f} :
              IF Awaits(g, f) THEN fetch'[g].at = "judge" /\ fetch'[g].rules = rules
              ELSE fetch'[g] = fetch[g]
<1>1. f \in Fetches /\ fetch[f] \in Jobs
  BY DEF Active, FetchesTyped
<1>2. HasRead(fetch[f], Ruled(f, rules), rules)
  BY <1>1, JobRuled, Zenon DEF Ruled
<1>3. fetch' = [g \in Fetches |->
       IF g = f THEN Ruled(f, rules)
       ELSE IF Awaits(g, f) THEN Answers(g, rules) ELSE fetch[g]]
  BY Zenon DEF Learned
<1>4. fetch'[f] = Ruled(f, rules)
  BY <1>1, <1>3
<1>5. ASSUME NEW g \in Fetches \ {f}
      PROVE  /\ fetch'[g] \in Jobs \cup {Idle} /\ Undisturbed(g)
             /\ IF Awaits(g, f) THEN fetch'[g].at = "judge" /\ fetch'[g].rules = rules
                ELSE fetch'[g] = fetch[g]
  <2>1. fetch'[g] = IF Awaits(g, f) THEN Answers(g, rules) ELSE fetch[g]
    BY <1>3
  <2>2. CASE Awaits(g, f)
    <3>1. fetch[g] \in Jobs /\ fetch[g].at = "awaiting"
      BY <2>2 DEF Awaits, FetchesTyped, Idle
    <3>2. HasRules(fetch[g], Answers(g, rules), rules)
      BY <3>1, JobAnswered, Zenon DEF Answers
    <3> QED
      BY <2>1, <2>2, <3>1, <3>2 DEF Undisturbed, HasRules
  <2>3. CASE ~Awaits(g, f)
    BY <2>1, <2>3 DEF Undisturbed, FetchesTyped
  <2> QED
    BY <2>2, <2>3
<1>6. FetchesTyped'
  BY <1>1, <1>2, <1>3, <1>4, <1>5 DEF FetchesTyped, HasRead
<1> QED
  BY <1>2, <1>4, <1>5, <1>6

-----------------------------------------------------------------------------
(* Queues.                                                                 *)

LEMMA Joined ==
  ASSUME NEW queue \in Seq(Fetches), NEW f \in Fetches
  PROVE  /\ Append(queue, f) \in Seq(Fetches) /\ Append(queue, f) # <<>>
         /\ InLane(f, Append(queue, f))
         /\ \A g \in Fetches : InLane(g, queue) => InLane(g, Append(queue, f))
         /\ queue # <<>> => Head(Append(queue, f)) = Head(queue)
<1>1. /\ Append(queue, f) \in Seq(Fetches) /\ Append(queue, f) # <<>>
      /\ Len(Append(queue, f)) = Len(queue) + 1
      /\ \A i \in 1..Len(queue) : Append(queue, f)[i] = queue[i]
      /\ Append(queue, f)[Len(queue) + 1] = f
  BY AppendProperties
<1>2. InLane(f, Append(queue, f))
  <2>1. Len(queue) + 1 \in 1..Len(Append(queue, f))
    BY <1>1
  <2> QED
    BY <1>1, <2>1 DEF InLane
<1>3. ASSUME NEW g \in Fetches, InLane(g, queue)
      PROVE  InLane(g, Append(queue, f))
  <2>1. PICK i \in 1..Len(queue) : queue[i] = g
    BY <1>3 DEF InLane
  <2>2. i \in 1..Len(Append(queue, f))
    BY <1>1
  <2> QED
    BY <1>1, <2>1, <2>2 DEF InLane
<1>4. queue # <<>> => Head(Append(queue, f)) = Head(queue)
  BY HeadTailAppend
<1> QED
  BY <1>1, <1>2, <1>3, <1>4

LEMMA HeadLeft ==
  ASSUME NEW queue \in Seq(Fetches), queue # <<>>
  PROVE  /\ Tail(queue) \in Seq(Fetches) /\ Head(queue) \in Fetches
         /\ \A g \in Fetches :
              InLane(g, queue) /\ g # Head(queue) => InLane(g, Tail(queue))
<1>1. ASSUME NEW g \in Fetches, InLane(g, queue), g # Head(queue)
      PROVE  InLane(g, Tail(queue))
  <2>1. PICK i \in 1..Len(queue) : queue[i] = g
    BY <1>1 DEF InLane
  <2>2. i # 1
    BY <1>1, <2>1
  <2>3. i - 1 \in 1..Len(Tail(queue)) /\ Tail(queue)[i - 1] = g
    BY <2>1, <2>2
  <2> QED
    BY <2>3 DEF InLane
<1> QED
  BY <1>1

-----------------------------------------------------------------------------
(* The parts of the invariant, by what a step of f does.                   *)

OthersSame(f) == \A g \in Fetches \ {f} : fetch'[g] = fetch[g]
OthersUndisturbed(f) == \A g \in Fetches \ {f} : Undisturbed(g)

(* A job that goes on within its purse, its place and its rules.           *)
LEMMA JobsStay ==
  ASSUME FetchesTyped, FetchesTyped', JobsOK, NEW f \in Fetches, OthersSame(f),
         fetch'[f] \in Jobs => JobOK(fetch'[f])
  PROVE  JobsOK'
<1> SUFFICES ASSUME NEW g \in Fetches, fetch'[g] # Idle
             PROVE  JobOK(fetch'[g])
  BY DEF JobsOK, Active
<1>1. CASE g = f
  BY <1>1 DEF FetchesTyped
<1>2. CASE g # f
  BY <1>2 DEF OthersSame, JobsOK, Active
<1> QED
  BY <1>1, <1>2

LEMMA OkSent ==
  ASSUME NEW job \in Jobs, JobOK(job), job.at = "queued", NEW next, WasSent(job, next)
  PROVE  JobOK(next)
  BY Numbers
     DEF JobOK, Spent, Placed, UnderRules, Asking, WasSent, SameRequest, Jobs

LEMMA OkQueued ==
  ASSUME NEW job \in Jobs, JobOK(job), NEW next, NEW h,
         \/ job.at = "request" /\ WasQueued(job, next, h)
         \/ job.at = "sent" /\ WasRetried(job, next)
  PROVE  JobOK(next)
  BY Numbers
     DEF JobOK, Spent, Placed, UnderRules, Asking, WasQueued, WasRetried, SameRequest, Jobs

LEMMA OkRead ==
  ASSUME NEW job \in Jobs, JobOK(job), job.at # "queued", NEW rules, RulesFor(rules, job.page),
         NEW next, HasRead(job, next, rules)
  PROVE  JobOK(next)
  BY Numbers DEF JobOK, Spent, Placed, UnderRules, Asking, HasRead, SameTrip, Jobs

LEMMA OkAnswered ==
  ASSUME NEW job \in Jobs, JobOK(job), job.at \in {"consult", "awaiting"},
         NEW rules, RulesFor(rules, job.page), NEW next, HasRules(job, next, rules)
  PROVE  JobOK(next)
  BY Numbers DEF JobOK, Spent, Placed, UnderRules, Asking, HasRules, SameTrip, Jobs

LEMMA OkConsulting ==
  ASSUME NEW job \in Jobs, JobOK(job), job.at = "consult", NEW next, NEW g,
         HasToWait(job, next, g) \/ HasToRead(job, next)
  PROVE  JobOK(next)
  BY Numbers
     DEF JobOK, Spent, Placed, UnderRules, Asking, HasToWait, HasToRead, SameTrip, Jobs

LEMMA OkAllowed ==
  ASSUME NEW job \in Jobs, JobOK(job), job.at = "judge", job.rules.allowed,
         NEW next, WasAllowed(job, next)
  PROVE  JobOK(next)
  BY Numbers
     DEF JobOK, Spent, Placed, UnderRules, Asking, WasAllowed, SameTrip, SameRequest, Jobs

LEMMA OkIsAnswered ==
  ASSUME NEW job \in Jobs, JobOK(job), job.at = "sent", NEW next, IsAnswered(job, next)
  PROVE  JobOK(next)
  BY Numbers
     DEF JobOK, Spent, Placed, UnderRules, Asking, IsAnswered, SameTrip, SameRequest, Jobs

LEMMA OkMoved ==
  ASSUME NEW job \in Jobs, JobOK(job), job.at = "sent", NEW o \in Origins \ Blocked, NEW next,
         \/ job.reading /\ RulesAreAt(job, next, o)
         \/ ~job.reading /\ PageIsAt(job, next, o)
  PROVE  JobOK(next)
  BY Numbers
     DEF JobOK, Spent, Placed, UnderRules, Asking, RulesAreAt, PageIsAt, SameTrip, Jobs

LEMMA OkFresh ==
  ASSUME NEW o \in Origins \ Blocked
  PROVE  JobOK(Fresh(o))
  BY Numbers, JobFresh DEF JobOK, Spent, Placed, UnderRules, Asking

(* A read that goes on is the read it was.                                 *)
LEMMA ReadsStay ==
  ASSUME FetchesTyped, FetchesTyped', ReadsOK, NEW f \in Fetches, OthersSame(f), UNCHANGED robots,
         \A o \in Origins : Reads(f, o) => Reads(f, o)',
         fetch'[f] \in Jobs => fetch'[f].at # "awaiting"
  PROVE  ReadsOK'
<1>1. ASSUME NEW g \in Fetches, NEW o \in Origins, Reads(g, o) PROVE Reads(g, o)'
  BY <1>1 DEF OthersSame, Reads, Active
<1>2. ASSUME NEW o \in Origins
      PROVE  /\ robots'[o].kept => RulesFor(robots'[o].rules, o)
             /\ robots'[o].reader # Nobody => Reads(robots[o].reader, o)'
  BY <1>1, <1>2 DEF ReadsOK, Reads, Active
<1>3. ASSUME NEW g \in Active', fetch'[g].at = "awaiting"
      PROVE  Reads(fetch[g].awaits, fetch[g].page)'
  <2>1. g \in Fetches \ {f} /\ fetch'[g] = fetch[g] /\ g \in Active
    BY <1>3 DEF OthersSame, Active, FetchesTyped
  <2>2. Reads(fetch[g].awaits, fetch[g].page) /\ fetch[g].page \in Origins
    BY <1>3, <2>1 DEF ReadsOK, FetchesTyped, Active, Jobs
  <2> QED
    BY <1>1, <2>1, <2>2 DEF Reads, Active
<1> QED
  BY <1>2, <1>3 DEF ReadsOK

(* What f remembers is its own origin's.                                   *)
LEMMA RememberedEntry ==
  ASSUME robots \in [Origins -> Entries], NEW f \in Fetches, fetch[f].page \in Origins,
         NEW rules \in RuleBook, Remembered(f, rules)
  PROVE  /\ robots' \in [Origins -> Entries]
         /\ \A o \in Origins :
              IF o = fetch[f].page /\ robots[o].reader = f
                THEN /\ robots'[o].reader = Nobody /\ robots'[o].rules = rules
                     /\ robots'[o].kept = robots[o].kept
                ELSE robots'[o] = robots[o]
<1> DEFINE o == fetch[f].page
           noted == [robots[o] EXCEPT !.reader = Nobody, !.rules = rules]
<1>1. CASE robots[o].reader # f
  BY <1>1 DEF Remembered
<1>2. CASE robots[o].reader = f
  <2>1. robots[o] \in Entries
    OBVIOUS
  <2>2. /\ noted \in Entries /\ noted.reader = Nobody /\ noted.rules = rules
        /\ noted.kept = robots[o].kept
    BY <2>1 DEF Entries
  <2>3. robots' = [robots EXCEPT ![o] = noted]
    BY <1>2 DEF Remembered
  <2> HIDE DEF noted
  <2> QED
    BY <1>2, <2>2, <2>3
<1> QED
  BY <1>1, <1>2

LEMMA ReadsLearned ==
  ASSUME TypeOK, ReadsOK, NEW f \in Active, fetch[f].reading,
         NEW rules \in RuleBook, RulesFor(rules, fetch[f].page), Learned(f, rules)
  PROVE  ReadsOK' /\ robots' \in [Origins -> Entries]
<1>1. /\ FetchesTyped /\ f \in Fetches /\ fetch[f] \in Jobs /\ fetch[f].page \in Origins
      /\ robots \in [Origins -> Entries] /\ Remembered(f, rules)
  BY JobOrIdle DEF TypeOK, FetchesTyped, Active, Jobs, Learned
<1>2. /\ FetchesTyped'
      /\ HasRead(fetch[f], fetch'[f], rules)
      /\ \A g \in Fetches \ {f} : Undisturbed(g)
      /\ \A g \in Fetches \ {f} :
           IF Awaits(g, f) THEN fetch'[g].at = "judge" /\ fetch'[g].rules = rules
           ELSE fetch'[g] = fetch[g]
  BY <1>1, LearnedOn
<1>3. /\ robots' \in [Origins -> Entries]
      /\ \A o \in Origins :
           IF o = fetch[f].page /\ robots[o].reader = f
             THEN /\ robots'[o].reader = Nobody /\ robots'[o].rules = rules
                  /\ robots'[o].kept = robots[o].kept
             ELSE robots'[o] = robots[o]
  BY <1>1, RememberedEntry
<1>4. ASSUME NEW g \in Fetches \ {f}, NEW o \in Origins, Reads(g, o)
      PROVE  Reads(g, o)'
  <2>1. fetch[g] \in Jobs /\ fetch[g].reading /\ fetch[g].page = o
    BY <1>1, <1>4 DEF Reads, Active, FetchesTyped
  <2>2. fetch'[g] \in Jobs /\ fetch'[g].reading /\ fetch'[g].page = o
    BY <1>2, <2>1 DEF Undisturbed
  <2> QED
    BY <2>2, NoJobIsIdle DEF Reads, Active
<1>5. ASSUME NEW o \in Origins
      PROVE  /\ robots'[o].kept => RulesFor(robots'[o].rules, o)
             /\ robots'[o].reader # Nobody => Reads(robots[o].reader, o)'
  <2>1. CASE o = fetch[f].page /\ robots[o].reader = f
    BY <1>3, <2>1
  <2>2. CASE ~(o = fetch[f].page /\ robots[o].reader = f)
    <3>1. robots'[o] = robots[o]
      BY <1>3, <2>2
    <3>2. robots[o].reader # Nobody =>
            robots[o].reader \in Fetches \ {f} /\ Reads(robots[o].reader, o)
      BY <2>2 DEF ReadsOK, Reads, Active
    <3>3. robots[o].reader # Nobody => Reads(robots[o].reader, o)'
      <4> SUFFICES ASSUME robots[o].reader # Nobody
                   PROVE  Reads(robots[o].reader, o)'
        OBVIOUS
      <4> DEFINE g == robots[o].reader
      <4>1. g \in Fetches \ {f} /\ Reads(g, o)
        BY <3>2
      <4>2. \A k \in Fetches \ {f} : Reads(k, o) => Reads(k, o)'
        BY <1>4
      <4>3. fetch'[g] # Idle /\ fetch'[g].reading /\ fetch'[g].page = o
        BY <4>1, <4>2 DEF Reads, Active
      <4> QED
        BY <3>1, <4>1, <4>3 DEF Reads, Active
    <3> QED
      BY <3>1, <3>3 DEF ReadsOK
  <2> QED
    BY <2>1, <2>2
<1>6. ASSUME NEW g \in Fetches, fetch'[g] # Idle, fetch'[g].at = "awaiting"
      PROVE  Reads(fetch[g].awaits, fetch[g].page)'
  <2>1. g # f
    BY <1>2, <1>6 DEF HasRead
  <2>2. fetch'[g] = fetch[g] /\ ~Awaits(g, f)
    BY <1>2, <1>6, <2>1
  <2>3. g \in Active /\ fetch[g] \in Jobs /\ fetch[g].awaits # f
    BY <1>1, <1>6, <2>2 DEF Awaits, Active, FetchesTyped
  <2> DEFINE k == fetch[g].awaits
             o == fetch[g].page
  <2>4. Reads(k, o) /\ k \in Fetches \ {f} /\ o \in Origins
    BY <1>6, <2>2, <2>3 DEF ReadsOK, Reads, Active, Jobs
  <2>5. fetch'[k] # Idle /\ fetch'[k].reading /\ fetch'[k].page = o
    BY <1>4, <2>4 DEF Reads, Active
  <2> QED
    BY <2>2, <2>4, <2>5 DEF Reads, Active
<1> QED
  BY <1>3, <1>5, <1>6 DEF ReadsOK, Active

(* Whoever is answered has the rules of its own page.                      *)
LEMMA JobsLearned ==
  ASSUME TypeOK, JobsOK, ReadsOK, NEW f \in Active, fetch[f].reading, fetch[f].at # "queued",
         NEW rules \in RuleBook, RulesFor(rules, fetch[f].page), Learned(f, rules)
  PROVE  JobsOK'
<1>1. FetchesTyped /\ f \in Fetches /\ fetch[f] \in Jobs
  BY JobOrIdle DEF TypeOK, FetchesTyped, Active
<1>2. /\ FetchesTyped'
      /\ HasRead(fetch[f], fetch'[f], rules)
      /\ \A g \in Fetches \ {f} : Undisturbed(g)
      /\ \A g \in Fetches \ {f} :
           IF Awaits(g, f) THEN fetch'[g].at = "judge" /\ fetch'[g].rules = rules
           ELSE fetch'[g] = fetch[g]
  BY <1>1, LearnedOn
<1> SUFFICES ASSUME NEW g \in Fetches, fetch'[g] # Idle
             PROVE  JobOK(fetch'[g])
  BY DEF JobsOK, Active
<1>3. CASE g = f
  BY <1>1, <1>2, <1>3, OkRead DEF JobsOK
<1>4. CASE g # f /\ Awaits(g, f)
  <2>1. g \in Active /\ fetch[g].at = "awaiting" /\ fetch[g].awaits = f
    BY <1>4 DEF Awaits, Active, Idle
  <2>2. fetch[g] \in Jobs /\ JobOK(fetch[g]) /\ fetch[g].page = fetch[f].page
    BY <1>1, <2>1 DEF JobsOK, ReadsOK, Reads, FetchesTyped, Active
  <2>3. fetch'[g] # fetch[g]
    BY <1>2, <1>4, <2>1
  <2>4. HasRules(fetch[g], fetch'[g], rules)
    BY <1>2, <1>4, <2>3 DEF Undisturbed, HasRules
  <2> QED
    BY <2>1, <2>2, <2>4, OkAnswered
<1>5. CASE g # f /\ ~Awaits(g, f)
  BY <1>2, <1>5 DEF JobsOK, Active
<1> QED
  BY <1>3, <1>4, <1>5

(* What a step of f may do to the lanes: f joins one at its end, or leaves *)
(* its head.                                                               *)
LanesMove(f) ==
  \/ lane' = lane
  \/ \E h \in Hosts : lane' = [lane EXCEPT ![h] = Append(lane[h], f)]
  \/ /\ f \in Active /\ fetch[f].at = "sent"
     /\ \/ lane' = LaneLeft(f)
        \/ lane' = [lane EXCEPT ![Host(f)] = Append(Tail(lane[Host(f)]), f)]

LEMMA LanesTyped ==
  ASSUME TypeOK, LanesOK, NEW f \in Fetches, LanesMove(f)
  PROVE  lane' \in [Hosts -> Seq(Fetches)]
<1>1. CASE lane' = lane
  BY <1>1 DEF TypeOK
<1>2. ASSUME NEW h \in Hosts, lane' = [lane EXCEPT ![h] = Append(lane[h], f)]
      PROVE  lane' \in [Hosts -> Seq(Fetches)]
  <2>1. Append(lane[h], f) \in Seq(Fetches)
    BY Joined DEF TypeOK
  <2> QED
    BY <1>2, <2>1 DEF TypeOK
<1>3. CASE /\ f \in Active /\ fetch[f].at = "sent"
           /\ \/ lane' = LaneLeft(f)
              \/ lane' = [lane EXCEPT ![Host(f)] = Append(Tail(lane[Host(f)]), f)]
  <2>1. Host(f) \in Hosts /\ lane[Host(f)] \in Seq(Fetches) /\ lane[Host(f)] # <<>>
    BY <1>3, JobOrIdle DEF LanesOK, HasLane, TypeOK
  <2>2. /\ Tail(lane[Host(f)]) \in Seq(Fetches)
        /\ Append(Tail(lane[Host(f)]), f) \in Seq(Fetches)
    BY <2>1, HeadLeft, Joined
  <2> QED
    BY <1>3, <2>1, <2>2 DEF LaneLeft, TypeOK
<1> QED
  BY <1>1, <1>2, <1>3 DEF LanesMove

(* Nobody else loses its place by it.                                      *)
LEMMA LaneOfOthers ==
  ASSUME TypeOK, FetchesTyped', LanesOK, NEW f \in Fetches, LanesMove(f),
         NEW g \in Fetches \ {f}, Undisturbed(g), fetch'[g] # Idle
  PROVE  HasLane(g)'
<1>1. CASE fetch[g].at = "awaiting" /\ fetch'[g].at = "judge"
  BY <1>1 DEF HasLane
<1> SUFFICES ASSUME fetch'[g] = fetch[g]
             PROVE  HasLane(g)'
  BY <1>1 DEF Undisturbed
<1> DEFINE h == Host(g)
<1>2. /\ g \in Active /\ HasLane(g) /\ h \in Hosts /\ lane[h] \in Seq(Fetches)
      /\ h = HostOf[fetch'[g].target]
  BY JobOrIdle DEF Active, LanesOK, TypeOK, Host
<1>3. /\ InLane(g, lane[h]) /\ fetch[g].at = "queued" => InLane(g, lane'[h])
      /\ fetch[g].at = "sent" => lane'[h] # <<>> /\ Head(lane'[h]) = g
  <2>1. CASE lane'[h] = lane[h]
    BY <1>2, <2>1 DEF HasLane
  <2>2. CASE lane'[h] = Append(lane[h], f)
    BY <1>2, <2>2, Joined DEF HasLane
  <2>3. CASE /\ f \in Active /\ fetch[f].at = "sent" /\ Host(f) = h
             /\ lane'[h] = Tail(lane[h]) \/ lane'[h] = Append(Tail(lane[h]), f)
    <3>1. lane[h] # <<>> /\ Head(lane[h]) = f
      BY <2>3 DEF LanesOK, HasLane
    <3>2. fetch[g].at # "sent"
      BY <1>2, <3>1 DEF HasLane
    <3>3. Tail(lane[h]) \in Seq(Fetches)
          /\ (InLane(g, lane[h]) => InLane(g, Tail(lane[h])))
      BY <1>2, <3>1, HeadLeft
    <3> QED
      BY <2>3, <3>2, <3>3, Joined
  <2> QED
    BY <1>2, <2>1, <2>2, <2>3 DEF LanesMove, LaneLeft, TypeOK
<1> QED
  BY <1>2, <1>3 DEF HasLane, Host

LEMMA LanesStay ==
  ASSUME TypeOK, FetchesTyped', LanesOK, NEW f \in Fetches, LanesMove(f),
         OthersUndisturbed(f), fetch'[f] # Idle => HasLane(f)'
  PROVE  LanesOK' /\ lane' \in [Hosts -> Seq(Fetches)]
  BY LanesTyped, LaneOfOthers DEF OthersUndisturbed, LanesOK, Active

(* Hosts come to rest and waits are put on them, and no more.              *)
HostsWait ==
  /\ quiet' \in [Hosts -> Nat] /\ until' \in [Hosts -> Nat]
  /\ \A h \in Hosts : quiet'[h] <= quiet[h] /\ until'[h] >= until[h]

LEMMA RestOfOthers ==
  ASSUME TypeOK, FetchesTyped', RestOK, HostsWait,
         NEW g \in Fetches, Undisturbed(g), fetch'[g] # Idle
  PROVE  Rested(g)'
<1>1. /\ g \in Active /\ fetch[g] \in Jobs /\ Rested(g) /\ Host(g) \in Hosts
      /\ fetch'[g] \in Jobs
  BY NoJobIsIdle, JobOrIdle DEF Undisturbed, Active, RestOK, FetchesTyped
<1>2. /\ SameTrip(fetch[g], fetch'[g]) /\ fetch'[g].target = fetch[g].target
      /\ fetch'[g].at = fetch[g].at \/ (fetch[g].at = "awaiting" /\ fetch'[g].at = "judge")
  BY DEF Undisturbed, SameTrip
<1>3. /\ fetch[g].last \in Hosts \cup {Nowhere} /\ fetch[g].since \in Nat
      /\ \A h \in Hosts : quiet[h] \in Nat /\ until[h] \in Nat
      /\ \A h \in Hosts : quiet'[h] \in Nat /\ until'[h] \in Nat
  BY <1>1, JobNumbers DEF TypeOK, HostsWait
<1> QED
  BY <1>1, <1>2, <1>3, Numbers DEF Rested, Waiting, SameTrip, Host, HostsWait

LEMMA RestStays ==
  ASSUME TypeOK, FetchesTyped', RestOK, NEW f \in Fetches, HostsWait,
         OthersUndisturbed(f), fetch'[f] # Idle => Rested(f)'
  PROVE  RestOK'
  BY RestOfOthers DEF OthersUndisturbed, RestOK, Active

(* A fetch that does not wait in a lane any more, or not yet.              *)
LEMMA RestOfOneAtRest ==
  ASSUME TypeOK, RestOK, HostsWait, NEW f \in Active, fetch[f].at # "queued",
         fetch'[f] \in Jobs, ~Waiting(fetch'[f]), SameTrip(fetch[f], fetch'[f])
  PROVE  Rested(f)' /\ HasLane(f)'
<1>1. Rested(f) /\ fetch[f] \in Jobs
  BY JobOrIdle DEF RestOK, Active
<1>2. /\ fetch[f].last \in Hosts \cup {Nowhere} /\ fetch[f].since \in Nat
      /\ \A h \in Hosts : quiet[h] \in Nat /\ quiet'[h] \in Nat
  BY <1>1, JobNumbers DEF TypeOK, HostsWait
<1> QED
  BY <1>1, <1>2, Numbers DEF Rested, HasLane, Waiting, SameTrip, HostsWait

-----------------------------------------------------------------------------
(* Whole steps: what they share, and then each of them.                    *)

LEMMA StepOfOne ==
  ASSUME FetchInv, NEW f \in Fetches, NEW next \in Jobs \cup {Idle}, Goes(f, next),
         LanesMove(f), HostsWait,
         next \in Jobs => JobOK(next) /\ HasLane(f)' /\ Rested(f)'
  PROVE  /\ FetchesTyped' /\ fetch'[f] = next /\ OthersSame(f)
         /\ JobsOK' /\ LanesOK' /\ RestOK' /\ lane' \in [Hosts -> Seq(Fetches)]
<1>1. FetchesTyped /\ TypeOK /\ JobsOK /\ LanesOK /\ RestOK
  BY DEF FetchInv, TypeOK, FetchesTyped
<1>2. FetchesTyped' /\ fetch'[f] = next /\ OthersSame(f) /\ OthersUndisturbed(f)
  BY <1>1, GoesOn DEF OthersSame, OthersUndisturbed
<1>3. JobsOK'
  BY <1>1, <1>2, JobsStay
<1>4. fetch'[f] # Idle => HasLane(f)' /\ Rested(f)'
  BY <1>2
<1> QED
  BY <1>1, <1>2, <1>3, <1>4, LanesStay, RestStays

(* A fetch that asks for a page, or reads nothing, ends.                   *)
LEMMA EndOfOne ==
  ASSUME FetchInv, NEW f \in Fetches, fetch[f] # Idle => ~fetch[f].reading, Goes(f, Idle),
         LanesMove(f), HostsWait, UNCHANGED <<robots, interval, asked>>,
         heard' \in [Hosts -> [RetryAfters -> Nat]], HeardOK'
  PROVE  FetchInv'
<1>1. TypeOK /\ ReadsOK /\ FetchesTyped
  BY DEF FetchInv, TypeOK, FetchesTyped
<1>2. /\ FetchesTyped' /\ fetch'[f] = Idle /\ OthersSame(f)
      /\ JobsOK' /\ LanesOK' /\ RestOK' /\ lane' \in [Hosts -> Seq(Fetches)]
  BY StepOfOne, NoJobIsIdle
<1>3. ReadsOK'
  <2>1. \A o \in Origins : ~Reads(f, o)
    BY DEF Reads, Active
  <2> QED
    BY <1>1, <1>2, <2>1, NoJobIsIdle, ReadsStay
<1>4. TypeOK'
  BY <1>1, <1>2 DEF TypeOK, FetchesTyped, HostsWait
<1> QED
  BY <1>2, <1>3, <1>4 DEF FetchInv

(* A fetch that learns the rules it read goes on under them.               *)
LEMMA EndOfRead ==
  ASSUME FetchInv, NEW f \in Active, fetch[f].reading, fetch[f].at # "queued",
         NEW rules \in RuleBook, RulesFor(rules, fetch[f].page), Learned(f, rules),
         LanesMove(f), HostsWait, UNCHANGED interval,
         heard' \in [Hosts -> [RetryAfters -> Nat]], HeardOK'
  PROVE  FetchInv'
<1>1. /\ TypeOK /\ JobsOK /\ ReadsOK /\ LanesOK /\ RestOK /\ FetchesTyped /\ f \in Fetches
      /\ fetch[f].page \in Origins
  BY JobOrIdle, JobNumbers DEF FetchInv, TypeOK, FetchesTyped, Active
<1>2. /\ FetchesTyped' /\ HasRead(fetch[f], fetch'[f], rules) /\ OthersUndisturbed(f)
  BY <1>1, LearnedOn DEF OthersUndisturbed
<1>3. JobsOK' /\ ReadsOK' /\ robots' \in [Origins -> Entries]
  BY <1>1, JobsLearned, ReadsLearned
<1>4. Rested(f)' /\ HasLane(f)'
  BY <1>1, <1>2, RestOfOneAtRest DEF HasRead, Waiting
<1>5. LanesOK' /\ RestOK' /\ lane' \in [Hosts -> Seq(Fetches)]
  BY <1>1, <1>2, <1>4, LanesStay, RestStays
<1>6. asked' \in [Origins -> AllDelays \cup {0}]
  BY <1>1 DEF Learned, Remembered, TypeOK, RuleBook
<1>7. TypeOK'
  BY <1>1, <1>2, <1>3, <1>5, <1>6 DEF TypeOK, FetchesTyped, HostsWait
<1> QED
  BY <1>3, <1>5, <1>7 DEF FetchInv

(* Nothing happens to the hosts.                                           *)
LEMMA HostsAsTheyWere ==
  ASSUME FetchInv, UNCHANGED <<quiet, until>>
  PROVE  HostsWait
  BY DEF FetchInv, TypeOK, HostsWait

LEMMA HeardAsItWas ==
  ASSUME FetchInv, HostsWait, UNCHANGED heard
  PROVE  HeardOK' /\ heard' \in [Hosts -> [RetryAfters -> Nat]]
<1>1. heard \in [Hosts -> [RetryAfters -> Nat]]
  BY DEF FetchInv, TypeOK
<1>2. ASSUME NEW h \in Hosts, NEW w \in RetryAfters
      PROVE  heard[h][w] + until'[h] >= Smaller(BackoffCap, w)
  <2>1. /\ heard[h][w] \in Nat /\ until[h] \in Nat /\ until'[h] \in Nat
        /\ Smaller(BackoffCap, w) \in Nat
    BY <1>1, WaitsAreNumbers DEF FetchInv, TypeOK, HostsWait
  <2>2. heard[h][w] + until[h] >= Smaller(BackoffCap, w) /\ until'[h] >= until[h]
    BY DEF FetchInv, HeardOK, HostsWait
  <2> QED
    BY <2>1, <2>2
<1> QED
  BY <1>1, <1>2 DEF HeardOK

(* The headers are there, and a body is to come: f leaves its lane.        *)
LEMMA BodyAwaitedKeeps ==
  ASSUME FetchInv, NEW f \in Fetches, fetch[f].at = "sent", BodyAwaited(f),
         UNCHANGED <<interval, quiet, until, heard>>
  PROVE  FetchInv'
<1> DEFINE job == fetch[f]
           next == [job EXCEPT !.at = "body"]
<1>1. /\ TypeOK /\ FetchesTyped /\ f \in Active /\ job \in Jobs /\ JobOK(job)
  BY JobOrIdle DEF FetchInv, JobsOK, TypeOK, FetchesTyped
<1>2. HostsWait
  BY HostsAsTheyWere
<1>3. HeardOK' /\ heard' \in [Hosts -> [RetryAfters -> Nat]] /\ LanesMove(f)
  BY <1>1, <1>2, HeardAsItWas DEF BodyAwaited, LanesMove
<1>4. IsAnswered(job, next) /\ Goes(f, next)
  BY <1>1, JobIsAnswered, Zenon DEF BodyAwaited
<1> HIDE DEF next
<1>5. next \in Jobs /\ JobOK(next) /\ SameTrip(job, next) /\ ~Waiting(next)
  BY <1>1, <1>4, OkIsAnswered DEF IsAnswered, Waiting
<1>6. fetch'[f] = next
  BY <1>1, <1>4, <1>5, GoesOn
<1>7. HasLane(f)' /\ Rested(f)'
  BY <1>1, <1>2, <1>5, <1>6, RestOfOneAtRest DEF FetchInv
<1>8. /\ FetchesTyped' /\ OthersSame(f)
      /\ JobsOK' /\ LanesOK' /\ RestOK' /\ lane' \in [Hosts -> Seq(Fetches)]
  BY <1>2, <1>3, <1>4, <1>5, <1>7, StepOfOne
<1>9. ReadsOK'
  <2>1. \A k \in Origins : Reads(f, k) => Reads(f, k)'
    BY <1>4, <1>6, NoJobIsIdle DEF Reads, Active, IsAnswered, SameRequest
  <2> QED
    BY <1>1, <1>4, <1>6, <1>8, <2>1, ReadsStay DEF FetchInv, BodyAwaited, IsAnswered
<1>10. TypeOK'
  BY <1>1, <1>2, <1>3, <1>8 DEF TypeOK, FetchesTyped, BodyAwaited, HostsWait
<1> QED
  BY <1>3, <1>8, <1>9, <1>10 DEF FetchInv

LEMMA StartKeeps ==
  ASSUME FetchInv, NEW f \in Fetches, NEW o \in Asked[f], Start(f, o)
  PROVE  FetchInv'
<1>1. o \in Origins \ Blocked /\ Fresh(o) \in Jobs /\ Fresh(o).at = "consult"
      /\ Fresh(o).last = Nowhere /\ Fresh(o).since = Floor
  BY FetchAssumption, JobFresh DEF Start
<1>2. HostsWait /\ HeardOK' /\ heard' \in [Hosts -> [RetryAfters -> Nat]] /\ LanesMove(f)
  BY HostsAsTheyWere, HeardAsItWas DEF Start, LanesMove
<1>3. fetch'[f] = Fresh(o)
  BY <1>1, GoesOn DEF Start, FetchInv, TypeOK, FetchesTyped
<1>4. JobOK(Fresh(o)) /\ HasLane(f)' /\ Rested(f)'
  BY <1>1, <1>3, OkFresh DEF HasLane, Rested, Waiting
<1>5. /\ FetchesTyped' /\ OthersSame(f)
      /\ JobsOK' /\ LanesOK' /\ RestOK' /\ lane' \in [Hosts -> Seq(Fetches)]
  BY <1>1, <1>2, <1>4, StepOfOne DEF Start
<1>6. ReadsOK'
  <2>1. \A k \in Origins : ~Reads(f, k)
    BY DEF Reads, Active, Start
  <2> QED
    BY <1>1, <1>3, <1>5, <2>1, ReadsStay DEF FetchInv, TypeOK, FetchesTyped, Start
<1>7. TypeOK'
  BY <1>2, <1>5 DEF FetchInv, TypeOK, FetchesTyped, Start, HostsWait
<1> QED
  BY <1>2, <1>5, <1>6, <1>7 DEF FetchInv

LEMMA SentKeeps ==
  ASSUME FetchInv, NEW f \in Fetches, Sent(f)
  PROVE  FetchInv'
<1> DEFINE job == fetch[f]
           next == [job EXCEPT !.at = "sent", !.cost = @ + 1, !.since = 0]
<1>1. /\ TypeOK /\ FetchesTyped /\ f \in Active /\ job \in Jobs /\ JobOK(job)
      /\ Host(f) \in Hosts /\ Rested(f) /\ HasLane(f) /\ job.at = "queued"
  BY JobOrIdle
     DEF Sent, MayLeave, FetchInv, JobsOK, RestOK, LanesOK, TypeOK, FetchesTyped
<1>2. WasSent(job, next) /\ Goes(f, next)
  BY <1>1, JobSent, Zenon DEF Sent
<1> HIDE DEF next
<1>3. next \in Jobs /\ JobOK(next) /\ fetch'[f] = next /\ OthersSame(f)
  BY <1>1, <1>2, OkSent, GoesOn DEF WasSent, OthersSame
<1>4. Host(f)' = Host(f)
  BY <1>2, <1>3 DEF WasSent, SameRequest, Host
<1>5. HostsWait /\ quiet'[Host(f)] = 0
  BY <1>1 DEF Sent, HostsWait, TypeOK
<1>6. HeardOK' /\ heard' \in [Hosts -> [RetryAfters -> Nat]] /\ LanesMove(f)
  BY <1>5, HeardAsItWas DEF Sent, LanesMove
<1>7. HasLane(f)'
  <2>1. lane[Host(f)] # <<>>
    <3>1. InLane(f, lane[Host(f)])
      BY <1>1 DEF HasLane
    <3> QED
      BY <3>1 DEF InLane
  <2> QED
    BY <1>2, <1>3, <1>4, <2>1 DEF HasLane, WasSent, Sent, MayLeave
<1>8. Rested(f)'
  <2>1. job.last = Host(f) /\ Host(f) # Nowhere
    BY <1>1, Names DEF Rested, Waiting
  <2> QED
    BY <1>2, <1>3, <1>4, <1>5, <2>1, Numbers DEF Rested, Waiting, WasSent
<1>9. /\ FetchesTyped' /\ JobsOK' /\ LanesOK' /\ RestOK' /\ lane' \in [Hosts -> Seq(Fetches)]
  BY <1>2, <1>3, <1>5, <1>6, <1>7, <1>8, StepOfOne
<1>10. ReadsOK'
  <2>1. \A o \in Origins : Reads(f, o) => Reads(f, o)'
    BY <1>2, <1>3, NoJobIsIdle DEF Reads, Active, WasSent, SameRequest
  <2> QED
    BY <1>1, <1>2, <1>3, <1>9, <2>1, ReadsStay DEF FetchInv, Sent, WasSent
<1>11. TypeOK'
  BY <1>1, <1>5, <1>6, <1>9 DEF TypeOK, FetchesTyped, Sent, HostsWait
<1> QED
  BY <1>6, <1>9, <1>10, <1>11 DEF FetchInv

LEMMA ConsultKeeps ==
  ASSUME FetchInv, NEW f \in Fetches, Consult(f)
  PROVE  FetchInv'
<1> DEFINE job == fetch[f]
           o == job.page
<1>1. /\ TypeOK /\ FetchesTyped /\ ReadsOK /\ RestOK /\ f \in Active /\ job \in Jobs /\ JobOK(job)
      /\ o \in Origins /\ robots \in [Origins -> Entries] /\ job.at = "consult"
      /\ ~job.reading
  BY JobOrIdle, JobNumbers
     DEF Consult, FetchInv, JobsOK, TypeOK, FetchesTyped, JobOK, Placed, Asking
<1>2. HostsWait /\ HeardOK' /\ heard' \in [Hosts -> [RetryAfters -> Nat]] /\ LanesMove(f)
  BY HostsAsTheyWere, HeardAsItWas DEF Consult, LanesMove
<1>3. ASSUME NEW next \in Jobs, Goes(f, next), JobOK(next), SameTrip(job, next), ~Waiting(next)
      PROVE  /\ FetchesTyped' /\ fetch'[f] = next /\ OthersSame(f)
             /\ JobsOK' /\ LanesOK' /\ RestOK' /\ lane' \in [Hosts -> Seq(Fetches)]
  <2>1. fetch'[f] = next
    BY <1>1, <1>3, GoesOn
  <2>2. HasLane(f)' /\ Rested(f)'
    BY <1>1, <1>2, <1>3, <2>1, RestOfOneAtRest
  <2> QED
    BY <1>2, <1>3, <2>2, StepOfOne
<1>4. CASE /\ Cached(o) /\ robots[o].reader = Nobody
           /\ Goes(f, [job EXCEPT !.at = "judge", !.rules = robots[o].rules])
           /\ UNCHANGED robots
  <2> DEFINE next == [job EXCEPT !.at = "judge", !.rules = robots[o].rules]
  <2>1. robots[o].rules \in RuleBook /\ RulesFor(robots[o].rules, o)
    BY <1>1, <1>4 DEF Cached, ReadsOK, Entries
  <2>2. HasRules(job, next, robots[o].rules) /\ Goes(f, next)
    BY <1>1, <1>4, <2>1, JobJudging, Zenon
  <2> HIDE DEF next
  <2>3. next \in Jobs /\ JobOK(next) /\ SameTrip(job, next) /\ ~Waiting(next)
    BY <1>1, <2>1, <2>2, OkAnswered DEF HasRules, Waiting
  <2>4. /\ FetchesTyped' /\ fetch'[f] = next /\ OthersSame(f)
        /\ JobsOK' /\ LanesOK' /\ RestOK' /\ lane' \in [Hosts -> Seq(Fetches)]
    BY <1>3, <2>2, <2>3
  <2>5. ReadsOK'
    BY <1>1, <1>4, <2>2, <2>4, ReadsStay DEF Reads, HasRules
  <2>6. TypeOK'
    BY <1>1, <1>2, <1>4, <2>4 DEF TypeOK, FetchesTyped, Consult, HostsWait
  <2> QED
    BY <1>2, <2>4, <2>5, <2>6 DEF FetchInv
<1>5. CASE /\ Cached(o) /\ robots[o].reader # Nobody
           /\ Goes(f, [job EXCEPT !.at = "awaiting", !.awaits = robots[o].reader])
           /\ UNCHANGED robots
  <2> DEFINE k == robots[o].reader
             next == [job EXCEPT !.at = "awaiting", !.awaits = k]
  <2>1. k \in Fetches \ {f} /\ Reads(k, o)
    BY <1>1, <1>5 DEF ReadsOK, Reads, Active
  <2>2. HasToWait(job, next, k) /\ Goes(f, next)
    BY <1>1, <1>5, <2>1, JobAwaiting, Zenon
  <2> HIDE DEF next
  <2>3. next \in Jobs /\ JobOK(next) /\ SameTrip(job, next) /\ ~Waiting(next)
    BY <1>1, <2>2, OkConsulting DEF HasToWait, Waiting
  <2>4. /\ FetchesTyped' /\ fetch'[f] = next /\ OthersSame(f)
        /\ JobsOK' /\ LanesOK' /\ RestOK' /\ lane' \in [Hosts -> Seq(Fetches)]
    BY <1>3, <2>2, <2>3
  <2>5. ReadsOK'
    <3>1. ASSUME NEW g \in Fetches, NEW p \in Origins, Reads(g, p)
          PROVE  g # f /\ fetch'[g] = fetch[g] /\ Reads(g, p)'
      BY <1>1, <2>4, <3>1 DEF OthersSame, Reads, Active
    <3>2. ASSUME NEW p \in Origins
          PROVE  /\ robots'[p].kept => RulesFor(robots'[p].rules, p)
                 /\ robots'[p].reader # Nobody => Reads(robots[p].reader, p)'
      BY <1>1, <1>5, <3>1 DEF ReadsOK, Reads, Active
    <3>3. ASSUME NEW g \in Fetches, fetch'[g] # Idle, fetch'[g].at = "awaiting"
          PROVE  Reads(fetch[g].awaits, fetch[g].page)'
      <4> DEFINE a == fetch'[g].awaits
                 p == fetch'[g].page
      <4>1. Reads(a, p) /\ a \in Fetches /\ p \in Origins
        <5>1. CASE g = f
          BY <1>1, <2>1, <2>2, <2>4, <5>1 DEF HasToWait
        <5>2. CASE g # f
          <6>1. fetch'[g] = fetch[g] /\ g \in Active /\ fetch[g] \in Jobs
            BY <1>1, <2>4, <3>3, <5>2 DEF OthersSame, Active, FetchesTyped
          <6> QED
            BY <1>1, <3>3, <6>1, JobNumbers DEF ReadsOK, Reads, Active
        <5> QED
          BY <5>1, <5>2
      <4>2. fetch'[a] # Idle /\ fetch'[a].reading /\ fetch'[a].page = p
        BY <3>1, <4>1 DEF Reads, Active
      <4> QED
        BY <4>1, <4>2 DEF Reads, Active
    <3> QED
      BY <3>2, <3>3 DEF ReadsOK, Active
  <2>6. TypeOK'
    BY <1>1, <1>2, <1>5, <2>4 DEF TypeOK, FetchesTyped, Consult, HostsWait
  <2> QED
    BY <1>2, <2>4, <2>5, <2>6 DEF FetchInv
<1>6. CASE /\ ~Cached(o)
           /\ robots' = [robots EXCEPT ![o] =
                [reader |-> f, rules |-> Unread(o), age |-> 0, kept |-> TRUE]]
           /\ Goes(f, [job EXCEPT !.at = "request", !.reading = TRUE])
  <2> DEFINE next == [job EXCEPT !.at = "request", !.reading = TRUE]
             entry == [reader |-> f, rules |-> Unread(o), age |-> 0, kept |-> TRUE]
  <2>1. HasToRead(job, next) /\ Goes(f, next)
    BY <1>1, <1>6, JobReading, Zenon
  <2> HIDE DEF next
  <2>2. next \in Jobs /\ JobOK(next) /\ SameTrip(job, next) /\ ~Waiting(next)
    BY <1>1, <2>1, OkConsulting DEF HasToRead, Waiting
  <2>3. /\ FetchesTyped' /\ fetch'[f] = next /\ OthersSame(f)
        /\ JobsOK' /\ LanesOK' /\ RestOK' /\ lane' \in [Hosts -> Seq(Fetches)]
    BY <1>3, <2>1, <2>2
  <2>4. entry \in Entries /\ entry.reader = f /\ RulesFor(entry.rules, o)
    BY <1>1, UnreadRules DEF Entries
  <2> HIDE DEF entry
  <2>5. robots' = [robots EXCEPT ![o] = entry]
    BY <1>6 DEF entry
  <2>6. robots' \in [Origins -> Entries] /\ robots'[o] = entry
        /\ \A p \in Origins \ {o} : robots'[p] = robots[p]
    BY <1>1, <2>4, <2>5
  <2>7. ReadsOK'
    <3>1. ASSUME NEW g \in Fetches, NEW p \in Origins, Reads(g, p)
          PROVE  g # f /\ fetch'[g] = fetch[g] /\ Reads(g, p)'
      BY <1>1, <2>3, <3>1 DEF OthersSame, Reads, Active
    <3>2. fetch'[f] # Idle /\ fetch'[f].reading /\ fetch'[f].page = o
      BY <2>1, <2>3, NoJobIsIdle DEF HasToRead
    <3>3. ASSUME NEW p \in Origins
          PROVE  /\ robots'[p].kept => RulesFor(robots'[p].rules, p)
                 /\ robots'[p].reader # Nobody => Reads(robots[p].reader, p)'
      <4>1. CASE p = o
        BY <2>4, <2>6, <3>2, <4>1 DEF Reads, Active
      <4>2. CASE p # o
        BY <1>1, <2>6, <3>1, <4>2 DEF ReadsOK, Reads, Active
      <4> QED
        BY <4>1, <4>2
    <3>4. ASSUME NEW g \in Fetches, fetch'[g] # Idle, fetch'[g].at = "awaiting"
          PROVE  Reads(fetch[g].awaits, fetch[g].page)'
      <4>1. g # f
        BY <2>1, <2>3, <3>4 DEF HasToRead
      <4>2. fetch'[g] = fetch[g] /\ g \in Active /\ fetch[g] \in Jobs
        BY <1>1, <2>3, <3>4, <4>1 DEF OthersSame, Active, FetchesTyped
      <4> DEFINE a == fetch[g].awaits
                 p == fetch[g].page
      <4>3. Reads(a, p) /\ a \in Fetches /\ p \in Origins
        BY <1>1, <3>4, <4>2, JobNumbers DEF ReadsOK, Reads, Active
      <4>4. fetch'[a] # Idle /\ fetch'[a].reading /\ fetch'[a].page = p
        BY <3>1, <4>3 DEF Reads, Active
      <4> QED
        BY <4>2, <4>3, <4>4 DEF Reads, Active
    <3> QED
      BY <3>3, <3>4 DEF ReadsOK, Active
  <2>8. TypeOK'
    BY <1>1, <1>2, <2>3, <2>6 DEF TypeOK, FetchesTyped, Consult, HostsWait
  <2> QED
    BY <1>2, <2>3, <2>7, <2>8 DEF FetchInv
<1> QED
  BY <1>4, <1>5, <1>6 DEF Consult

LEMMA JudgeKeeps ==
  ASSUME FetchInv, NEW f \in Fetches, Judge(f)
  PROVE  FetchInv'
<1> DEFINE job == fetch[f]
           next == [job EXCEPT !.at = "request"]
<1>1. /\ TypeOK /\ FetchesTyped /\ ReadsOK /\ RestOK /\ f \in Active /\ job \in Jobs /\ JobOK(job)
      /\ job.at = "judge" /\ ~job.reading
  BY JobOrIdle DEF Judge, FetchInv, JobsOK, TypeOK, FetchesTyped, JobOK, Placed, Asking
<1>2. HostsWait /\ HeardOK' /\ heard' \in [Hosts -> [RetryAfters -> Nat]] /\ LanesMove(f)
  BY HostsAsTheyWere, HeardAsItWas DEF Judge, LanesMove
<1>3. CASE ~job.rules.allowed
  BY <1>1, <1>2, <1>3, EndOfOne DEF Judge
<1>4. CASE job.rules.allowed
  <2>1. WasAllowed(job, next) /\ Goes(f, next)
    <3>1. Goes(f, next)
      BY <1>4, Zenon DEF Judge
    <3> QED
      BY <1>1, <3>1, JobAllowed, Zenon
  <2> HIDE DEF next
  <2>2. next \in Jobs /\ JobOK(next) /\ SameTrip(job, next) /\ ~Waiting(next)
    BY <1>1, <1>4, <2>1, OkAllowed DEF WasAllowed, Waiting
  <2>3. fetch'[f] = next
    BY <1>1, <2>1, <2>2, GoesOn
  <2>4. HasLane(f)' /\ Rested(f)'
    BY <1>1, <1>2, <2>2, <2>3, RestOfOneAtRest
  <2>5. /\ FetchesTyped' /\ OthersSame(f)
        /\ JobsOK' /\ LanesOK' /\ RestOK' /\ lane' \in [Hosts -> Seq(Fetches)]
    BY <1>2, <2>1, <2>2, <2>4, StepOfOne
  <2>6. ReadsOK'
    BY <1>1, <2>1, <2>3, <2>5, ReadsStay DEF Reads, WasAllowed, Judge
  <2>7. interval' \in [Hosts -> AllDelays \cup {0}]
    <3>1. job.rules.delay \in AllDelays \cup {0}
      BY <1>1, JobNumbers DEF RuleBook
    <3> QED
      BY <1>1, <1>4, <3>1 DEF Judge, TypeOK
  <2>8. TypeOK'
    BY <1>1, <1>2, <2>5, <2>7 DEF TypeOK, FetchesTyped, Judge, HostsWait
  <2> QED
    BY <1>2, <2>5, <2>6, <2>8 DEF FetchInv
<1> QED
  BY <1>3, <1>4

LEMMA DeferredHosts ==
  ASSUME FetchInv, NEW h \in Hosts, NEW wait \in Nat, UNCHANGED quiet,
         until' = Deferred(h, wait)
  PROVE  HostsWait /\ until'[h] >= wait
<1>1. /\ quiet \in [Hosts -> Nat] /\ until \in [Hosts -> Nat] /\ until[h] \in Nat
      /\ Larger(until[h], wait) \in Nat
      /\ Larger(until[h], wait) >= until[h] /\ Larger(until[h], wait) >= wait
  BY Sizes DEF FetchInv, TypeOK
<1> QED
  BY <1>1 DEF Deferred, HostsWait

LEMMA RequestKeeps ==
  ASSUME FetchInv, NEW f \in Fetches, Request(f)
  PROVE  FetchInv'
<1> DEFINE job == fetch[f]
           h == Host(f)
           next == [job EXCEPT !.at = "queued", !.last = h, !.left = @ - 1]
<1>1. /\ TypeOK /\ FetchesTyped /\ f \in Active /\ job \in Jobs /\ JobOK(job)
      /\ h \in Hosts /\ Rested(f) /\ job.at = "request" /\ job.left > 0
      /\ lane[h] \in Seq(Fetches) /\ h # Nowhere
  BY JobOrIdle, Names DEF Request, FetchInv, JobsOK, RestOK, TypeOK, FetchesTyped
<1>2. WasQueued(job, next, h) /\ Goes(f, next)
  <2>1. Goes(f, next)
    BY Zenon DEF Request
  <2> QED
    BY <1>1, <2>1, JobQueued, Zenon
<1> HIDE DEF next
<1>3. next \in Jobs /\ JobOK(next) /\ fetch'[f] = next /\ OthersSame(f)
  BY <1>1, <1>2, OkQueued, GoesOn DEF WasQueued, OthersSame
<1>4. Host(f)' = h /\ next.at = "queued" /\ next.last = h /\ next.since = job.since
  BY <1>2, <1>3 DEF WasQueued, SameRequest, Host
<1>5. /\ interval[h] \in Nat /\ quiet[h] \in Nat /\ until[h] \in Nat /\ job.since \in Nat
      /\ quiet'[h] = quiet[h] /\ MinInterval(h) \in Nat /\ MinInterval(h) >= Floor
  <2>1. interval[h] \in AllDelays \cup {0} /\ quiet[h] \in Nat /\ until[h] \in Nat
    BY <1>1 DEF TypeOK
  <2>2. interval[h] \in Nat
    BY <2>1, DelaysAreNumbers
  <2>3. job.since \in Nat
    BY <1>1, JobNumbers
  <2> QED
    BY <2>1, <2>2, <2>3, Sizes, Numbers DEF MinInterval, Request
<1>6. HostsWait /\ (job.last \notin {Nowhere, h} => until'[h] >= Floor)
  <2>1. CASE job.last \in {Nowhere, h}
    BY <2>1, HostsAsTheyWere DEF Request
  <2>2. CASE job.last \notin {Nowhere, h}
    <3>1. HostsWait /\ until'[h] >= MinInterval(h)
      BY <1>1, <1>5, <2>2, DeferredHosts DEF Request
    <3>2. until'[h] \in Nat
      BY <1>1, <3>1 DEF HostsWait
    <3> QED
      BY <1>5, <3>1, <3>2, Numbers
  <2> QED
    BY <2>1, <2>2
<1>7. HeardOK' /\ heard' \in [Hosts -> [RetryAfters -> Nat]] /\ LanesMove(f)
  BY <1>1, <1>6, HeardAsItWas DEF Request, LanesMove
<1>8. HasLane(f)'
  <2>1. lane'[h] = Append(lane[h], f)
    BY <1>1 DEF Request, TypeOK
  <2> QED
    BY <1>1, <1>3, <1>4, <2>1, Joined DEF HasLane
<1>9. Rested(f)'
  <2>1. until'[h] \in Nat
    BY <1>1, <1>6 DEF HostsWait
  <2>2. \/ job.since >= Floor
        \/ job.last = h /\ quiet[h] <= job.since
        \/ job.last \notin {Nowhere, h}
    BY <1>1, <1>5, Numbers DEF Rested
  <2>3. \/ job.since >= Floor
        \/ quiet'[h] <= job.since
        \/ job.since + until'[h] >= Floor
    BY <1>5, <1>6, <2>1, <2>2, Numbers
  <2> QED
    BY <1>1, <1>3, <1>4, <1>5, <2>1, <2>3, Numbers DEF Rested, Waiting
<1>10. /\ FetchesTyped' /\ JobsOK' /\ LanesOK' /\ RestOK' /\ lane' \in [Hosts -> Seq(Fetches)]
  BY <1>2, <1>3, <1>6, <1>7, <1>8, <1>9, StepOfOne
<1>11. ReadsOK'
  <2>1. \A o \in Origins : Reads(f, o) => Reads(f, o)'
    BY <1>2, <1>3, NoJobIsIdle DEF Reads, Active, WasQueued, SameRequest
  <2> QED
    BY <1>1, <1>3, <1>4, <1>10, <2>1, ReadsStay DEF FetchInv, Request
<1>12. TypeOK'
  BY <1>1, <1>6, <1>7, <1>10 DEF TypeOK, FetchesTyped, Request, HostsWait
<1> QED
  BY <1>7, <1>10, <1>11, <1>12 DEF FetchInv

LEMMA RequestRefusedKeeps ==
  ASSUME FetchInv, NEW f \in Fetches, RequestRefused(f)
  PROVE  FetchInv'
<1>1. f \in Active /\ fetch[f].at = "request" /\ fetch[f].page \in Origins
  BY JobOrIdle, JobNumbers DEF RequestRefused, FetchInv
<1>2. HostsWait /\ HeardOK' /\ heard' \in [Hosts -> [RetryAfters -> Nat]] /\ LanesMove(f)
  BY HostsAsTheyWere, HeardAsItWas DEF RequestRefused, LanesMove
<1>3. CASE fetch[f].reading
  BY <1>1, <1>2, <1>3, UnreadRules, EndOfRead DEF RequestRefused
<1>4. CASE ~fetch[f].reading
  BY <1>1, <1>2, <1>4, EndOfOne DEF RequestRefused
<1> QED
  BY <1>3, <1>4

LEMMA RetriedKeeps ==
  ASSUME FetchInv, NEW f \in Fetches, NEW wait \in Nat, Retried(f, wait),
         heard' \in [Hosts -> [RetryAfters -> Nat]], HeardOK'
  PROVE  FetchInv'
<1> DEFINE job == fetch[f]
           h == Host(f)
           next == [job EXCEPT !.at = "queued", !.tries = @ + 1, !.left = @ - 1]
<1>1. /\ TypeOK /\ FetchesTyped /\ f \in Active /\ job \in Jobs /\ JobOK(job)
      /\ h \in Hosts /\ Rested(f) /\ HasLane(f) /\ job.at = "sent" /\ job.left > 0
      /\ job.tries < MaxRetries /\ lane[h] \in Seq(Fetches) /\ h # Nowhere
  BY JobOrIdle, Names
     DEF Retried, Finished, FetchInv, JobsOK, RestOK, LanesOK, TypeOK, FetchesTyped
<1>2. WasRetried(job, next) /\ Goes(f, next)
  <2>1. Goes(f, next)
    BY Zenon DEF Retried
  <2> QED
    BY <1>1, <2>1, JobRetried, Zenon
<1> HIDE DEF next
<1>3. next \in Jobs /\ JobOK(next) /\ fetch'[f] = next /\ OthersSame(f)
  BY <1>1, <1>2, OkQueued, GoesOn DEF WasRetried, OthersSame
<1>4. Host(f)' = h /\ next.at = "queued" /\ next.last = job.last /\ next.since = job.since
  BY <1>2, <1>3 DEF WasRetried, SameRequest, Host
<1>5. HostsWait /\ LanesMove(f)
  BY <1>1, DeferredHosts DEF Retried, Finished, LanesMove
<1>6. HasLane(f)'
  <2>1. lane'[h] = Append(Tail(lane[h]), f)
    BY <1>1 DEF Retried, TypeOK
  <2>2. lane[h] # <<>>
    BY <1>1 DEF HasLane
  <2>3. Tail(lane[h]) \in Seq(Fetches)
    BY <1>1, <2>2, HeadLeft
  <2> QED
    BY <1>3, <1>4, <2>1, <2>3, Joined DEF HasLane
<1>7. Rested(f)'
  <2>1. job.last = h /\ quiet'[h] = 0 /\ job.since \in Nat
    BY <1>1, JobNumbers DEF Rested, Waiting, Retried, Finished
  <2> QED
    BY <1>1, <1>3, <1>4, <2>1, Numbers DEF Rested, Waiting
<1>8. /\ FetchesTyped' /\ JobsOK' /\ LanesOK' /\ RestOK' /\ lane' \in [Hosts -> Seq(Fetches)]
  BY <1>2, <1>3, <1>5, <1>6, <1>7, StepOfOne
<1>9. ReadsOK'
  <2>1. \A o \in Origins : Reads(f, o) => Reads(f, o)'
    BY <1>2, <1>3, NoJobIsIdle DEF Reads, Active, WasRetried, SameRequest
  <2> QED
    BY <1>1, <1>3, <1>4, <1>8, <2>1, ReadsStay DEF FetchInv, Retried
<1>10. TypeOK'
  BY <1>1, <1>5, <1>8 DEF TypeOK, FetchesTyped, Retried, HostsWait
<1> QED
  BY <1>8, <1>9, <1>10 DEF FetchInv

LEMMA GaveUpKeeps ==
  ASSUME FetchInv, NEW f \in Fetches, NEW wait \in Nat, GaveUp(f, wait),
         heard' \in [Hosts -> [RetryAfters -> Nat]], HeardOK'
  PROVE  FetchInv'
<1>1. /\ f \in Active /\ fetch[f].at = "sent" /\ fetch[f].page \in Origins /\ Host(f) \in Hosts
  BY JobOrIdle, JobNumbers DEF GaveUp, Finished, FetchInv
<1>2. HostsWait /\ LanesMove(f)
  BY <1>1, DeferredHosts DEF GaveUp, Finished, LanesMove
<1>3. CASE fetch[f].reading
  BY <1>1, <1>2, <1>3, UnreadRules, EndOfRead DEF GaveUp
<1>4. CASE ~fetch[f].reading
  BY <1>1, <1>2, <1>4, EndOfOne DEF GaveUp
<1> QED
  BY <1>3, <1>4

LEMMA AskedToWaitKeeps ==
  ASSUME FetchInv, NEW f \in Fetches, NEW wait \in RetryAfters, AskedToWait(f, wait)
  PROVE  FetchInv'
<1> DEFINE h == Host(f)
           c == Smaller(BackoffCap, wait)
<1>1. /\ f \in Active /\ h \in Hosts /\ c \in Nat
      /\ heard \in [Hosts -> [RetryAfters -> Nat]] /\ HeardOK
  BY JobOrIdle, WaitsAreNumbers
     DEF AskedToWait, Retried, GaveUp, Finished, FetchInv, TypeOK
<1> HIDE DEF c
<1>2. HostsWait /\ until'[h] >= c
  BY <1>1, DeferredHosts DEF AskedToWait, Retried, GaveUp, Finished, c
<1>3. heard' = [heard EXCEPT ![h][wait] = 0]
  BY DEF AskedToWait
<1>4. heard' \in [Hosts -> [RetryAfters -> Nat]]
  BY <1>1, <1>3
<1>5. HeardOK'
  <2>1. ASSUME NEW k \in Hosts, NEW w \in RetryAfters
        PROVE  heard'[k][w] + until'[k] >= Smaller(BackoffCap, w)
    <3>1. /\ heard[k][w] \in Nat /\ until[k] \in Nat /\ until'[k] \in Nat
          /\ Smaller(BackoffCap, w) \in Nat
          /\ heard[k][w] + until[k] >= Smaller(BackoffCap, w) /\ until'[k] >= until[k]
      BY <1>1, <1>2, WaitsAreNumbers DEF FetchInv, TypeOK, HeardOK, HostsWait
    <3>2. CASE k = h /\ w = wait
      <4>1. heard'[k][w] = 0
        BY <1>1, <1>3, <3>2
      <4> QED
        BY <1>2, <3>1, <3>2, <4>1 DEF c
    <3>3. CASE ~(k = h /\ w = wait)
      <4>1. heard'[k][w] = heard[k][w]
        BY <1>1, <1>3, <3>3
      <4> QED
        BY <3>1, <4>1
    <3> QED
      BY <3>2, <3>3
  <2> QED
    BY <2>1 DEF HeardOK
<1> QED
  BY <1>1, <1>4, <1>5, RetriedKeeps, GaveUpKeeps DEF AskedToWait, c

LEMMA FailedKeeps ==
  ASSUME FetchInv, NEW f \in Fetches, Failed(f)
  PROVE  FetchInv'
<1>1. f \in Active /\ Host(f) \in Hosts /\ Backoff \in Nat
  BY JobOrIdle, Numbers DEF Failed, Retried, GaveUp, Finished, FetchInv
<1>2. HostsWait
  BY <1>1, DeferredHosts DEF Failed, Retried, GaveUp, Finished
<1>3. HeardOK' /\ heard' \in [Hosts -> [RetryAfters -> Nat]]
  BY <1>2, HeardAsItWas DEF Failed
<1> QED
  BY <1>1, <1>3, RetriedKeeps, GaveUpKeeps DEF Failed

LEMMA RulesArriveKeeps ==
  ASSUME FetchInv, NEW f \in Fetches, RulesArrive(f)
  PROVE  FetchInv'
  BY BodyAwaitedKeeps DEF RulesArrive, Finished

LEMMA RulesAnsweredKeeps ==
  ASSUME FetchInv, NEW f \in Fetches, NEW o \in Origins, NEW rules \in RulesOf(o),
         RulesAnswered(f, rules)
  PROVE  FetchInv'
<1>1. /\ f \in Active /\ fetch[f].at = "sent" /\ fetch[f].page \in Origins /\ Host(f) \in Hosts
      /\ fetch[f].reading
  BY JobOrIdle, JobNumbers DEF RulesAnswered, Finished, FetchInv
<1>2. rules \in RuleBook /\ RulesFor(rules, o) /\ rules.of = o
  BY RulesOfTyped DEF RulesFor
<1>3. RulesFor(rules, fetch[f].page)
  BY <1>2 DEF RulesAnswered, NoRules, Read, Unread
<1>4. UNCHANGED <<quiet, until>> /\ LanesMove(f)
  BY <1>1 DEF RulesAnswered, Finished, LanesMove
<1>5. HostsWait
  BY <1>4, HostsAsTheyWere
<1>6. HeardOK' /\ heard' \in [Hosts -> [RetryAfters -> Nat]]
  BY <1>5, HeardAsItWas DEF RulesAnswered
<1> QED
  BY <1>1, <1>2, <1>3, <1>4, <1>5, <1>6, EndOfRead DEF RulesAnswered

LEMMA RulesReadKeeps ==
  ASSUME FetchInv, NEW f \in Fetches, NEW o \in Origins, NEW rules \in RulesOf(o),
         RulesRead(f, rules)
  PROVE  FetchInv'
<1>1. /\ f \in Active /\ fetch[f].at = "body" /\ fetch[f].page \in Origins
      /\ fetch[f].reading
  BY JobOrIdle, JobNumbers DEF RulesRead, FetchInv
<1>2. rules \in RuleBook /\ RulesFor(rules, o) /\ rules.of = o
  BY RulesOfTyped DEF RulesFor
<1>3. RulesFor(rules, fetch[f].page)
  BY <1>2 DEF RulesRead
<1>4. HostsWait /\ LanesMove(f)
  BY HostsAsTheyWere DEF RulesRead, LanesMove
<1>5. HeardOK' /\ heard' \in [Hosts -> [RetryAfters -> Nat]]
  BY <1>4, HeardAsItWas DEF RulesRead
<1> QED
  BY <1>1, <1>2, <1>3, <1>4, <1>5, EndOfRead DEF RulesRead

LEMMA RulesMovedKeeps ==
  ASSUME FetchInv, NEW f \in Fetches, NEW o \in Origins, RulesMoved(f, o)
  PROVE  FetchInv'
<1> DEFINE job == fetch[f]
           next == [job EXCEPT !.at = "request", !.target = o, !.tries = 0,
                               !.robotsHop = @ + 1]
<1>1. /\ TypeOK /\ FetchesTyped /\ f \in Active /\ job \in Jobs /\ JobOK(job)
      /\ job.at = "sent" /\ job.reading /\ job.page \in Origins
  BY JobOrIdle, JobNumbers
     DEF RulesMoved, Finished, FetchInv, JobsOK, TypeOK, FetchesTyped
<1>2. UNCHANGED <<quiet, until>> /\ LanesMove(f)
  BY <1>1 DEF RulesMoved, Finished, LanesMove
<1>3. HostsWait
  BY <1>2, HostsAsTheyWere
<1>4. HeardOK' /\ heard' \in [Hosts -> [RetryAfters -> Nat]]
  BY <1>3, HeardAsItWas DEF RulesMoved
<1>5. CASE job.robotsHop = MaxHops \/ o \in Blocked
  BY <1>1, <1>2, <1>3, <1>4, <1>5, UnreadRules, EndOfRead DEF RulesMoved
<1>6. CASE ~(job.robotsHop = MaxHops \/ o \in Blocked)
  <2>1. RulesAreAt(job, next, o) /\ Goes(f, next)
    <3>1. Goes(f, next)
      BY <1>6, Zenon DEF RulesMoved
    <3> QED
      BY <1>1, <1>6, <3>1, JobRulesMoved, Zenon
  <2> HIDE DEF next
  <2>2. next \in Jobs /\ JobOK(next) /\ SameTrip(job, next) /\ ~Waiting(next)
    BY <1>1, <1>6, <2>1, OkMoved DEF RulesAreAt, Waiting
  <2>3. fetch'[f] = next
    BY <1>1, <2>1, <2>2, GoesOn
  <2>4. HasLane(f)' /\ Rested(f)'
    BY <1>1, <1>3, <2>2, <2>3, RestOfOneAtRest DEF FetchInv
  <2>5. /\ FetchesTyped' /\ OthersSame(f)
        /\ JobsOK' /\ LanesOK' /\ RestOK' /\ lane' \in [Hosts -> Seq(Fetches)]
    BY <1>2, <1>3, <2>1, <2>2, <2>4, StepOfOne
  <2>6. ReadsOK'
    <3>1. \A k \in Origins : Reads(f, k) => Reads(f, k)'
      BY <2>1, <2>3, NoJobIsIdle DEF Reads, Active, RulesAreAt
    <3> QED
      BY <1>1, <1>6, <2>1, <2>3, <2>5, <3>1, ReadsStay DEF FetchInv, RulesMoved, RulesAreAt
  <2>7. TypeOK'
    BY <1>1, <1>3, <1>4, <1>6, <2>5 DEF TypeOK, FetchesTyped, RulesMoved, HostsWait
  <2> QED
    BY <1>4, <2>5, <2>6, <2>7 DEF FetchInv
<1> QED
  BY <1>5, <1>6

LEMMA PageAnsweredKeeps ==
  ASSUME FetchInv, NEW f \in Fetches, PageAnswered(f)
  PROVE  FetchInv'
  BY BodyAwaitedKeeps DEF PageAnswered, Finished

LEMMA PageReadKeeps ==
  ASSUME FetchInv, NEW f \in Fetches, PageRead(f)
  PROVE  FetchInv'
<1>1. HostsWait /\ LanesMove(f)
  BY HostsAsTheyWere DEF PageRead, LanesMove
<1>2. HeardOK' /\ heard' \in [Hosts -> [RetryAfters -> Nat]]
  BY <1>1, HeardAsItWas DEF PageRead
<1> QED
  BY <1>1, <1>2, EndOfOne DEF PageRead

LEMMA PageMovedKeeps ==
  ASSUME FetchInv, NEW f \in Fetches, NEW o \in Origins, PageMoved(f, o)
  PROVE  FetchInv'
<1> DEFINE job == fetch[f]
           next == [job EXCEPT !.at = "consult", !.page = o, !.target = o, !.hop = @ + 1,
                               !.tries = 0, !.rules = Unread(Nowhere)]
<1>1. /\ TypeOK /\ FetchesTyped /\ f \in Active /\ job \in Jobs /\ JobOK(job)
      /\ job.at = "sent" /\ ~job.reading
  BY JobOrIdle
     DEF PageMoved, Finished, FetchInv, JobsOK, TypeOK, FetchesTyped
<1>2. UNCHANGED <<quiet, until>> /\ LanesMove(f)
  BY <1>1 DEF PageMoved, Finished, LanesMove, BodyAwaited
<1>3. HostsWait
  BY <1>2, HostsAsTheyWere
<1>4. HeardOK' /\ heard' \in [Hosts -> [RetryAfters -> Nat]]
  BY <1>3, HeardAsItWas DEF PageMoved
<1>5. CASE BodyAwaited(f)
  BY <1>1, <1>2, <1>5, BodyAwaitedKeeps DEF PageMoved
<1>6. CASE Goes(f, Idle) /\ UNCHANGED <<robots, asked>>
  BY <1>1, <1>2, <1>3, <1>4, <1>6, EndOfOne DEF PageMoved
<1>7. CASE Goes(f, next) /\ job.hop < MaxHops /\ o \notin Blocked /\ UNCHANGED <<robots, asked>>
  <2>1. PageIsAt(job, next, o) /\ Goes(f, next)
    <3>1. job.hop # MaxHops
      BY <1>7, Numbers
    <3> QED
      BY <1>1, <1>7, <3>1, JobPageMoved, Zenon
  <2> HIDE DEF next
  <2>2. next \in Jobs /\ JobOK(next) /\ SameTrip(job, next) /\ ~Waiting(next)
    BY <1>1, <1>7, <2>1, OkMoved DEF PageIsAt, Waiting
  <2>3. fetch'[f] = next
    BY <1>1, <2>1, <2>2, GoesOn
  <2>4. HasLane(f)' /\ Rested(f)'
    BY <1>1, <1>3, <2>2, <2>3, RestOfOneAtRest DEF FetchInv
  <2>5. /\ FetchesTyped' /\ OthersSame(f)
        /\ JobsOK' /\ LanesOK' /\ RestOK' /\ lane' \in [Hosts -> Seq(Fetches)]
    BY <1>2, <1>3, <2>1, <2>2, <2>4, StepOfOne
  <2>6. ReadsOK'
    <3>1. \A k \in Origins : ~Reads(f, k)
      BY <1>1 DEF Reads
    <3> QED
      BY <1>1, <1>7, <2>1, <2>3, <2>5, <3>1, ReadsStay DEF FetchInv, PageIsAt
  <2>7. TypeOK'
    BY <1>1, <1>3, <1>4, <1>7, <2>5 DEF TypeOK, FetchesTyped, PageMoved, HostsWait
  <2> QED
    BY <1>4, <2>5, <2>6, <2>7 DEF FetchInv
<1> QED
  BY <1>5, <1>6, <1>7, Zenon DEF PageMoved

LEMMA ForgetRobotsKeeps ==
  ASSUME FetchInv, ForgetRobots
  PROVE  FetchInv'
<1>1. NoEntry \in Entries /\ NoEntry.reader = Nobody /\ ~NoEntry.kept
  BY UnreadRules DEF NoEntry, Entries
<1>2. \A o \in Origins : robots'[o] = NoEntry
  BY DEF ForgetRobots
<1>3. ReadsOK'
  BY <1>1, <1>2 DEF ForgetRobots, FetchInv, ReadsOK, Reads, Active
<1>4. TypeOK'
  BY <1>1 DEF ForgetRobots, FetchInv, TypeOK, Active
<1>5. JobsOK' /\ LanesOK' /\ RestOK' /\ HeardOK'
  BY DEF ForgetRobots, FetchInv, JobsOK, LanesOK, HasLane, InLane, RestOK, Rested, HeardOK,
         Active, Host, Waiting
<1> QED
  BY <1>3, <1>4, <1>5 DEF FetchInv

(* A unit of time changes no job but by the rest it has had.               *)
HasRested(job, next) ==
  /\ next \in Jobs /\ SameRequest(job, next) /\ next.at = job.at
  /\ next.cost = job.cost /\ next.left = job.left /\ next.last = job.last
  /\ next.since = Smaller(Floor, job.since + 1)

LEMMA JobRested ==
  ASSUME NEW job \in Jobs, NEW next,
         next = [job EXCEPT !.since = Smaller(Floor, job.since + 1)]
  PROVE  HasRested(job, next)
<1>1. Smaller(Floor, job.since + 1) \in 0..Floor
  BY JobNumbers, Numbers DEF Smaller
<1> QED
  BY <1>1 DEF HasRested, Jobs, SameRequest

LEMMA TickedFetches ==
  ASSUME FetchesTyped, Tick, NEW f \in Fetches
  PROVE  /\ fetch[f] = Idle => fetch'[f] = Idle
         /\ fetch[f] \in Jobs => fetch'[f] \in Jobs
         /\ fetch[f] \in Jobs /\ fetch[f].at = "sent" => fetch'[f] = fetch[f]
         /\ fetch[f] \in Jobs /\ fetch[f].at # "sent" => HasRested(fetch[f], fetch'[f])
<1> DEFINE rested == [fetch[f] EXCEPT !.since = Smaller(Floor, fetch[f].since + 1)]
<1>1. fetch'[f] = IF fetch[f] = Idle \/ fetch[f].at = "sent" THEN fetch[f] ELSE rested
  BY DEF Tick
<1>2. fetch[f] \in Jobs => HasRested(fetch[f], rested)
  BY JobRested, Zenon
<1> HIDE DEF rested
<1> QED
  BY <1>1, <1>2, NoJobIsIdle DEF HasRested

LEMMA TickedRobots ==
  ASSUME robots \in [Origins -> Entries], Tick
  PROVE  /\ robots' \in [Origins -> Entries]
         /\ \A o \in Origins :
              \/ /\ robots'[o].reader = robots[o].reader
                 /\ robots'[o].rules = robots[o].rules /\ robots'[o].kept = robots[o].kept
              \/ robots'[o].reader = Nobody /\ ~robots'[o].kept
<1>1. ASSUME NEW entry \in Entries
      PROVE  LET next == [entry EXCEPT !.age = entry.age + 1] IN
             /\ next \in Entries /\ next.reader = entry.reader
             /\ next.rules = entry.rules /\ next.kept = entry.kept
  BY DEF Entries
<1>2. NoEntry \in Entries /\ NoEntry.reader = Nobody /\ ~NoEntry.kept
  BY UnreadRules DEF NoEntry, Entries
<1>3. robots' = [o \in Origins |->
        IF Cached(o) THEN [robots[o] EXCEPT !.age = robots[o].age + 1] ELSE NoEntry]
  BY DEF Tick
<1>4. ASSUME NEW o \in Origins
      PROVE  /\ robots'[o] \in Entries
             /\ \/ /\ robots'[o].reader = robots[o].reader
                   /\ robots'[o].rules = robots[o].rules /\ robots'[o].kept = robots[o].kept
                \/ robots'[o].reader = Nobody /\ ~robots'[o].kept
  <2>1. CASE Cached(o)
    <3>1. robots'[o] = [robots[o] EXCEPT !.age = robots[o].age + 1]
      BY <1>3, <2>1
    <3> QED
      BY <1>1, <3>1
  <2>2. CASE ~Cached(o)
    BY <1>2, <1>3, <2>2
  <2> QED
    BY <2>1, <2>2
<1> QED
  BY <1>3, <1>4

LEMMA TickedHosts ==
  ASSUME TypeOK, Tick, NEW h \in Hosts
  PROVE  /\ quiet'[h] \in Nat /\ until'[h] \in Nat
         /\ quiet'[h] <= quiet[h] + 1 /\ (h \in InUse => quiet'[h] = 0)
         /\ until'[h] >= until[h] - 1
<1>1. quiet[h] \in Nat /\ until[h] \in Nat /\ LongestDelay \in Nat
  BY Numbers DEF TypeOK
<1>2. /\ quiet'[h] = IF h \in InUse THEN 0 ELSE Smaller(LongestDelay, quiet[h] + 1)
      /\ until'[h] = Larger(0, until[h] - 1)
  BY DEF Tick
<1> QED
  BY <1>1, <1>2 DEF Smaller, Larger

LEMMA TickedWaits ==
  ASSUME TypeOK, HeardOK, Tick
  PROVE  heard' \in [Hosts -> [RetryAfters -> Nat]] /\ HeardOK'
<1>1. ASSUME NEW h \in Hosts, NEW w \in RetryAfters
      PROVE  /\ Smaller(Memory, heard[h][w] + 1) \in Nat
             /\ Smaller(Memory, heard[h][w] + 1) + until'[h] >= Smaller(BackoffCap, w)
  <2> DEFINE a == heard[h][w]
             u == until[h]
             c == Smaller(BackoffCap, w)
  <2>1. /\ a \in Nat /\ u \in Nat /\ c \in Nat /\ Memory \in Nat /\ c <= Memory
        /\ a + u >= c
    BY WaitsAreNumbers DEF TypeOK, HeardOK
  <2>2. until'[h] \in Nat /\ until'[h] >= u - 1
    BY TickedHosts
  <2> HIDE DEF a, u, c
  <2>3. Smaller(Memory, a + 1) = Memory \/ Smaller(Memory, a + 1) = a + 1
    BY DEF Smaller
  <2>4. Smaller(Memory, a + 1) \in Nat /\ Smaller(Memory, a + 1) + until'[h] >= c
    BY <2>1, <2>2, <2>3
  <2> QED
    BY <2>4 DEF a, c
<1>2. heard' = [h \in Hosts |-> [w \in RetryAfters |-> Smaller(Memory, heard[h][w] + 1)]]
  BY DEF Tick
<1>3. heard' \in [Hosts -> [RetryAfters -> Nat]]
  BY <1>1, <1>2
<1>4. HeardOK'
  BY <1>1, <1>2 DEF HeardOK
<1> QED
  BY <1>3, <1>4

LEMMA TickKeeps ==
  ASSUME FetchInv, Tick
  PROVE  FetchInv'
<1>1. /\ TypeOK /\ FetchesTyped /\ JobsOK /\ ReadsOK /\ LanesOK /\ RestOK /\ HeardOK
      /\ robots \in [Origins -> Entries]
  BY DEF FetchInv, TypeOK, FetchesTyped
<1>2. ASSUME NEW f \in Fetches, fetch'[f] # Idle
      PROVE  /\ f \in Active /\ fetch[f] \in Jobs /\ fetch'[f] \in Jobs
             /\ SameRequest(fetch[f], fetch'[f]) /\ fetch'[f].at = fetch[f].at
             /\ fetch'[f].cost = fetch[f].cost /\ fetch'[f].left = fetch[f].left
             /\ fetch'[f].last = fetch[f].last
             /\ fetch'[f].since = IF fetch[f].at = "sent" THEN fetch[f].since
                                  ELSE Smaller(Floor, fetch[f].since + 1)
  <2>1. fetch[f] \in Jobs /\ f \in Active
    BY <1>1, <1>2, TickedFetches DEF FetchesTyped, Active
  <2> QED
    BY <1>1, <2>1, TickedFetches DEF HasRested, SameRequest
<1>3. FetchesTyped'
  <2>1. \A f \in Fetches : fetch'[f] \in Jobs \cup {Idle}
    BY <1>1, TickedFetches DEF FetchesTyped
  <2> QED
    BY <2>1 DEF Tick, FetchesTyped
<1>4. JobsOK'
  BY <1>1, <1>2 DEF JobsOK, Active, JobOK, Spent, Placed, UnderRules, Asking, SameRequest
<1>5. ASSUME NEW g \in Fetches, NEW o \in Origins, Reads(g, o)
      PROVE  fetch'[g] # Idle /\ fetch'[g].reading /\ fetch'[g].page = o
  <2>1. g \in Active /\ fetch[g] \in Jobs
    BY <1>1, <1>5, JobOrIdle DEF Reads
  <2>2. fetch'[g] # Idle
    BY <1>1, <2>1, TickedFetches, NoJobIsIdle
  <2> QED
    BY <1>2, <1>5, <2>2 DEF Reads, SameRequest
<1>6. ReadsOK' /\ robots' \in [Origins -> Entries]
  <2>1. robots' \in [Origins -> Entries]
    BY <1>1, TickedRobots
  <2>2. ASSUME NEW o \in Origins
        PROVE  /\ robots'[o].kept => RulesFor(robots'[o].rules, o)
               /\ robots'[o].reader # Nobody => Reads(robots[o].reader, o)'
    <3>1. CASE robots'[o].reader = Nobody /\ ~robots'[o].kept
      BY <3>1
    <3>2. CASE /\ robots'[o].reader = robots[o].reader
               /\ robots'[o].rules = robots[o].rules /\ robots'[o].kept = robots[o].kept
      BY <1>1, <1>5, <3>2 DEF ReadsOK, Reads, Active
    <3> QED
      BY <1>1, <3>1, <3>2, TickedRobots
  <2>3. ASSUME NEW g \in Fetches, fetch'[g] # Idle, fetch'[g].at = "awaiting"
        PROVE  Reads(fetch[g].awaits, fetch[g].page)'
    <3> DEFINE a == fetch[g].awaits
               p == fetch[g].page
    <3>1. fetch'[g].awaits = a /\ fetch'[g].page = p
      BY <1>2, <2>3 DEF SameRequest
    <3>2. Reads(a, p) /\ a \in Fetches /\ p \in Origins
      BY <1>1, <1>2, <2>3, JobNumbers DEF ReadsOK, Reads, Active
    <3> QED
      BY <1>5, <3>1, <3>2 DEF Reads, Active
  <2> QED
    BY <2>1, <2>2, <2>3 DEF ReadsOK, Active
<1>7. LanesOK'
  BY <1>1, <1>2 DEF LanesOK, HasLane, Active, Host, SameRequest, Tick
<1>8. RestOK'
  <2> SUFFICES ASSUME NEW f \in Fetches, fetch'[f] # Idle
               PROVE  Rested(f)'
    BY DEF RestOK, Active
  <2> DEFINE h == Host(f)
  <2>1. /\ f \in Active /\ Rested(f) /\ h \in Hosts /\ Host(f)' = h
        /\ fetch[f].last \in Hosts \cup {Nowhere} /\ fetch[f].since \in Nat
        /\ fetch[f].since <= Floor
    BY <1>1, <1>2, JobOrIdle, JobNumbers DEF RestOK, Host, SameRequest
  <2>2. CASE fetch[f].at = "sent"
    <3>1. h \in InUse
      BY <2>2, <2>1 DEF InUse, Active
    <3> QED
      BY <1>1, <1>2, <2>1, <2>2, <3>1, TickedHosts, Names DEF Rested, Waiting
  <2>3. CASE fetch[f].at # "sent"
    <3> DEFINE s == fetch[f].since
               t == fetch'[f].since
    <3>1. /\ t = Smaller(Floor, s + 1) /\ t \in Nat /\ (t < Floor => t = s + 1 /\ s < Floor)
          /\ (s = Floor => t = Floor)
      BY <1>2, <2>1, <2>3, Numbers DEF Smaller
    <3>2. fetch'[f].last = fetch[f].last /\ fetch'[f].at = fetch[f].at
      BY <1>2
    <3>3. ASSUME NEW k \in Hosts
          PROVE  /\ quiet[k] \in Nat /\ quiet'[k] \in Nat /\ quiet'[k] <= quiet[k] + 1
                 /\ until[k] \in Nat /\ until'[k] \in Nat /\ until'[k] >= until[k] - 1
      BY <1>1, TickedHosts DEF TypeOK
    <3>4. fetch[f].last # Nowhere /\ t < Floor =>
            \/ quiet'[fetch[f].last] <= t
            \/ fetch[f].at = "queued" /\ t + until'[h] >= Floor
      <4> SUFFICES ASSUME fetch[f].last # Nowhere, t < Floor
                   PROVE  \/ quiet'[fetch[f].last] <= t
                          \/ fetch[f].at = "queued" /\ t + until'[h] >= Floor
        OBVIOUS
      <4>1. \/ quiet[fetch[f].last] <= s
            \/ fetch[f].at = "queued" /\ s + until[h] >= Floor
        BY <2>1, <3>1 DEF Rested
      <4>2. t = s + 1 /\ fetch[f].last \in Hosts
        BY <2>1, <3>1
      <4> HIDE DEF s, t, h
      <4>3. s \in Nat
        BY <2>1 DEF s
      <4> QED
        BY <2>1, <3>3, <4>1, <4>2, <4>3, Numbers
    <3> QED
      BY <2>1, <2>3, <3>1, <3>2, <3>4 DEF Rested, Waiting
  <2> QED
    BY <2>2, <2>3
<1>9. HeardOK' /\ heard' \in [Hosts -> [RetryAfters -> Nat]]
  BY <1>1, TickedWaits
<1>10. TypeOK'
  <2>1. quiet' \in [Hosts -> Nat] /\ until' \in [Hosts -> Nat]
    BY <1>1, TickedHosts DEF Tick
  <2> QED
    BY <1>1, <1>3, <1>6, <1>9, <2>1 DEF TypeOK, FetchesTyped, Tick
<1> QED
  BY <1>4, <1>6, <1>7, <1>8, <1>9, <1>10 DEF FetchInv

-----------------------------------------------------------------------------
(* The invariant.                                                          *)

LEMMA InitHolds == Init => FetchInv
<1> SUFFICES ASSUME Init PROVE FetchInv
  OBVIOUS
<1>1. NoEntry \in Entries /\ NoEntry.reader = Nobody /\ ~NoEntry.kept
  BY UnreadRules DEF NoEntry, Entries
<1>2. TypeOK
  <2>1. <<>> \in Seq(Fetches)
    OBVIOUS
  <2>2. Memory \in Nat
    BY FetchAssumption
  <2> QED
    BY <1>1, <2>1, <2>2, Numbers DEF Init, TypeOK
<1>3. Active = {}
  BY DEF Init, Active
<1>4. HeardOK
  <2>1. ASSUME NEW h \in Hosts, NEW w \in RetryAfters
        PROVE  heard[h][w] + until[h] >= Smaller(BackoffCap, w)
    <3>1. heard[h][w] = Memory /\ until[h] = 0
      BY DEF Init
    <3> QED
      BY <3>1, WaitsAreNumbers
  <2> QED
    BY <2>1 DEF HeardOK
<1> QED
  BY <1>1, <1>2, <1>3, <1>4
     DEF Init, FetchInv, JobsOK, ReadsOK, LanesOK, RestOK

LEMMA AnsweredKeeps ==
  ASSUME FetchInv, NEW f \in Fetches, Answered(f)
  PROVE  FetchInv'
  BY AskedToWaitKeeps, FailedKeeps, RulesArriveKeeps, RulesAnsweredKeeps, RulesMovedKeeps,
     PageAnsweredKeeps, PageMovedKeeps
     DEF Answered

LEMMA NextKeeps ==
  ASSUME FetchInv, [Next]_vars
  PROVE  FetchInv'
<1>1. ASSUME NEW f \in Fetches,
             \/ \E o \in Asked[f] : Start(f, o)
             \/ Proceeds(f)
             \/ Sent(f)
             \/ Answered(f)
             \/ BodyEnds(f)
      PROVE  FetchInv'
  BY <1>1, StartKeeps, ConsultKeeps, JudgeKeeps, RequestKeeps, RequestRefusedKeeps, SentKeeps,
     AnsweredKeeps, RulesReadKeeps, PageReadKeeps
     DEF Proceeds, BodyEnds
<1>2. CASE UNCHANGED vars
  BY <1>2
     DEF vars, FetchInv, TypeOK, JobsOK, ReadsOK, Reads, LanesOK, HasLane, RestOK, Rested,
         HeardOK, Active, Host
<1> QED
  BY <1>1, <1>2, ForgetRobotsKeeps, TickKeeps DEF Next

LEMMA InvHolds == Spec => []FetchInv
  BY InitHolds, NextKeeps, PTL DEF Spec

-----------------------------------------------------------------------------
(* How a fetch gets from one place to the next.                            *)

Moves(g) ==
  \/ Sent(g)
  \/ Judge(g) /\ WasAllowed(fetch[g], fetch'[g])
  \/ /\ Consult(g)
     /\ \/ fetch'[g].at = "judge" /\ fetch'[g].rules = robots[fetch[g].page].rules
           /\ Cached(fetch[g].page) /\ robots[fetch[g].page].reader = Nobody
        \/ fetch'[g].at = "awaiting"
        \/ fetch'[g].at = "request" /\ fetch'[g].reading
  \/ /\ fetch'[g].at = "queued" /\ fetch[g].at \in {"request", "sent"}
     /\ SameRequest(fetch[g], fetch'[g])
  \/ fetch'[g].at = "judge" /\ fetch[g].at # "consult"
  \/ fetch'[g].at = "request" /\ fetch'[g].reading
  \/ fetch'[g].at \in {"consult", "body"}
  \/ fetch'[g].at = fetch[g].at /\ SameRequest(fetch[g], fetch'[g])

LEMMA OwnMove ==
  ASSUME FetchInv, NEW g \in Fetches, fetch'[g] # Idle,
         \/ \E o \in Asked[g] : Start(g, o)
         \/ Proceeds(g)
         \/ Sent(g)
         \/ Answered(g)
         \/ BodyEnds(g)
  PROVE  Moves(g)
<1> DEFINE job == fetch[g]
<1>1. FetchesTyped /\ (job.at # "idle" => job \in Jobs /\ Host(g) \in Hosts /\ job.page \in Origins)
  BY JobOrIdle, JobNumbers DEF FetchInv, TypeOK, FetchesTyped
<1>2. ASSUME NEW next \in Jobs \cup {Idle}, Goes(g, next)
      PROVE  fetch'[g] = next
  BY <1>1, <1>2, GoesOn
<1>3. ASSUME NEW rules \in RuleBook, Learned(g, rules), job \in Jobs, job.at # "consult"
      PROVE  Moves(g)
  <2>1. HasRead(job, fetch'[g], rules)
    BY <1>1, <1>3, NoJobIsIdle, LearnedOn DEF Active
  <2> QED
    BY <1>3, <2>1 DEF Moves, HasRead
<1>4. ASSUME Goes(g, Idle) PROVE FALSE
  BY <1>2, <1>4
<1>body. ASSUME BodyAwaited(g), job \in Jobs PROVE Moves(g)
  <2> DEFINE next == [job EXCEPT !.at = "body"]
  <2>1. IsAnswered(job, next) /\ Goes(g, next)
    BY <1>body, JobIsAnswered, Zenon DEF BodyAwaited
  <2> HIDE DEF next
  <2> QED
    BY <1>2, <2>1 DEF IsAnswered, Moves
<1>5. ASSUME NEW o \in Asked[g], Start(g, o) PROVE Moves(g)
  <2>1. Fresh(o) \in Jobs /\ Fresh(o).at = "consult"
    BY FetchAssumption, JobFresh
  <2> QED
    BY <1>2, <1>5, <2>1 DEF Start, Moves
<1>6. ASSUME Consult(g) PROVE Moves(g)
  <2> DEFINE o == job.page
  <2>1. job \in Jobs /\ job.at = "consult" /\ o \in Origins /\ robots[o] \in Entries
    BY <1>1, <1>6 DEF Consult, FetchInv, TypeOK
  <2>2. CASE /\ Cached(o) /\ robots[o].reader = Nobody
             /\ Goes(g, [job EXCEPT !.at = "judge", !.rules = robots[o].rules])
    <3> DEFINE next == [job EXCEPT !.at = "judge", !.rules = robots[o].rules]
    <3>1. robots[o].rules \in RuleBook
      BY <2>1 DEF Entries
    <3>2. HasRules(job, next, robots[o].rules) /\ Goes(g, next)
      BY <2>1, <2>2, <3>1, JobJudging, Zenon
    <3> HIDE DEF next
    <3> QED
      BY <1>2, <1>6, <2>2, <3>2 DEF HasRules, Moves
  <2>3. CASE /\ Cached(o) /\ robots[o].reader # Nobody
             /\ Goes(g, [job EXCEPT !.at = "awaiting", !.awaits = robots[o].reader])
    <3> DEFINE k == robots[o].reader
               next == [job EXCEPT !.at = "awaiting", !.awaits = k]
    <3>1. k \in Fetches
      BY <2>1, <2>3 DEF Entries
    <3>2. HasToWait(job, next, k) /\ Goes(g, next)
      BY <2>1, <2>3, <3>1, JobAwaiting, Zenon
    <3> HIDE DEF next
    <3> QED
      BY <1>2, <1>6, <3>2 DEF HasToWait, Moves
  <2>4. CASE Goes(g, [job EXCEPT !.at = "request", !.reading = TRUE])
    <3> DEFINE next == [job EXCEPT !.at = "request", !.reading = TRUE]
    <3>1. HasToRead(job, next) /\ Goes(g, next)
      BY <2>1, <2>4, JobReading, Zenon
    <3> HIDE DEF next
    <3> QED
      BY <1>2, <1>6, <3>1 DEF HasToRead, Moves
  <2> QED
    BY <1>6, <2>2, <2>3, <2>4 DEF Consult
<1>7. ASSUME Judge(g) PROVE Moves(g)
  <2> DEFINE next == [job EXCEPT !.at = "request"]
  <2>1. job \in Jobs
    BY <1>1, <1>7 DEF Judge
  <2>2. Goes(g, next)
    <3>1. Goes(g, Idle) \/ Goes(g, next)
      BY <1>7, Zenon DEF Judge
    <3> QED
      BY <1>4, <3>1
  <2>3. WasAllowed(job, next)
    BY <2>1, JobAllowed, Zenon
  <2> HIDE DEF next
  <2> QED
    BY <1>2, <1>7, <2>2, <2>3 DEF WasAllowed, Moves
<1>8. ASSUME Request(g) PROVE Moves(g)
  <2> DEFINE next == [job EXCEPT !.at = "queued", !.last = Host(g), !.left = @ - 1]
  <2>1. job \in Jobs /\ job.at = "request" /\ job.left > 0 /\ Host(g) \in Hosts
    BY <1>1, <1>8 DEF Request
  <2>2. Goes(g, next)
    BY <1>8, Zenon DEF Request
  <2>3. WasQueued(job, next, Host(g))
    BY <2>1, JobQueued, Zenon
  <2> HIDE DEF next
  <2> QED
    BY <1>2, <2>1, <2>2, <2>3 DEF WasQueued, Moves
<1>9. ASSUME RequestRefused(g) PROVE Moves(g)
  BY <1>1, <1>3, <1>4, <1>9, UnreadRules DEF RequestRefused
<1>10. ASSUME NEW wait, Retried(g, wait) \/ GaveUp(g, wait) PROVE Moves(g)
  <2>1. CASE Retried(g, wait)
    <3> DEFINE next == [job EXCEPT !.at = "queued", !.tries = @ + 1, !.left = @ - 1]
    <3>1. job \in Jobs /\ job.at = "sent" /\ job.left > 0 /\ job.tries < MaxRetries
      BY <1>1, <2>1 DEF Retried, Finished
    <3>2. Goes(g, next)
      BY <2>1, Zenon DEF Retried
    <3>3. WasRetried(job, next)
      BY <3>1, JobRetried, Zenon
    <3> HIDE DEF next
    <3> QED
      BY <1>2, <3>1, <3>2, <3>3 DEF WasRetried, Moves
  <2>2. CASE GaveUp(g, wait)
    BY <1>1, <1>3, <1>4, <2>2, UnreadRules DEF GaveUp, Finished
  <2> QED
    BY <1>10, <2>1, <2>2
<1>11. ASSUME NEW o \in Origins, NEW rules \in RulesOf(o), RulesAnswered(g, rules)
       PROVE  Moves(g)
  <2>1. rules \in RuleBook
    BY RulesOfTyped
  <2> QED
    BY <1>1, <1>3, <1>11, <2>1 DEF RulesAnswered, Finished
<1>12. ASSUME NEW o \in Origins, RulesMoved(g, o) PROVE Moves(g)
  <2> DEFINE next == [job EXCEPT !.at = "request", !.target = o, !.tries = 0,
                                 !.robotsHop = @ + 1]
  <2>1. job \in Jobs /\ job.at = "sent" /\ job.reading /\ job.page \in Origins
    BY <1>1, <1>12 DEF RulesMoved, Finished
  <2>2. CASE job.robotsHop = MaxHops \/ o \in Blocked
    BY <1>3, <1>12, <2>1, <2>2, UnreadRules DEF RulesMoved
  <2>3. CASE ~(job.robotsHop = MaxHops \/ o \in Blocked)
    <3>1. Goes(g, next)
      BY <1>12, <2>3, Zenon DEF RulesMoved
    <3>2. RulesAreAt(job, next, o)
      BY <2>1, <2>3, JobRulesMoved, Zenon
    <3> HIDE DEF next
    <3> QED
      BY <1>2, <2>1, <3>1, <3>2 DEF RulesAreAt, Moves
  <2> QED
    BY <2>2, <2>3
<1>13. ASSUME NEW o \in Origins, PageMoved(g, o) PROVE Moves(g)
  <2> DEFINE next == [job EXCEPT !.at = "consult", !.page = o, !.target = o, !.hop = @ + 1,
                                 !.tries = 0, !.rules = Unread(Nowhere)]
  <2>1. job \in Jobs
    BY <1>1, <1>13 DEF PageMoved, Finished
  <2>2. CASE BodyAwaited(g)
    BY <1>body, <2>1, <2>2
  <2>3. CASE job.hop < MaxHops /\ Goes(g, next)
    <3>1. PageIsAt(job, next, o)
      <4>1. job.hop # MaxHops
        BY <2>3, Numbers
      <4> QED
        BY <2>1, <4>1, JobPageMoved, Zenon
    <3> HIDE DEF next
    <3> QED
      BY <1>2, <2>3, <3>1 DEF PageIsAt, Moves
  <2> QED
    BY <1>4, <1>13, <2>2, <2>3, Zenon DEF PageMoved
<1>14. ASSUME PageAnswered(g) \/ RulesArrive(g) PROVE Moves(g)
  BY <1>1, <1>14, <1>body DEF PageAnswered, RulesArrive, Finished
<1>15. ASSUME Answered(g) PROVE Moves(g)
  BY <1>10, <1>11, <1>12, <1>13, <1>14, <1>15 DEF Answered, AskedToWait, Failed
<1>17. ASSUME NEW o \in Origins, NEW rules \in RulesOf(o), RulesRead(g, rules)
       PROVE  Moves(g)
  <2>1. rules \in RuleBook
    BY RulesOfTyped
  <2> QED
    BY <1>1, <1>3, <1>17, <2>1 DEF RulesRead
<1>18. ASSUME BodyEnds(g) PROVE Moves(g)
  BY <1>4, <1>17, <1>18 DEF BodyEnds, PageRead
<1> QED
  BY <1>5, <1>6, <1>7, <1>8, <1>9, <1>15, <1>18 DEF Proceeds, Moves

LEMMA OthersMove ==
  ASSUME FetchInv, NEW f \in Fetches, NEW g \in Fetches \ {f}, fetch'[g] # Idle,
         \/ \E o \in Asked[f] : Start(f, o)
         \/ Proceeds(f)
         \/ Sent(f)
         \/ Answered(f)
         \/ BodyEnds(f)
  PROVE  Moves(g)
<1>1. /\ FetchesTyped
      /\ fetch[f].at # "idle" => f \in Active /\ fetch[f].page \in Origins
  BY JobOrIdle, JobNumbers DEF FetchInv, TypeOK, FetchesTyped
<1>2. ASSUME NEW next, Goes(f, next)
      PROVE  Moves(g)
  BY <1>1, <1>2 DEF Goes, FetchesTyped, Moves, SameRequest
<1>3. ASSUME NEW rules \in RuleBook, Learned(f, rules), fetch[f].at # "idle"
      PROVE  Moves(g)
  BY <1>1, <1>3, LearnedOn DEF Undisturbed, Moves, SameRequest
<1>4. ASSUME \E o \in Asked[f] : Start(f, o) PROVE Moves(g)
  BY <1>2, <1>4, Zenon DEF Start
<1>5. ASSUME Consult(f) \/ Judge(f) \/ Request(f) \/ Sent(f) PROVE Moves(g)
  BY <1>2, <1>5, Zenon DEF Consult, Judge, Request, Sent
<1>6. Unread(fetch[f].page) \in RuleBook \/ fetch[f].at = "idle"
  BY <1>1, UnreadRules
<1>7. ASSUME RequestRefused(f) PROVE Moves(g)
  <2>1. fetch[f].at # "idle" /\ (Goes(f, Idle) \/ Learned(f, Unread(fetch[f].page)))
    BY <1>7 DEF RequestRefused
  <2> QED
    BY <1>2, <1>3, <1>6, <2>1
<1>8. ASSUME NEW wait, Retried(f, wait) \/ GaveUp(f, wait) PROVE Moves(g)
  <2>1. CASE Retried(f, wait)
    BY <1>2, <2>1, Zenon DEF Retried
  <2>2. CASE GaveUp(f, wait)
    <3>1. fetch[f].at # "idle" /\ (Goes(f, Idle) \/ Learned(f, Unread(fetch[f].page)))
      BY <2>2 DEF GaveUp, Finished
    <3> QED
      BY <1>2, <1>3, <1>6, <3>1
  <2> QED
    BY <1>8, <2>1, <2>2
<1>9. ASSUME NEW o \in Origins, NEW rules \in RulesOf(o), RulesAnswered(f, rules)
      PROVE  Moves(g)
  BY <1>3, <1>9, RulesOfTyped DEF RulesAnswered, Finished
<1>10. ASSUME NEW o \in Origins, RulesMoved(f, o) PROVE Moves(g)
  <2>1. fetch[f].at # "idle"
    BY <1>10 DEF RulesMoved, Finished
  <2>2. CASE fetch[f].robotsHop = MaxHops \/ o \in Blocked
    BY <1>3, <1>6, <1>10, <2>1, <2>2 DEF RulesMoved
  <2>3. CASE ~(fetch[f].robotsHop = MaxHops \/ o \in Blocked)
    BY <1>2, <1>10, <2>3, Zenon DEF RulesMoved
  <2> QED
    BY <2>2, <2>3
<1>11. ASSUME NEW o \in Origins, PageMoved(f, o) PROVE Moves(g)
  BY <1>2, <1>11, Zenon DEF PageMoved, BodyAwaited
<1>12. ASSUME PageAnswered(f) \/ RulesArrive(f) \/ PageRead(f) PROVE Moves(g)
  BY <1>2, <1>12, Zenon DEF PageAnswered, RulesArrive, BodyAwaited, PageRead
<1>13. ASSUME Answered(f) PROVE Moves(g)
  BY <1>8, <1>9, <1>10, <1>11, <1>12, <1>13 DEF Answered, AskedToWait, Failed
<1>14. ASSUME NEW o \in Origins, NEW rules \in RulesOf(o), RulesRead(f, rules)
       PROVE  Moves(g)
  BY <1>3, <1>14, RulesOfTyped DEF RulesRead
<1> QED
  BY <1>4, <1>5, <1>7, <1>12, <1>13, <1>14 DEF Proceeds, BodyEnds

LEMMA EveryMove ==
  ASSUME FetchInv, [Next]_vars, NEW g \in Fetches, fetch'[g] # Idle
  PROVE  Moves(g)
<1>1. ASSUME NEW f \in Fetches,
             \/ \E o \in Asked[f] : Start(f, o)
             \/ Proceeds(f)
             \/ Sent(f)
             \/ Answered(f)
             \/ BodyEnds(f)
      PROVE  Moves(g)
  BY <1>1, OwnMove, OthersMove
<1>2. CASE ForgetRobots \/ UNCHANGED vars
  BY <1>2 DEF ForgetRobots, vars, Moves, SameRequest
<1>3. CASE Tick
  BY <1>3, TickedFetches DEF FetchInv, TypeOK, FetchesTyped, HasRested, Moves, SameRequest
<1> QED
  BY <1>1, <1>2, <1>3 DEF Next

(* Only HostQueue lets a request leave.                                    *)
LEMMA LeavesIsSent ==
  ASSUME FetchInv, [Next]_vars, NEW f \in Fetches, Leaves(f)
  PROVE  Sent(f)
  BY EveryMove DEF Leaves, Moves, WasAllowed

-----------------------------------------------------------------------------
(* Every fetch, cached verdict, lane and clock keeps its type.             *)
THEOREM FetchTypeCorrect == Spec => []TypeOK
<1>1. FetchInv => TypeOK
  BY DEF FetchInv
<1> QED
  BY <1>1, InvHolds, PTL

(* One fetch costs at most one purse of requests (maxRequestsPerFetch),    *)
(* however its redirects, its retries and the robots.txt on its way fall.  *)
THEOREM FetchCostsOnePurse == Spec => []OnePurse
<1>1. FetchInv => OnePurse
  <2> SUFFICES ASSUME FetchInv, NEW f \in Active
               PROVE  fetch[f].cost <= Purse
    BY DEF OnePurse
  <2>1. fetch[f] \in Jobs /\ JobOK(fetch[f])
    BY JobOrIdle DEF FetchInv, JobsOK, Active
  <2> QED
    BY <2>1, JobNumbers, Numbers DEF JobOK, Spent
<1> QED
  BY <1>1, InvHolds, PTL

(* A page is asked for only under rules read at its own origin that allow  *)
(* it, no blocked host is asked anything, and a failed read of robots.txt  *)
(* refuses a page for UnreadTtl at most.                                   *)
THEOREM RulesAlwaysGovern == Spec => RulesGovern
<1> DEFINE Governed == \A f \in Fetches :
             /\ Leaves(f) => RulesAllow(f)
             /\ Believes(f) /\ ~fetch'[f].rules.wasRead
                  => robots[fetch[f].page].age < UnreadTtl
<1>1. ASSUME FetchInv, [Next]_vars, NEW f \in Fetches, Leaves(f)
      PROVE  RulesAllow(f)
  <2>1. fetch[f] \in Jobs /\ JobOK(fetch[f]) /\ fetch[f].at = "queued"
    BY <1>1, JobOrIdle DEF Leaves, FetchInv, JobsOK, Active
  <2>2. fetch[f].target \notin Blocked
    BY <2>1 DEF JobOK, Placed
  <2>3. ASSUME ~fetch[f].reading
        PROVE  /\ fetch[f].rules \in RuleBook /\ fetch[f].rules.of = fetch[f].target
               /\ fetch[f].rules.allowed = TRUE /\ fetch[f].rules.wasRead = TRUE
    <3>1. fetch[f].rules \in RuleBook
      BY <2>1, JobNumbers
    <3> QED
      BY <2>1, <2>3, <3>1 DEF JobOK, Placed, UnderRules, Asking, RulesFor, RuleBook
  <2>4. ASSUME NEW rules \in RuleBook, NEW o,
               rules.of = o, rules.allowed = TRUE, rules.wasRead = TRUE
        PROVE  rules = [rules EXCEPT !.of = o, !.allowed = TRUE, !.wasRead = TRUE]
    BY <2>4 DEF RuleBook
  <2>5. ~fetch[f].reading => fetch[f].rules = [fetch[f].rules EXCEPT
          !.of = fetch[f].target, !.allowed = TRUE, !.wasRead = TRUE]
    BY <2>3, <2>4, Zenon
  <2> QED
    BY <2>2, <2>5 DEF RulesAllow
<1>2. ASSUME FetchInv, [Next]_vars, NEW f \in Fetches, Believes(f), ~fetch'[f].rules.wasRead
      PROVE  robots[fetch[f].page].age < UnreadTtl
  <2>1. fetch'[f] # Idle
    BY <1>2 DEF Idle, Believes
  <2>2. /\ fetch'[f].rules = robots[fetch[f].page].rules
        /\ Cached(fetch[f].page) /\ robots[fetch[f].page].reader = Nobody
    BY <1>2, <2>1, EveryMove DEF Moves, WasAllowed, Sent, MayLeave, Believes
  <2> QED
    BY <1>2, <2>2 DEF Cached
<1>3. FetchInv /\ [Next]_vars => Governed
  BY <1>1, <1>2
<1> QED
  BY <1>3, InvHolds, PTL DEF Spec, RulesGovern

(* A request leaves for a host only when every request sent there has its  *)
(* headers, the floor has passed since the last one had, and so has every  *)
(* wait the host asked for, or MAX_BACKOFF_MS of it; and the fetch's own   *)
(* last request, on whichever host a redirect put it, had its headers at   *)
(* least the floor ago (HostQueue.run, gatedRequest).  Bodies that are     *)
(* still arriving hold nobody up.                                          *)
THEOREM FloorIsKept ==
  Spec => [][\A f \in Fetches : Leaves(f) => KeepsFloor(f) /\ KeepsRetryAfter(f)]_vars
<1>1. ASSUME FetchInv, [Next]_vars, NEW f \in Fetches, Leaves(f)
      PROVE  KeepsFloor(f) /\ KeepsRetryAfter(f)
  <2> DEFINE h == Host(f)
  <2>1. /\ Sent(f) /\ f \in Active /\ h \in Hosts /\ fetch[f].at = "queued"
        /\ HasLane(f) /\ Rested(f)
    BY <1>1, LeavesIsSent, JobOrIdle
       DEF Leaves, FetchInv, LanesOK, RestOK
  <2>2. quiet[h] \in Nat /\ until[h] \in Nat /\ fetch[f].since \in Nat
    BY <1>1, <2>1, JobOrIdle, JobNumbers DEF FetchInv, TypeOK
  <2>3. quiet[h] >= Floor
    <3>1. interval[h] \in Nat
      <4>1. interval[h] \in AllDelays \cup {0}
        BY <1>1, <2>1 DEF FetchInv, TypeOK
      <4> QED
        BY <4>1, DelaysAreNumbers
    <3>2. quiet[h] >= Larger(Floor, interval[h])
      BY <2>1 DEF Sent, MayLeave, MinInterval
    <3> QED
      BY <2>2, <3>1, <3>2, Numbers DEF Larger
  <2>4. until[h] = 0
    BY <2>1 DEF Sent, MayLeave
  <2>5. KeepsRetryAfter(f)
    <3>1. \A w \in RetryAfters :
            /\ heard[h][w] \in Nat /\ Smaller(BackoffCap, w) \in Nat
            /\ heard[h][w] + until[h] >= Smaller(BackoffCap, w)
      BY <1>1, <2>1, WaitsAreNumbers DEF FetchInv, TypeOK, HeardOK
    <3> QED
      BY <2>4, <3>1 DEF KeepsRetryAfter
  <2>6. ASSUME NEW g \in Active, fetch[g].at = "sent" PROVE Host(g) # h
    <3>1. HasLane(g)
      BY <1>1, <2>6 DEF FetchInv, LanesOK
    <3>2. Head(lane[h]) = f
      BY <2>1 DEF Sent, MayLeave
    <3>3. g # f
      BY <2>1, <2>6
    <3> QED
      BY <2>6, <3>1, <3>2, <3>3 DEF HasLane
  <2>7. fetch[f].since >= Floor
    <3>1. fetch[f].last = h /\ h # Nowhere
      BY <2>1, Names DEF Rested, Waiting
    <3> QED
      BY <2>1, <2>2, <2>3, <2>4, <3>1, Numbers DEF Rested
  <2> QED
    BY <2>3, <2>5, <2>6, <2>7 DEF KeepsFloor
<1>2. FetchInv /\ [Next]_vars =>
        (\A f \in Fetches : Leaves(f) => KeepsFloor(f) /\ KeepsRetryAfter(f))
  BY <1>1
<1> QED
  BY <1>2, InvHolds, PTL DEF Spec

-----------------------------------------------------------------------------
(* The Crawl-delay.  HostQueue keeps the interval that was put in force    *)
(* last, so what a host's origins ask for must be one delay.               *)
SteadyPace ==
  \A a, b \in Origins : HostOf[a] = HostOf[b] =>
    \A d \in Delays[a], e \in Delays[b] : d = e

InForce(f) ==
  Asking(fetch[f]) /\ ~fetch[f].reading => interval[Host(f)] >= fetch[f].rules.delay

(* A host's interval is what its origins ask for, and in force for every   *)
(* page on its way.                                                        *)
PaceOK ==
  /\ \A h \in Hosts :
       interval[h] = 0 \/ \E o \in Origins : HostOf[o] = h /\ interval[h] \in Delays[o]
  /\ \A f \in Active : InForce(f)

(* Whoever asks for a page either has just been allowed to or was already. *)
LEMMA StillAsking ==
  ASSUME FetchInv, [Next]_vars, NEW g \in Fetches, fetch'[g] # Idle,
         Asking(fetch'[g]), ~fetch'[g].reading
  PROVE  /\ g \in Active /\ fetch[g] \in Jobs /\ SameRequest(fetch[g], fetch'[g])
         /\ Asking(fetch[g]) \/ Judge(g)
<1>1. fetch[g].at # "idle" => g \in Active /\ fetch[g] \in Jobs
  BY JobOrIdle DEF FetchInv
<1>2. CASE Sent(g)
  <2> DEFINE next == [fetch[g] EXCEPT !.at = "sent", !.cost = @ + 1, !.since = 0]
  <2>1. fetch[g].at = "queued" /\ Goes(g, next)
    BY <1>2, Zenon DEF Sent, MayLeave
  <2>2. WasSent(fetch[g], next)
    BY <1>1, <2>1, JobSent, Zenon
  <2> HIDE DEF next
  <2>3. fetch'[g] = next
    BY <2>1, <2>2, GoesOn DEF FetchInv, TypeOK, FetchesTyped, WasSent
  <2> QED
    BY <1>1, <2>1, <2>2, <2>3 DEF WasSent, Asking
<1> QED
  BY <1>1, <1>2, EveryMove DEF Moves, Asking, WasAllowed, Judge

LEMMA PaceStays ==
  ASSUME SteadyPace, FetchInv, PaceOK, [Next]_vars
  PROVE  PaceOK'
<1>1. \A h \in Hosts : interval[h] \in Nat
  <2>1. \A h \in Hosts : interval[h] \in AllDelays \cup {0}
    BY DEF FetchInv, TypeOK
  <2> QED
    BY <2>1, DelaysAreNumbers
<1>2. ASSUME NEW g \in Active, Asking(fetch[g]), ~fetch[g].reading
      PROVE  /\ fetch[g].target \in Origins /\ Host(g) = HostOf[fetch[g].target]
             /\ fetch[g].rules.delay \in Delays[fetch[g].target] \cup {0}
             /\ interval[Host(g)] >= fetch[g].rules.delay
  <2>1. JobOK(fetch[g]) /\ fetch[g] \in Jobs /\ InForce(g)
    BY JobOrIdle DEF FetchInv, JobsOK, PaceOK, Active
  <2> QED
    BY <1>2, <2>1, JobNumbers DEF JobOK, Placed, UnderRules, RulesFor, InForce, Host
<1>3. CASE UNCHANGED interval
  <2>1. ASSUME NEW g \in Fetches, fetch'[g] # Idle, Asking(fetch'[g]), ~fetch'[g].reading
        PROVE  interval'[HostOf[fetch'[g].target]] >= fetch'[g].rules.delay
    <3>1. /\ g \in Active /\ fetch[g] \in Jobs /\ SameRequest(fetch[g], fetch'[g])
          /\ Asking(fetch[g]) \/ Judge(g)
      BY <2>1, StillAsking
    <3>2. CASE Asking(fetch[g])
      BY <1>2, <1>3, <2>1, <3>1, <3>2 DEF SameRequest
    <3>3. CASE Judge(g)
      <4> DEFINE job == fetch[g]
                 h == HostOf[job.page]
      <4>1. /\ job.page \in Origins /\ job.at = "judge" /\ JobOK(job) /\ h \in Hosts
        BY <3>1, <3>3, JobNumbers, Names DEF FetchInv, JobsOK, Judge
      <4>2. job.target = job.page /\ job.rules.delay \in Delays[job.page] \cup {0}
        BY <4>1 DEF JobOK, Placed, Asking, UnderRules, RulesFor
      <4>3. job.rules.delay = 0 \/ interval[h] = job.rules.delay
        <5>1. job.rules.delay = 0 \/ interval' = [interval EXCEPT ![h] = job.rules.delay]
              \/ fetch' = [fetch EXCEPT ![g] = Idle]
          BY <3>3 DEF Judge, Goes
        <5>2. interval'[h] = interval[h]
          BY <1>3
        <5> QED
          BY <2>1, <4>1, <5>1, <5>2 DEF FetchInv, TypeOK
      <4>4. fetch'[g].target = job.page /\ fetch'[g].rules = job.rules
        BY <3>1, <4>2 DEF SameRequest
      <4> QED
        BY <1>1, <1>3, <4>1, <4>3, <4>4
    <3> QED
      BY <3>1, <3>2, <3>3
  <2> QED
    BY <1>3, <2>1 DEF PaceOK, InForce, Active, Host
<1>4. CASE ~UNCHANGED interval
  <2>1. PICK f \in Fetches : Judge(f)
    <3>1. PICK f \in Fetches :
            \/ \E o \in Asked[f] : Start(f, o)
            \/ Proceeds(f)
            \/ Sent(f)
            \/ Answered(f)
            \/ BodyEnds(f)
      BY <1>4 DEF Next, ForgetRobots, Tick, vars
    <3>2. ASSUME NEW o \in Asked[f], Start(f, o) PROVE UNCHANGED interval
      BY <3>2 DEF Start
    <3>3. Sent(f) => UNCHANGED interval
      BY DEF Sent
    <3>4. Answered(f) \/ BodyEnds(f) => UNCHANGED interval
      BY DEF Answered, AskedToWait, Failed, Retried, GaveUp, RulesArrive, RulesAnswered,
             RulesMoved, PageAnswered, PageMoved, BodyEnds, RulesRead, PageRead
    <3>5. Proceeds(f) => UNCHANGED interval \/ Judge(f)
      BY DEF Proceeds, Consult, Request, RequestRefused
    <3> QED
      BY <1>4, <3>1, <3>2, <3>3, <3>4, <3>5
  <2> DEFINE job == fetch[f]
             d == job.rules.delay
             k == HostOf[job.page]
  <2>2. interval' = [interval EXCEPT ![k] = d] /\ d # 0
    BY <1>4, <2>1 DEF Judge
  <2>3. f \in Active /\ job \in Jobs /\ JobOK(job) /\ job.at = "judge"
    BY <2>1, JobOrIdle DEF FetchInv, JobsOK, Judge
  <2>4. job.page \in Origins /\ k \in Hosts /\ d \in Delays[job.page] /\ d \in Nat
    <3>1. job.page \in Origins /\ k \in Hosts /\ d \in Delays[job.page]
      BY <2>2, <2>3, JobNumbers, Names DEF JobOK, UnderRules, RulesFor
    <3> QED
      BY <3>1, Names, DelaysAreNumbers
  <2>5. interval'[k] = d /\ \A h \in Hosts \ {k} : interval'[h] = interval[h]
    BY <2>2, <2>4 DEF FetchInv, TypeOK
  <2>6. ASSUME NEW h \in Hosts
        PROVE  interval'[h] = 0
               \/ \E o \in Origins : HostOf[o] = h /\ interval'[h] \in Delays[o]
    BY <2>4, <2>5 DEF PaceOK
  <2>7. ASSUME NEW g \in Fetches, fetch'[g] # Idle, Asking(fetch'[g]), ~fetch'[g].reading
        PROVE  interval'[HostOf[fetch'[g].target]] >= fetch'[g].rules.delay
    <3>1. /\ g \in Active /\ fetch[g] \in Jobs /\ SameRequest(fetch[g], fetch'[g])
          /\ Asking(fetch[g]) \/ Judge(g)
      BY <2>7, StillAsking
    <3>2. CASE Asking(fetch[g])
      <4> DEFINE o == fetch[g].target
                 e == fetch[g].rules.delay
      <4>1. /\ o \in Origins /\ Host(g) = HostOf[o] /\ e \in Delays[o] \cup {0}
            /\ interval[HostOf[o]] >= e /\ HostOf[o] \in Hosts
        BY <1>2, <2>7, <3>1, <3>2, Names DEF SameRequest
      <4>2. fetch'[g].target = o /\ fetch'[g].rules = fetch[g].rules
        BY <3>1 DEF SameRequest
      <4>3. HostOf[o] = k => e = d \/ e = 0
        BY <2>4, <4>1 DEF SteadyPace
      <4> QED
        BY <2>4, <2>5, <4>1, <4>2, <4>3
    <3>3. CASE Judge(g)
      <4>1. g = f
        BY <2>1, <2>7, <3>1, <3>3 DEF Judge, Asking, Goes, FetchInv, TypeOK
      <4>2. job.target = job.page
        BY <2>3 DEF JobOK, Placed, Asking
      <4> QED
        BY <2>4, <2>5, <3>1, <4>1, <4>2 DEF SameRequest
    <3> QED
      BY <3>1, <3>2, <3>3
  <2> QED
    BY <2>6, <2>7 DEF PaceOK, InForce, Active, Host
<1> QED
  BY <1>3, <1>4

(* Where the origins of one host ask for one Crawl-delay, the whole of     *)
(* Polite holds: a page also leaves no sooner than the Crawl-delay it was  *)
(* judged by, or the lesser one its origin asks for since.                 *)
THEOREM PoliteAtSteadyPace ==
  ASSUME SteadyPace
  PROVE  Spec => Polite
<1>1. Init => PaceOK
  BY DEF Init, PaceOK, Active
<1>2. FetchInv /\ PaceOK /\ [Next]_vars => PaceOK'
  BY PaceStays
<1>3. ASSUME FetchInv, PaceOK, [Next]_vars, NEW f \in Fetches, Leaves(f)
      PROVE  KeepsCrawlDelay(f)
  <2> SUFFICES ASSUME ~fetch[f].reading
               PROVE  quiet[Host(f)] >= Smaller(fetch[f].rules.delay, asked[fetch[f].page])
    BY DEF KeepsCrawlDelay
  <2> DEFINE h == Host(f)
             d == fetch[f].rules.delay
             a == asked[fetch[f].page]
  <2>1. /\ Sent(f) /\ f \in Active /\ h \in Hosts /\ fetch[f].at = "queued"
        /\ fetch[f] \in Jobs /\ InForce(f)
    BY <1>3, LeavesIsSent, JobOrIdle DEF Leaves, FetchInv, PaceOK
  <2>2. interval[h] \in AllDelays \cup {0} /\ quiet[h] \in Nat
        /\ d \in AllDelays \cup {0} /\ a \in AllDelays \cup {0}
    BY <1>3, <2>1, JobNumbers DEF FetchInv, TypeOK, RuleBook
  <2>3. interval[h] \in Nat /\ d \in Nat /\ a \in Nat
    BY <2>2, DelaysAreNumbers
  <2>4. quiet[h] >= Larger(Floor, interval[h]) /\ interval[h] >= d
    BY <2>1 DEF Sent, MayLeave, MinInterval, InForce, Asking
  <2> HIDE DEF h, d, a
  <2>5. quiet[h] >= Smaller(d, a)
    BY <2>2, <2>3, <2>4, Numbers DEF Larger, Smaller
  <2> QED
    BY <2>5 DEF h, d, a
<1>4. FetchInv /\ PaceOK /\ [Next]_vars => (\A f \in Fetches : Leaves(f) => KeepsCrawlDelay(f))
  BY <1>3
<1>5. Spec => []PaceOK
  BY <1>1, <1>2, InvHolds, PTL DEF Spec
<1>6. Spec => [][\A f \in Fetches : Leaves(f) => KeepsCrawlDelay(f)]_vars
  BY <1>4, <1>5, InvHolds, PTL DEF Spec
<1>7. /\ (\A f \in Fetches : Leaves(f) => KeepsFloor(f) /\ KeepsRetryAfter(f))
      /\ (\A f \in Fetches : Leaves(f) => KeepsCrawlDelay(f))
      => (\A f \in Fetches : Leaves(f) => PacedFor(f))
  BY DEF PacedFor
<1> QED
  BY <1>6, <1>7, FloorIsKept, PTL DEF Polite

-----------------------------------------------------------------------------
(* Nobody waits in a circle, and every step of a fetch brings its end       *)
(* nearer: what a step of f does to its job, its lane and the others.       *)

Effort(job) == IF job = Idle THEN 0 ELSE 6 * job.left + Stage(job)

LEMMA EffortOfJob ==
  ASSUME NEW job \in Jobs
  PROVE  /\ Effort(job) = 6 * job.left + Stage(job) /\ Effort(job) \in Nat /\ Effort(job) > 0
         /\ job.at = "queued" => Stage(job) = 6
         /\ job.at = "sent" => Stage(job) = 5
         /\ job.at = "body" => Stage(job) = 3
         /\ job.at = "consult" => Stage(job) = 4
         /\ job.at = "awaiting" => Stage(job) = 3
         /\ job.at = "judge" => Stage(job) = 2
         /\ job.at = "request" => Stage(job) = IF job.reading THEN 3 ELSE 1
<1>1. job # Idle /\ job.left \in Nat /\ job.at \in Places
  BY NoJobIsIdle, JobNumbers DEF Jobs
<1>2. /\ job.at = "queued" => Stage(job) = 6
      /\ job.at = "sent" => Stage(job) = 5
      /\ job.at = "body" => Stage(job) = 3
      /\ job.at = "consult" => Stage(job) = 4
      /\ job.at = "awaiting" => Stage(job) = 3
      /\ job.at = "judge" => Stage(job) = 2
      /\ job.at = "request" => Stage(job) = IF job.reading THEN 3 ELSE 1
  BY DEF Stage
<1>3. Stage(job) \in {1, 2, 3, 4, 5, 6}
  BY <1>1, <1>2 DEF Places
<1> QED
  BY <1>1, <1>2, <1>3 DEF Effort

Resting(job) ==
  \/ job = Idle
  \/ job \in Jobs /\ ~Waiting(job)

(* f stays out of every lane, leaves with its request, joins a lane, is     *)
(* answered and goes, or is answered and joins again.                       *)
LaneTurn(f) ==
  LET h == Host(f) IN
  \/ lane' = lane /\ Resting(fetch[f]) /\ Resting(fetch'[f])
  \/ /\ lane' = lane /\ f \in Active /\ Waiting(fetch[f]) /\ fetch'[f] \in Jobs
     /\ Waiting(fetch'[f]) /\ fetch'[f].target = fetch[f].target
  \/ /\ f \in Active /\ ~Waiting(fetch[f]) /\ lane' = [lane EXCEPT ![h] = Append(lane[h], f)]
     /\ fetch'[f] \in Jobs /\ Waiting(fetch'[f]) /\ fetch'[f].target = fetch[f].target
  \/ /\ f \in Active /\ fetch[f].at = "sent" /\ lane' = LaneLeft(f) /\ Resting(fetch'[f])
  \/ /\ f \in Active /\ fetch[f].at = "sent"
     /\ lane' = [lane EXCEPT ![h] = Append(Tail(lane[h]), f)]
     /\ fetch'[f] \in Jobs /\ Waiting(fetch'[f]) /\ fetch'[f].target = fetch[f].target

Turn(f) ==
  /\ LaneTurn(f)
  /\ OthersUndisturbed(f)
  /\ f \in Active => Effort(fetch'[f]) < Effort(fetch[f])

(* A read that ends sends its fetch to judge.                               *)
LEMMA LearnedTurn ==
  ASSUME FetchInv, NEW f \in Active, fetch[f].at \in {"request", "sent", "body"}, fetch[f].reading,
         NEW rules \in RuleBook, Learned(f, rules)
  PROVE  OthersUndisturbed(f) /\ Resting(fetch'[f]) /\ Effort(fetch'[f]) < Effort(fetch[f])
<1>1. FetchesTyped /\ fetch[f] \in Jobs
  BY JobOrIdle DEF FetchInv, TypeOK, FetchesTyped, Active
<1>2. HasRead(fetch[f], fetch'[f], rules) /\ OthersUndisturbed(f)
  BY <1>1, LearnedOn DEF OthersUndisturbed
<1>3. fetch'[f] \in Jobs /\ fetch'[f].left = fetch[f].left /\ fetch'[f].at = "judge"
  BY <1>2 DEF HasRead, SameTrip
<1>4. Effort(fetch'[f]) < Effort(fetch[f])
  <2>1. Effort(fetch'[f]) = 6 * fetch[f].left + 2
    BY <1>3, EffortOfJob
  <2>2. Effort(fetch[f]) = 6 * fetch[f].left + 3 \/ Effort(fetch[f]) = 6 * fetch[f].left + 5
    BY <1>1, EffortOfJob
  <2>3. fetch[f].left \in Nat
    BY <1>1, JobNumbers
  <2> QED
    BY <2>1, <2>2, <2>3
<1> QED
  BY <1>2, <1>3, <1>4 DEF Resting, Waiting

(* A fetch that ends has no effort left.                                    *)
LEMMA EndTurn ==
  ASSUME FetchInv, NEW f \in Active, Goes(f, Idle)
  PROVE  OthersUndisturbed(f) /\ Resting(fetch'[f]) /\ Effort(fetch'[f]) < Effort(fetch[f])
<1>1. FetchesTyped /\ fetch[f] \in Jobs /\ f \in Fetches
  BY JobOrIdle DEF FetchInv, TypeOK, FetchesTyped, Active
<1>2. fetch'[f] = Idle /\ OthersUndisturbed(f)
  BY <1>1, GoesOn DEF OthersUndisturbed
<1>3. Effort(fetch'[f]) = 0 /\ Effort(fetch[f]) \in Nat /\ Effort(fetch[f]) > 0
  BY <1>1, <1>2, EffortOfJob DEF Effort
<1> QED
  BY <1>2, <1>3 DEF Resting

LEMMA OwnTurn ==
  ASSUME FetchInv, NEW f \in Fetches,
         \/ \E o \in Asked[f] : Start(f, o)
         \/ Proceeds(f)
         \/ Sent(f)
         \/ Answered(f)
         \/ BodyEnds(f)
  PROVE  Turn(f)
<1> DEFINE job == fetch[f]
<1>1. /\ FetchesTyped
      /\ job.at # "idle" =>
           /\ f \in Active /\ job \in Jobs /\ Host(f) \in Hosts /\ job.page \in Origins
           /\ JobOK(job) /\ job.left \in Nat
  BY JobOrIdle, JobNumbers DEF FetchInv, JobsOK, TypeOK, FetchesTyped
<1>2. ASSUME NEW next \in Jobs \cup {Idle}, Goes(f, next)
      PROVE  fetch'[f] = next /\ OthersUndisturbed(f)
  BY <1>1, <1>2, GoesOn DEF OthersUndisturbed
<1>body. ASSUME BodyAwaited(f), job.at = "sent" PROVE Turn(f)
  <2> DEFINE next == [job EXCEPT !.at = "body"]
  <2>1. job \in Jobs /\ f \in Active /\ lane' = LaneLeft(f)
    BY <1>1, <1>body DEF BodyAwaited
  <2>2. IsAnswered(job, next) /\ Goes(f, next)
    BY <1>body, <2>1, JobIsAnswered, Zenon DEF BodyAwaited
  <2> HIDE DEF next
  <2>3. /\ fetch'[f] = next /\ OthersUndisturbed(f) /\ next \in Jobs /\ next.left = job.left
        /\ next.at = "body"
    BY <1>2, <2>2 DEF IsAnswered, SameTrip
  <2>4. Effort(job) = 6 * job.left + 5 /\ Effort(next) = 6 * job.left + 3
    BY <1>body, <2>1, <2>3, EffortOfJob
  <2> QED
    BY <1>1, <1>body, <2>1, <2>3, <2>4 DEF Turn, LaneTurn, Resting, Waiting
<1>3. ASSUME NEW o \in Asked[f], Start(f, o) PROVE Turn(f)
  <2>1. Fresh(o) \in Jobs /\ Fresh(o).at = "consult" /\ Goes(f, Fresh(o)) /\ job = Idle /\ lane' = lane
    BY <1>3, FetchAssumption, JobFresh DEF Start
  <2>2. fetch'[f] = Fresh(o) /\ OthersUndisturbed(f)
    BY <1>2, <2>1
  <2> QED
    BY <2>1, <2>2 DEF Turn, LaneTurn, Resting, Waiting, Active
<1>4. ASSUME Consult(f) PROVE Turn(f)
  <2> DEFINE o == job.page
  <2>1. /\ job.at = "consult" /\ job \in Jobs /\ f \in Active /\ lane' = lane /\ ~Waiting(job)
        /\ robots[o] \in Entries
    BY <1>1, <1>4 DEF Consult, Waiting, FetchInv, TypeOK
  <2>2. \E next \in Jobs : /\ Goes(f, next) /\ SameTrip(job, next)
                           /\ \/ next.at \in {"judge", "awaiting"}
                              \/ next.at = "request" /\ next.reading
    <3>1. CASE /\ Cached(o) /\ robots[o].reader = Nobody
               /\ Goes(f, [job EXCEPT !.at = "judge", !.rules = robots[o].rules])
      <4> DEFINE next == [job EXCEPT !.at = "judge", !.rules = robots[o].rules]
      <4>1. robots[o].rules \in RuleBook
        BY <2>1 DEF Entries
      <4>2. HasRules(job, next, robots[o].rules) /\ Goes(f, next)
        BY <2>1, <3>1, <4>1, JobJudging, Zenon
      <4> HIDE DEF next
      <4> QED
        BY <4>2 DEF HasRules
    <3>2. CASE /\ Cached(o) /\ robots[o].reader # Nobody
               /\ Goes(f, [job EXCEPT !.at = "awaiting", !.awaits = robots[o].reader])
      <4> DEFINE k == robots[o].reader
                 next == [job EXCEPT !.at = "awaiting", !.awaits = k]
      <4>1. k \in Fetches
        BY <2>1, <3>2 DEF Entries
      <4>2. HasToWait(job, next, k) /\ Goes(f, next)
        BY <2>1, <3>2, <4>1, JobAwaiting, Zenon
      <4> HIDE DEF next
      <4> QED
        BY <4>2 DEF HasToWait
    <3>3. CASE Goes(f, [job EXCEPT !.at = "request", !.reading = TRUE])
      <4> DEFINE next == [job EXCEPT !.at = "request", !.reading = TRUE]
      <4>1. HasToRead(job, next) /\ Goes(f, next)
        BY <2>1, <3>3, JobReading, Zenon
      <4> HIDE DEF next
      <4> QED
        BY <4>1 DEF HasToRead
    <3> QED
      BY <1>4, <3>1, <3>2, <3>3 DEF Consult
  <2>3. PICK next \in Jobs : /\ Goes(f, next) /\ SameTrip(job, next)
                             /\ \/ next.at \in {"judge", "awaiting"}
                                \/ next.at = "request" /\ next.reading
    BY <2>2
  <2>4. fetch'[f] = next /\ OthersUndisturbed(f) /\ next.left = job.left
    BY <1>2, <2>3 DEF SameTrip
  <2>5. Effort(job) = 6 * job.left + 4 /\ Effort(next) \in {6 * job.left + 2, 6 * job.left + 3}
    BY <2>1, <2>3, <2>4, EffortOfJob
  <2> QED
    BY <1>1, <2>1, <2>3, <2>4, <2>5 DEF Turn, LaneTurn, Resting, Waiting
<1>5. ASSUME Judge(f) PROVE Turn(f)
  <2> DEFINE next == [job EXCEPT !.at = "request"]
  <2>1. /\ job.at = "judge" /\ job \in Jobs /\ f \in Active /\ lane' = lane /\ ~Waiting(job)
        /\ ~job.reading
    BY <1>1, <1>5 DEF Judge, Waiting, JobOK, Placed, Asking
  <2>2. CASE Goes(f, Idle)
    BY <2>1, <2>2, EndTurn DEF Turn, LaneTurn, Resting
  <2>3. CASE Goes(f, next)
    <3>1. WasAllowed(job, next)
      BY <2>1, JobAllowed, Zenon
    <3> HIDE DEF next
    <3>2. /\ fetch'[f] = next /\ OthersUndisturbed(f) /\ next \in Jobs /\ next.left = job.left
          /\ next.at = "request" /\ ~next.reading
      BY <1>2, <2>1, <2>3, <3>1 DEF WasAllowed, SameTrip, SameRequest
    <3>3. Effort(job) = 6 * job.left + 2 /\ Effort(next) = 6 * job.left + 1
      BY <2>1, <3>2, EffortOfJob
    <3> QED
      BY <1>1, <2>1, <3>2, <3>3 DEF Turn, LaneTurn, Resting, Waiting
  <2>4. Goes(f, Idle) \/ Goes(f, next)
    BY <1>5, Zenon DEF Judge
  <2> QED
    BY <2>2, <2>3, <2>4
<1>6. ASSUME Request(f) PROVE Turn(f)
  <2> DEFINE next == [job EXCEPT !.at = "queued", !.last = Host(f), !.left = @ - 1]
  <2>1. /\ job \in Jobs /\ f \in Active /\ job.at = "request" /\ job.left > 0 /\ Host(f) \in Hosts
        /\ lane' = [lane EXCEPT ![Host(f)] = Append(lane[Host(f)], f)]
    BY <1>1, <1>6 DEF Request
  <2>2. Goes(f, next)
    BY <1>6, Zenon DEF Request
  <2>3. WasQueued(job, next, Host(f))
    BY <2>1, JobQueued, Zenon
  <2> HIDE DEF next
  <2>4. /\ fetch'[f] = next /\ OthersUndisturbed(f) /\ next \in Jobs /\ next.left = job.left - 1
        /\ next.at = "queued" /\ next.target = job.target
    BY <1>2, <2>2, <2>3 DEF WasQueued, SameRequest
  <2>5. Effort(next) = 6 * (job.left - 1) + 6
    BY <2>4, EffortOfJob
  <2>6. Effort(job) = 6 * job.left + 1 \/ Effort(job) = 6 * job.left + 3
    BY <2>1, EffortOfJob
  <2>7. Effort(next) < Effort(job)
    BY <1>1, <2>1, <2>5, <2>6
  <2> QED
    BY <2>1, <2>4, <2>7 DEF Turn, LaneTurn, Waiting
<1>7. ASSUME NEW rules \in RuleBook,
             \/ job.at = "request" /\ lane' = lane
             \/ job.at = "sent" /\ lane' = LaneLeft(f),
             \/ job.reading /\ Learned(f, rules)
             \/ Goes(f, Idle)
      PROVE  Turn(f)
  <2>1. job \in Jobs /\ f \in Active
    BY <1>1, <1>7
  <2>2. OthersUndisturbed(f) /\ Resting(fetch'[f]) /\ Effort(fetch'[f]) < Effort(job)
    BY <1>7, <2>1, LearnedTurn, EndTurn
  <2> QED
    BY <1>7, <2>1, <2>2 DEF Turn, LaneTurn, Resting, Waiting
<1>8. ASSUME RequestRefused(f) PROVE Turn(f)
  BY <1>1, <1>7, <1>8, UnreadRules DEF RequestRefused
<1>9. ASSUME Sent(f) PROVE Turn(f)
  <2> DEFINE next == [job EXCEPT !.at = "sent", !.cost = @ + 1, !.since = 0]
  <2>1. job.at = "queued" /\ job \in Jobs /\ f \in Active /\ lane' = lane
    BY <1>1, <1>9 DEF Sent, MayLeave
  <2>2. Goes(f, next)
    BY <1>9, Zenon DEF Sent
  <2>3. WasSent(job, next)
    BY <2>1, JobSent, Zenon
  <2> HIDE DEF next
  <2>4. /\ fetch'[f] = next /\ OthersUndisturbed(f) /\ next \in Jobs /\ next.left = job.left
        /\ next.at = "sent" /\ next.target = job.target
    BY <1>2, <2>2, <2>3 DEF WasSent, SameRequest
  <2>5. Effort(job) = 6 * job.left + 6 /\ Effort(next) = 6 * job.left + 5
    BY <2>1, <2>4, EffortOfJob
  <2> QED
    BY <1>1, <2>1, <2>4, <2>5 DEF Turn, LaneTurn, Waiting
<1>10. ASSUME NEW wait, Retried(f, wait) \/ GaveUp(f, wait) PROVE Turn(f)
  <2>1. CASE Retried(f, wait)
    <3> DEFINE next == [job EXCEPT !.at = "queued", !.tries = @ + 1, !.left = @ - 1]
    <3>1. /\ job \in Jobs /\ f \in Active /\ job.at = "sent" /\ job.left > 0 /\ job.tries < MaxRetries
          /\ lane' = [lane EXCEPT ![Host(f)] = Append(Tail(lane[Host(f)]), f)]
      BY <1>1, <2>1 DEF Retried, Finished
    <3>2. Goes(f, next)
      BY <2>1, Zenon DEF Retried
    <3>3. WasRetried(job, next)
      BY <3>1, JobRetried, Zenon
    <3> HIDE DEF next
    <3>4. /\ fetch'[f] = next /\ OthersUndisturbed(f) /\ next \in Jobs /\ next.left = job.left - 1
          /\ next.at = "queued" /\ next.target = job.target
      BY <1>2, <3>2, <3>3 DEF WasRetried, SameRequest
    <3>5. Effort(job) = 6 * job.left + 5 /\ Effort(next) = 6 * (job.left - 1) + 6
      BY <3>1, <3>4, EffortOfJob
    <3>6. Effort(next) < Effort(job)
      BY <1>1, <3>1, <3>5
    <3> QED
      BY <3>1, <3>4, <3>6 DEF Turn, LaneTurn, Waiting
  <2>2. CASE GaveUp(f, wait)
    BY <1>1, <1>7, <2>2, UnreadRules DEF GaveUp, Finished
  <2> QED
    BY <1>10, <2>1, <2>2
<1>11. ASSUME NEW o \in Origins, NEW rules \in RulesOf(o), RulesAnswered(f, rules)
       PROVE  Turn(f)
  <2>1. rules \in RuleBook
    BY RulesOfTyped
  <2> QED
    BY <1>7, <1>11, <2>1 DEF RulesAnswered, Finished
<1>12. ASSUME NEW o \in Origins, RulesMoved(f, o) PROVE Turn(f)
  <2> DEFINE next == [job EXCEPT !.at = "request", !.target = o, !.tries = 0,
                                 !.robotsHop = @ + 1]
  <2>1. /\ job \in Jobs /\ f \in Active /\ job.at = "sent" /\ job.reading /\ job.page \in Origins
        /\ lane' = LaneLeft(f)
    BY <1>1, <1>12 DEF RulesMoved, Finished
  <2>2. CASE job.robotsHop = MaxHops \/ o \in Blocked
    BY <1>7, <1>12, <2>1, <2>2, UnreadRules DEF RulesMoved
  <2>3. CASE ~(job.robotsHop = MaxHops \/ o \in Blocked)
    <3>1. Goes(f, next)
      BY <1>12, <2>3, Zenon DEF RulesMoved
    <3>2. RulesAreAt(job, next, o)
      BY <2>1, <2>3, JobRulesMoved, Zenon
    <3> HIDE DEF next
    <3>3. /\ fetch'[f] = next /\ OthersUndisturbed(f) /\ next \in Jobs /\ next.left = job.left
          /\ next.at = "request" /\ next.reading
      BY <1>2, <2>1, <3>1, <3>2 DEF RulesAreAt, SameTrip
    <3>4. Effort(job) = 6 * job.left + 5 /\ Effort(next) = 6 * job.left + 3
      BY <2>1, <3>3, EffortOfJob
    <3> QED
      BY <1>1, <2>1, <3>3, <3>4 DEF Turn, LaneTurn, Resting, Waiting
  <2> QED
    BY <2>2, <2>3
<1>13. ASSUME NEW o \in Origins, PageMoved(f, o) PROVE Turn(f)
  <2> DEFINE next == [job EXCEPT !.at = "consult", !.page = o, !.target = o, !.hop = @ + 1,
                                 !.tries = 0, !.rules = Unread(Nowhere)]
  <2>1. job \in Jobs /\ f \in Active /\ job.at = "sent" /\ lane' = LaneLeft(f)
    BY <1>1, <1>13 DEF PageMoved, BodyAwaited, Finished
  <2>2. CASE BodyAwaited(f)
    BY <1>body, <2>1, <2>2
  <2>3. CASE Goes(f, Idle)
    BY <2>1, <2>3, EndTurn DEF Turn, LaneTurn
  <2>4. CASE job.hop < MaxHops /\ Goes(f, next)
    <3>1. PageIsAt(job, next, o)
      <4>1. job.hop # MaxHops
        BY <2>4, Numbers
      <4> QED
        BY <2>1, <4>1, JobPageMoved, Zenon
    <3> HIDE DEF next
    <3>2. /\ fetch'[f] = next /\ OthersUndisturbed(f) /\ next \in Jobs /\ next.left = job.left
          /\ next.at = "consult"
      BY <1>2, <2>4, <3>1 DEF PageIsAt, SameTrip
    <3>3. Effort(job) = 6 * job.left + 5 /\ Effort(next) = 6 * job.left + 4
      BY <2>1, <3>2, EffortOfJob
    <3> QED
      BY <1>1, <2>1, <3>2, <3>3 DEF Turn, LaneTurn, Resting, Waiting
  <2> QED
    BY <1>13, <2>2, <2>3, <2>4, Zenon DEF PageMoved
<1>14. ASSUME PageAnswered(f) \/ RulesArrive(f) PROVE Turn(f)
  BY <1>body, <1>14 DEF PageAnswered, RulesArrive, Finished
<1>15. ASSUME Answered(f) PROVE Turn(f)
  BY <1>10, <1>11, <1>12, <1>13, <1>14, <1>15 DEF Answered, AskedToWait, Failed
<1>16. ASSUME NEW o \in Origins, NEW rules \in RulesOf(o), RulesRead(f, rules)
       PROVE  Turn(f)
  <2>1. /\ job \in Jobs /\ f \in Active /\ job.at = "body" /\ lane' = lane
        /\ job.reading /\ rules \in RuleBook
    BY <1>1, <1>16, RulesOfTyped DEF RulesRead
  <2>2. /\ OthersUndisturbed(f) /\ Resting(fetch'[f])
        /\ Effort(fetch'[f]) < Effort(fetch[f])
    BY <1>16, <2>1, LearnedTurn DEF RulesRead
  <2> QED
    BY <2>1, <2>2 DEF Turn, LaneTurn, Resting, Waiting
<1>17. ASSUME PageRead(f) PROVE Turn(f)
  <2>1. job \in Jobs /\ f \in Active /\ job.at = "body" /\ lane' = lane /\ Goes(f, Idle)
    BY <1>1, <1>17 DEF PageRead
  <2> QED
    BY <2>1, EndTurn DEF Turn, LaneTurn, Resting, Waiting
<1> QED
  BY <1>3, <1>4, <1>5, <1>6, <1>8, <1>9, <1>15, <1>16, <1>17 DEF Proceeds, BodyEnds

-----------------------------------------------------------------------------
(* A lane holds nobody but those who wait in it, each once.                 *)

EachOnce(queue) == \A i, j \in 1..Len(queue) : queue[i] = queue[j] => i = j

WaitsAt(g, h) == g \in Active /\ Waiting(fetch[g]) /\ Host(g) = h

LaneExact ==
  \A h \in Hosts : EachOnce(lane[h]) /\ \A g \in Fetches : InLane(g, lane[h]) => WaitsAt(g, h)

LEMMA JoinedOnce ==
  ASSUME NEW queue \in Seq(Fetches), NEW f \in Fetches, EachOnce(queue), ~InLane(f, queue)
  PROVE  /\ EachOnce(Append(queue, f))
         /\ \A g \in Fetches : InLane(g, Append(queue, f)) => g = f \/ InLane(g, queue)
<1> DEFINE longer == Append(queue, f)
<1>1. /\ Len(longer) = Len(queue) + 1 /\ Len(queue) \in Nat
      /\ \A i \in 1..Len(queue) : longer[i] = queue[i]
      /\ longer[Len(queue) + 1] = f
  BY AppendProperties, LenProperties
<1> HIDE DEF longer
<1>2. \A i \in 1..Len(longer) : i \in 1..Len(queue) \/ i = Len(queue) + 1
  BY <1>1
<1>3. \A i \in 1..Len(queue) : queue[i] # f
  BY DEF InLane
<1>4. EachOnce(longer)
  BY <1>1, <1>2, <1>3 DEF EachOnce
<1>5. \A g \in Fetches : InLane(g, longer) => g = f \/ InLane(g, queue)
  BY <1>1, <1>2 DEF InLane
<1> QED
  BY <1>4, <1>5 DEF longer

LEMMA HeadGone ==
  ASSUME NEW queue \in Seq(Fetches), queue # <<>>, EachOnce(queue)
  PROVE  /\ Tail(queue) \in Seq(Fetches) /\ EachOnce(Tail(queue)) /\ ~InLane(Head(queue), Tail(queue))
         /\ \A g \in Fetches : InLane(g, Tail(queue)) => InLane(g, queue)
         /\ InLane(Head(queue), queue)
<1> DEFINE rest == Tail(queue)
<1>1. /\ rest \in Seq(Fetches) /\ Len(rest) = Len(queue) - 1 /\ Len(queue) \in Nat \ {0}
      /\ \A i \in 1..Len(rest) : rest[i] = queue[i + 1]
      /\ Head(queue) = queue[1]
  BY HeadTailProperties, LenProperties, EmptySeq
<1> HIDE DEF rest
<1>2. \A i \in 1..Len(rest) : i + 1 \in 1..Len(queue) /\ i + 1 # 1 /\ i \in Int
  BY <1>1
<1>3. 1 \in 1..Len(queue)
  BY <1>1
<1>4. EachOnce(rest)
  BY <1>1, <1>2 DEF EachOnce
<1>5. ~InLane(Head(queue), rest) /\ InLane(Head(queue), queue)
  BY <1>1, <1>2, <1>3 DEF EachOnce, InLane
<1>6. \A g \in Fetches : InLane(g, rest) => InLane(g, queue)
  BY <1>1, <1>2 DEF InLane
<1> QED
  BY <1>1, <1>4, <1>5, <1>6 DEF rest

(* Who waits in a lane is not disturbed there.                              *)
LEMMA WaitersStay ==
  ASSUME FetchInv, NEW f \in Fetches, OthersUndisturbed(f), NEW g \in Fetches \ {f}, NEW h \in Hosts,
         WaitsAt(g, h)
  PROVE  WaitsAt(g, h)'
<1>1. fetch'[g] = fetch[g]
  BY DEF OthersUndisturbed, Undisturbed, WaitsAt, Waiting
<1> QED
  BY <1>1 DEF WaitsAt, Active, Host

LEMMA TurnKeepsLanes ==
  ASSUME FetchInv, LaneExact, NEW f \in Fetches, Turn(f)
  PROVE  LaneExact'
<1>1. /\ OthersUndisturbed(f) /\ LaneTurn(f) /\ lane \in [Hosts -> Seq(Fetches)]
      /\ f \in Active => Host(f) \in Hosts
  BY JobOrIdle DEF Turn, FetchInv, TypeOK
<1>2. \A h \in Hosts, g \in Fetches \ {f} : WaitsAt(g, h) => WaitsAt(g, h)'
  BY <1>1, WaitersStay
<1>3. fetch'[f] \in Jobs /\ Waiting(fetch'[f]) /\ fetch'[f].target = fetch[f].target
        => \A h \in Hosts : Host(f) = h => WaitsAt(f, h)'
  BY NoJobIsIdle DEF WaitsAt, Active, Host
<1>4. CASE lane' = lane /\ Resting(fetch[f]) /\ Resting(fetch'[f])
  <2>1. \A h \in Hosts : ~WaitsAt(f, h)
    BY <1>4 DEF Resting, WaitsAt, Active
  <2> QED
    BY <1>2, <1>4, <2>1 DEF LaneExact
<1>5. CASE /\ lane' = lane /\ f \in Active /\ Waiting(fetch[f]) /\ fetch'[f] \in Jobs
           /\ Waiting(fetch'[f]) /\ fetch'[f].target = fetch[f].target
  <2>1. \A h \in Hosts : Host(f) = h => WaitsAt(f, h)'
    BY <1>3, <1>5
  <2>2. \A h \in Hosts : WaitsAt(f, h) => WaitsAt(f, h)'
    <3>1. \A h \in Hosts : WaitsAt(f, h) => Host(f) = h
      BY DEF WaitsAt
    <3> QED
      BY <2>1, <3>1
  <2> QED
    BY <1>2, <1>5, <2>2 DEF LaneExact
<1>6. CASE /\ f \in Active /\ ~Waiting(fetch[f])
           /\ lane' = [lane EXCEPT ![Host(f)] = Append(lane[Host(f)], f)]
           /\ fetch'[f] \in Jobs /\ Waiting(fetch'[f]) /\ fetch'[f].target = fetch[f].target
  <2>1. \A h \in Hosts : EachOnce(lane[h]) /\ ~InLane(f, lane[h])
    BY <1>6 DEF LaneExact, WaitsAt
  <2>2. ASSUME NEW h \in Hosts
        PROVE  EachOnce(lane'[h]) /\ \A g \in Fetches : InLane(g, lane'[h]) => WaitsAt(g, h)'
    <3>1. CASE h = Host(f)
      <4>1. lane'[h] = Append(lane[h], f) /\ lane[h] \in Seq(Fetches)
        BY <1>1, <1>6, <3>1
      <4>2. /\ EachOnce(lane'[h])
            /\ \A g \in Fetches : InLane(g, lane'[h]) => g = f \/ InLane(g, lane[h])
        BY <2>1, <4>1, JoinedOnce
      <4>3. WaitsAt(f, h)'
        BY <1>3, <1>6, <3>1
      <4>4. \A g \in Fetches : InLane(g, lane[h]) => WaitsAt(g, h)'
        BY <1>2, <2>1 DEF LaneExact
      <4> QED
        BY <4>2, <4>3, <4>4
    <3>2. CASE h # Host(f)
      <4>1. lane'[h] = lane[h]
        BY <1>1, <1>6, <3>2
      <4> QED
        BY <1>2, <2>1, <4>1 DEF LaneExact
    <3> QED
      BY <3>1, <3>2
  <2> QED
    BY <2>2 DEF LaneExact
<1>7. CASE /\ f \in Active /\ fetch[f].at = "sent"
           /\ \/ lane' = LaneLeft(f)
              \/ /\ lane' = [lane EXCEPT ![Host(f)] = Append(Tail(lane[Host(f)]), f)]
                 /\ fetch'[f] \in Jobs /\ Waiting(fetch'[f])
                 /\ fetch'[f].target = fetch[f].target
  <2>1. lane[Host(f)] # <<>> /\ Head(lane[Host(f)]) = f /\ Host(f) \in Hosts
    BY <1>1, <1>7 DEF FetchInv, LanesOK, HasLane
  <2>2. ASSUME NEW h \in Hosts
        PROVE  EachOnce(lane'[h]) /\ \A g \in Fetches : InLane(g, lane'[h]) => WaitsAt(g, h)'
    <3>1. CASE h = Host(f)
      <4> DEFINE rest == Tail(lane[h])
      <4>1. /\ rest \in Seq(Fetches) /\ EachOnce(rest) /\ ~InLane(f, rest)
            /\ \A g \in Fetches : InLane(g, rest) => InLane(g, lane[h])
        BY <1>1, <2>1, <3>1, HeadGone DEF LaneExact
      <4>2. \A g \in Fetches : InLane(g, rest) => WaitsAt(g, h)'
        BY <1>2, <4>1 DEF LaneExact
      <4>3. \/ lane'[h] = rest
            \/ lane'[h] = Append(rest, f) /\ WaitsAt(f, h)'
        <5>1. CASE lane' = LaneLeft(f)
          BY <1>1, <2>1, <3>1, <5>1 DEF LaneLeft
        <5>2. CASE /\ lane' = [lane EXCEPT ![Host(f)] = Append(Tail(lane[Host(f)]), f)]
                   /\ fetch'[f] \in Jobs /\ Waiting(fetch'[f])
                   /\ fetch'[f].target = fetch[f].target
          <6>1. lane'[h] = Append(rest, f)
            BY <1>1, <2>1, <3>1, <5>2
          <6>2. WaitsAt(f, h)'
            BY <1>3, <3>1, <5>2
          <6> QED
            BY <6>1, <6>2
        <5> QED
          BY <1>7, <5>1, <5>2
      <4> HIDE DEF rest
      <4>4. CASE lane'[h] = rest
        BY <4>1, <4>2, <4>4
      <4>5. CASE lane'[h] = Append(rest, f) /\ WaitsAt(f, h)'
        BY <4>1, <4>2, <4>5, JoinedOnce
      <4> QED
        BY <4>3, <4>4, <4>5
    <3>2. CASE h # Host(f)
      <4>1. lane'[h] = lane[h]
        BY <1>1, <1>7, <3>2 DEF LaneLeft
      <4>2. ~InLane(f, lane[h])
        BY <3>2 DEF LaneExact, WaitsAt
      <4> QED
        BY <1>2, <4>1, <4>2 DEF LaneExact
    <3> QED
      BY <3>1, <3>2
  <2> QED
    BY <2>2 DEF LaneExact
<1> QED
  BY <1>1, <1>4, <1>5, <1>6, <1>7 DEF LaneTurn

LEMMA LanesStayExact == FetchInv /\ LaneExact /\ [Next]_vars => LaneExact'
<1> SUFFICES ASSUME FetchInv, LaneExact, [Next]_vars PROVE LaneExact'
  OBVIOUS
<1>1. ASSUME NEW f \in Fetches,
             \/ \E o \in Asked[f] : Start(f, o)
             \/ Proceeds(f)
             \/ Sent(f)
             \/ Answered(f)
             \/ BodyEnds(f)
      PROVE  LaneExact'
  BY <1>1, OwnTurn, TurnKeepsLanes
<1>2. CASE ForgetRobots \/ UNCHANGED vars
  BY <1>2 DEF ForgetRobots, vars, LaneExact, WaitsAt, Active, Host
<1>3. CASE Tick
  <2>1. lane' = lane
    BY <1>3 DEF Tick
  <2>2. ASSUME NEW g \in Fetches, NEW h \in Hosts, WaitsAt(g, h) PROVE WaitsAt(g, h)'
    <3>1. FetchesTyped /\ fetch[g] \in Jobs
      BY <2>2, JobOrIdle DEF FetchInv, TypeOK, FetchesTyped, WaitsAt
    <3>2. /\ fetch'[g] \in Jobs /\ fetch'[g].at = fetch[g].at
          /\ fetch'[g].target = fetch[g].target
      BY <1>3, <3>1, TickedFetches DEF HasRested, SameRequest
    <3> QED
      BY <2>2, <3>2, NoJobIsIdle DEF WaitsAt, Active, Waiting, Host
  <2> QED
    BY <2>1, <2>2 DEF LaneExact
<1> QED
  BY <1>1, <1>2, <1>3 DEF Next

LEMMA LanesExact == Spec => []LaneExact
<1>1. Init => LaneExact
  BY DEF Init, LaneExact, EachOnce, InLane
<1> QED
  BY <1>1, LanesStayExact, InvHolds, PTL DEF Spec

(* HostQueue's lanes and the reads robotsFor shares never make a circle:    *)
(* who awaits rules awaits a fetch that is reading them and awaits nobody,  *)
(* and who is queued stands behind a fetch that waits for nothing but the   *)
(* clock, or for an answer.                                                 *)
THEOREM NobodyWaitsInACircle == Spec => []NoCircle
<1>1. FetchInv /\ LaneExact => NoCircle
  <2> SUFFICES ASSUME FetchInv, LaneExact, NEW f \in Active PROVE
         /\ fetch[f].at = "awaiting" =>
              LET g == fetch[f].awaits
              IN  g \in Active /\ fetch[g].reading /\ fetch[g].at \in {"request", "queued", "sent", "body"}
         /\ fetch[f].at = "queued" =>
              LET g == Head(lane[Host(f)])
              IN  g \in Active /\ fetch[g].at \in {"queued", "sent"} /\ Host(g) = Host(f)
    BY DEF NoCircle
  <2>1. ASSUME fetch[f].at = "awaiting"
        PROVE  LET g == fetch[f].awaits
               IN  g \in Active /\ fetch[g].reading /\ fetch[g].at \in {"request", "queued", "sent", "body"}
    <3> DEFINE g == fetch[f].awaits
    <3>1. g \in Active /\ fetch[g].reading
      BY <2>1 DEF FetchInv, ReadsOK, Reads
    <3>2. Asking(fetch[g]) \/ fetch[g].at = "body"
      BY <3>1 DEF FetchInv, JobsOK, JobOK, Placed
    <3> QED
      BY <3>1, <3>2 DEF Asking
  <2>2. ASSUME fetch[f].at = "queued"
        PROVE  LET g == Head(lane[Host(f)])
               IN  g \in Active /\ fetch[g].at \in {"queued", "sent"} /\ Host(g) = Host(f)
    <3> DEFINE h == Host(f)
    <3>1. h \in Hosts /\ lane[h] \in Seq(Fetches) /\ InLane(f, lane[h]) /\ f \in Fetches
      BY <2>2, JobOrIdle DEF FetchInv, TypeOK, LanesOK, HasLane, Active
    <3>2. lane[h] # <<>>
      BY <3>1 DEF InLane
    <3>3. Head(lane[h]) \in Fetches /\ InLane(Head(lane[h]), lane[h])
      BY <3>1, <3>2, HeadLeft, HeadGone DEF LaneExact
    <3>4. WaitsAt(Head(lane[h]), h)
      BY <3>1, <3>3 DEF LaneExact
    <3> QED
      BY <3>4 DEF WaitsAt, Waiting
  <2> QED
    BY <2>1, <2>2
<1> QED
  BY <1>1, InvHolds, LanesExact, PTL

(* No host keeps a fetch going: every await it comes back from brings its   *)
(* end nearer, by its purse, and nothing the other fetches, the cache or    *)
(* the clock do takes it away again.  So it takes at most 6 * Purse + 4     *)
(* steps from where it starts.                                              *)
THEOREM FetchRunsDown == Spec => RunsDown
<1>1. FetchInv /\ [Next]_vars =>
        [\A f \in Active :
           /\ StepsLeft(f)' <= StepsLeft(f)
           /\ Proceeds(f) \/ Sent(f) \/ Answered(f) \/ BodyEnds(f) => StepsLeft(f)' < StepsLeft(f)]_vars
  <2> SUFFICES ASSUME FetchInv, [Next]_vars, NEW f \in Active
               PROVE  /\ Effort(fetch'[f]) <= Effort(fetch[f])
                      /\ Proceeds(f) \/ Sent(f) \/ Answered(f) \/ BodyEnds(f)
                           => Effort(fetch'[f]) < Effort(fetch[f])
    BY DEF StepsLeft, Effort
  <2>1. f \in Fetches /\ fetch[f] \in Jobs /\ FetchesTyped /\ Effort(fetch[f]) \in Nat
    BY JobOrIdle, EffortOfJob DEF Active, FetchInv, TypeOK, FetchesTyped
  <2>2. ASSUME Proceeds(f) \/ Sent(f) \/ Answered(f) \/ BodyEnds(f)
        PROVE  Effort(fetch'[f]) < Effort(fetch[f])
    BY <2>1, <2>2, OwnTurn DEF Turn
  <2>3. ASSUME \E o \in Asked[f] : Start(f, o) PROVE FALSE
    BY <2>3 DEF Start, Active
  <2>4. ASSUME NEW g \in Fetches \ {f},
               \/ \E o \in Asked[g] : Start(g, o)
               \/ Proceeds(g)
               \/ Sent(g)
               \/ Answered(g)
               \/ BodyEnds(g)
        PROVE  Effort(fetch'[f]) <= Effort(fetch[f])
    <3>1. Undisturbed(f)
      BY <2>1, <2>4, OwnTurn DEF Turn, OthersUndisturbed
    <3>2. CASE fetch'[f] = fetch[f]
      BY <2>1, <3>2
    <3>3. CASE /\ fetch[f].at = "awaiting" /\ fetch'[f] \in Jobs /\ fetch'[f].at = "judge"
               /\ SameTrip(fetch[f], fetch'[f])
      <4>1. /\ Effort(fetch'[f]) = 6 * fetch[f].left + 2
            /\ Effort(fetch[f]) = 6 * fetch[f].left + 3
        BY <2>1, <3>3, EffortOfJob DEF SameTrip
      <4> QED
        BY <2>1, <4>1, JobNumbers
    <3> QED
      BY <3>1, <3>2, <3>3 DEF Undisturbed
  <2>5. ASSUME Tick PROVE Effort(fetch'[f]) <= Effort(fetch[f])
    <3>1. CASE fetch'[f] = fetch[f]
      BY <2>1, <3>1
    <3>2. CASE HasRested(fetch[f], fetch'[f])
      <4>1. /\ fetch'[f] \in Jobs /\ fetch'[f].left = fetch[f].left
            /\ fetch'[f].at = fetch[f].at /\ fetch'[f].reading = fetch[f].reading
        BY <3>2 DEF HasRested, SameRequest
      <4>2. Stage(fetch'[f]) = Stage(fetch[f])
        BY <4>1 DEF Stage
      <4>3. Effort(fetch'[f]) = Effort(fetch[f])
        BY <2>1, <4>1, <4>2, EffortOfJob
      <4> QED
        BY <2>1, <4>3
    <3> QED
      BY <2>1, <2>5, <3>1, <3>2, TickedFetches
  <2>6. ASSUME ForgetRobots \/ UNCHANGED vars PROVE Effort(fetch'[f]) <= Effort(fetch[f])
    BY <2>1, <2>6 DEF ForgetRobots, vars
  <2> QED
    <3>1. Effort(fetch'[f]) < Effort(fetch[f]) \/ Effort(fetch'[f]) <= Effort(fetch[f])
      BY <2>2, <2>3, <2>4, <2>5, <2>6 DEF Next
    <3>2. fetch'[f] = Idle \/ fetch'[f] \in Jobs
      <4>1. FetchInv'
        BY NextKeeps
      <4> QED
        BY <2>1, <4>1 DEF FetchInv, TypeOK
    <3>3. Effort(fetch'[f]) \in Nat
      BY <3>2, EffortOfJob DEF Effort
    <3> QED
      BY <2>1, <2>2, <3>1, <3>3
<1> QED
  BY <1>1, InvHolds, PTL DEF Spec, RunsDown
================================================================================
