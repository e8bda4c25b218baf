-------------------------------- MODULE Matcher --------------------------------
(***************************************************************************)
(* The verdict on one programme for one profile: matchProgram and what it  *)
(* is made of (packages/core/src/matcher.ts, geo.ts).  The machine is a    *)
(* profile being filled in, one blank at a time, beside a programme: the   *)
(* verdict is recomputed after each, as the pages of the web client do.    *)
(*                                                                         *)
(* What text extraction left in a constraint is data: a field of study is  *)
(* the set of its words, with one word for all that match one another and  *)
(* abbreviations written out; a place inside a radius is told from one     *)
(* outside by its coordinates' names; a date is the months since it.       *)
(***************************************************************************)
EXTENDS Integers, FiniteSets

CONSTANTS
  Catalogue,   (* the programmes looked at                                  *)
  Answers,     (* [profile field -> what it may be filled in with]          *)
  DistrictOf,  (* [callsigns -> the call district each implies, or Blank]   *)
  FieldNoiseWords,         (* words that name no field of study             *)
  AnyWords,                (* of those, the ones that stand for all of them *)
  RelatednessWords,        (* words that open a list of fields              *)
  WideningDescriptorWords, (* what they may describe: "technical fields"    *)
  Blank,       (* a field of a profile nobody has filled in                 *)
  Unset        (* a bound a constraint does not set                         *)

StudentFields ==
  {"callsign", "licenseClass", "licensedMonths", "state", "county", "lat", "lon",
   "callDistrict", "fieldOfStudy", "degreeLevel", "accredited", "partTime", "gpa",
   "classRankTopPct", "arrlMonths", "citizenship", "age", "stage", "activityKinds",
   "cwWpm", "financialNeed", "gender"}
OrgFields == {"callsign", "state", "lat", "lon", "arrlAffiliated"}

FieldsOf(kind) == IF kind = "student" THEN StudentFields ELSE OrgFields

Axes ==
  {"license", "geography", "field_of_study", "institution", "gpa", "arrl_membership",
   "citizenship", "age_stage", "ham_activity", "recommendation", "financial_need", "gender", "other"}
GeoTypes == {"any", "state", "county", "radius", "call_district"}

(* What the extractors write: other tiers on three axes only, and those of *)
(* a field of study exclude what the first one excludes.                   *)
ASSUME CatalogueAssumption ==
  /\ Blank \notin BOOLEAN
  /\ \A p \in Catalogue : \A c \in p.constraints :
       /\ \A t \in {c.tier} \cup c.anyOf :
            /\ t.axis \in Axes
            /\ t.axis = "geography" => t.type \in GeoTypes
            /\ t.axis = "geography" /\ t.type = "county" => \A v \in t.values : v.state # Blank
       /\ c.anyOf # {} => c.tier.axis \in {"license", "geography", "field_of_study"}
       /\ \A t \in c.anyOf :
            t.axis = "field_of_study" /\ c.tier.axis = "field_of_study" =>
              t.excluded = c.tier.excluded

VARIABLES
  program,  (* the programme looked at                                      *)
  kind,     (* whose profile: a student's or an organization's              *)
  entity,   (* who applies: the organization's entity, or an individual     *)
  profile   (* [FieldsOf(kind) -> an answer or Blank]                       *)

matchVars == <<program, kind, entity, profile>>

-----------------------------------------------------------------------------
(* AxisResult.                                                             *)
Result(status, missing, barred) ==
  [status |-> status, missing |-> missing, barred |-> barred]

Pass          == Result("pass", {}, FALSE)
Fail          == Result("fail", {}, FALSE)
Barred        == Result("fail", {}, TRUE)
NotEvaluable  == Result("not_evaluable", {}, FALSE)
Unknown(asks) == Result("unknown", asks, FALSE)

(* A question the profile answers or not, and what each answer decides.    *)
Decided(met, otherwise) == IF met THEN Pass ELSE otherwise
Ask(f, met) == IF profile[f] = Blank THEN Unknown({f}) ELSE Decided(met, Fail)

(* One question before another.                                            *)
Then(first, second) == IF first = Pass THEN second ELSE first

Missing(results) == UNION {r.missing : r \in {q \in results : q.status = "unknown"}}

(* Mutant: a route that fails settles the axis.                            *)
EitherHasty(results) ==
  IF results = {} \/ Pass \in results THEN Pass
  ELSE IF \E r \in results : r.status = "fail" THEN Fail
  ELSE Unknown(Missing(results))

(* Any of several routes will do.                                          *)
Either(results) ==
  IF results = {} \/ Pass \in results THEN Pass
  ELSE IF \E r \in results : r.status = "unknown" THEN Unknown(Missing(results))
  ELSE Fail

(* All of them are asked, and a failure is known before the blanks are.    *)
Every(results) ==
  IF \E r \in results : r.status = "fail" THEN Fail
  ELSE IF \E r \in results : r.status = "unknown" THEN Unknown(Missing(results))
  ELSE Pass

When(asked, result) == IF asked THEN {result} ELSE {}

-----------------------------------------------------------------------------
(* evaluateTier, an axis at a time; t is the constraint's tier.            *)

License(t) ==
  Then(IF t.min = 0 THEN Pass ELSE Ask("licenseClass", profile.licenseClass >= t.min),
       IF t.heldMonths = 0 THEN Pass
       ELSE Ask("licensedMonths", profile.licensedMonths >= t.heldMonths))

(* evaluateGeo.  A county's value names its state or not; an organization   *)
(* has neither county nor call district; divisions and sections are sets   *)
(* of states; a radius the record leaves open measures nothing.            *)
County(t) ==
  LET mine == {v \in t.values : v.county = profile.county} IN
  IF kind # "student" \/ profile.county = Blank THEN Unknown({"county"})
  ELSE IF \E v \in mine : v.state \in {Unset, profile.state} THEN Pass
  ELSE IF mine # {} /\ profile.state = Blank THEN Unknown({"state"})
  ELSE Fail

(* Mutant: a place that is not said is no more a question than a radius    *)
(* that is not drawn.                                                      *)
RadiusUnasked(t) ==
  IF ~t.measurable \/ Blank \in {profile.lat, profile.lon} THEN Unknown({})
  ELSE Decided(<<profile.lat, profile.lon>> \in t.values, Fail)

Radius(t) ==
  LET blank == {f \in {"lat", "lon"} : profile[f] = Blank} IN
  IF ~t.measurable THEN Unknown({})
  ELSE IF blank # {} THEN Unknown(blank)
  ELSE Decided(<<profile.lat, profile.lon>> \in t.values, Fail)

District ==
  IF kind = "student" /\ profile.callDistrict # Blank THEN profile.callDistrict
  ELSE IF profile.callsign # Blank THEN DistrictOf[profile.callsign]
  ELSE Blank

Geography(t) ==
  CASE t.type = "any"           -> Pass
    [] t.type = "state"         -> Ask("state", profile.state \in t.values)
    [] t.type = "county"        -> County(t)
    [] t.type = "radius"        -> Radius(t)
    [] t.type = "call_district" ->
         IF District = Blank THEN Unknown({"callDistrict"})
         ELSE Decided(District \in t.values, Fail)

(* analyzeFieldPhrase: what a phrase says of a subject.                    *)
Words(phrase) == phrase \ (FieldNoiseWords \cup RelatednessWords)

IsAnyFieldMarker(phrase) == Words(phrase) = {} /\ phrase \cap AnyWords # {}

IsFieldWideningMarker(phrase) ==
  phrase \cap RelatednessWords # {} /\ Words(phrase) \subseteq WideningDescriptorWords

(* readFieldRequirement: a list that names nothing asks for nothing.       *)
FieldRequirement(t, opened) ==
  LET informative == {f \in t.fields : Words(f) # {} /\ ~IsFieldWideningMarker(f)}
  IN [informative  |-> informative,
      unrestricted |-> informative = {} \/ \E f \in t.fields : IsAnyFieldMarker(f),
      widened      |-> informative # {} /\ (opened \/ \E f \in t.fields : IsFieldWideningMarker(f)),
      excluded     |-> {f \in t.excluded : Words(f) # {}}]

Overlap(mine, theirs) == Words(mine) \cap Words(theirs) # {}

(* One phrase within the other, or the same subject in other words.        *)
Excluded(mine, theirs) ==
  mine \subseteq theirs \/ theirs \subseteq mine \/ Words(mine) = Words(theirs)

(* What a list leaves open a mismatch may not close; what it excludes is   *)
(* excluded by name.                                                       *)
FieldOfStudy(t, opened) ==
  LET required == FieldRequirement(t, opened)
      mine == profile.fieldOfStudy
  IN IF mine = Blank \/ Words(mine) = {}
       THEN IF required.excluded # {} \/ ~required.unrestricted
              THEN Unknown({"fieldOfStudy"}) ELSE Pass
     ELSE IF \E e \in required.excluded : Excluded(mine, e) THEN Barred
     ELSE IF required.unrestricted \/ \E f \in required.informative : Overlap(mine, f) THEN Pass
     ELSE IF required.widened THEN Unknown({})
     ELSE Fail

Institution(t) ==
  LET closedByName == \/ t.accredited /\ profile.accredited = FALSE
                      \/ ~t.partTimeOK /\ profile.partTime = TRUE
      degree == IF t.levels = {} THEN Pass
                ELSE IF profile.degreeLevel = Blank THEN Unknown({"degreeLevel"})
                ELSE Decided(profile.degreeLevel \in t.levels,
                             IF closedByName THEN Barred ELSE Fail)
      accredited == IF ~t.accredited THEN Pass
                    ELSE IF profile.accredited = Blank THEN Unknown({"accredited"})
                    ELSE Decided(profile.accredited, Barred)
      fullTime == IF t.partTimeOK THEN Pass
                  ELSE IF profile.partTime = Blank THEN Unknown({"partTime"})
                  ELSE Decided(~profile.partTime, Barred)
  IN Then(degree, Then(accredited, fullTime))

Gpa(t) ==
  Either(When(t.min # Unset, Ask("gpa", profile.gpa >= t.min))
    \cup When(t.classRank # Unset, Ask("classRankTopPct", profile.classRankTopPct <= t.classRank)))

Membership(t) ==
  IF ~t.required THEN NotEvaluable
  ELSE IF kind # "student" THEN Ask("arrlAffiliated", profile.arrlAffiliated)
  ELSE Ask("arrlMonths", profile.arrlMonths >= 12 * t.minYears)

Citizenship(t) ==
  IF "ANY" \in t.allowed THEN Pass
  ELSE Ask("citizenship",
           \/ profile.citizenship \in t.allowed
           \/ profile.citizenship = "US_CITIZEN" /\ "US_RESIDENT" \in t.allowed)

(* stagesSatisfiedBy: a status is held at some level, at either one while  *)
(* the level is not said.                                                  *)
StatusStages == {"VETERAN", "RETRAINING_ADULT"}

StagesSatisfied ==
  {profile.stage} \cup
  IF profile.stage \notin StatusStages THEN {}
  ELSE IF profile.degreeLevel = Blank THEN {"UNDERGRAD", "GRAD"}
  ELSE {IF profile.degreeLevel = "GRAD" THEN "GRAD" ELSE "UNDERGRAD"}

AgeStage(t) ==
  Every(When(t.stages # {}, Ask("stage", StagesSatisfied \cap t.stages # {}))
    \cup When(t.ageMin # Unset, Ask("age", profile.age >= t.ageMin))
    \cup When(t.ageMax # Unset, Ask("age", profile.age <= t.ageMax)))

HamActivity(t, opened) ==
  LET kinds == Ask("activityKinds", profile.activityKinds \cap t.kinds # {})
      cw    == Ask("cwWpm", profile.cwWpm >= t.cwWpm)
      open  == opened /\ t.kinds # {} /\ kinds.status = "fail"
      rest  == Every(When(t.kinds # {} /\ ~open, kinds) \cup When(t.cwWpm # Unset, cw))
  IN IF open /\ rest = Pass THEN Unknown({}) ELSE rest

FinancialNeed == IF profile.financialNeed = TRUE THEN Pass ELSE NotEvaluable

Gender(t) ==
  IF "any" \in t.allowed THEN Pass
  ELSE IF profile.gender \in {Blank, "other", "prefer_not_to_say"} THEN Unknown({"gender"})
  ELSE Decided(profile.gender \in t.allowed, Fail)

(* What an axis that asks about a person's schooling or licence makes of   *)
(* an organization; a recommendation and a note are never evaluated.       *)
EvaluateTier(t, opened) ==
  CASE t.axis = "geography"       -> Geography(t)
    [] t.axis = "arrl_membership" -> Membership(t)
    [] t.axis \in {"recommendation", "other"} -> NotEvaluable
    [] OTHER ->
         IF kind # "student" THEN NotEvaluable
         ELSE CASE t.axis = "license"        -> License(t)
                [] t.axis = "field_of_study" -> FieldOfStudy(t, opened)
                [] t.axis = "institution"    -> Institution(t)
                [] t.axis = "gpa"            -> Gpa(t)
                [] t.axis = "citizenship"    -> Citizenship(t)
                [] t.axis = "age_stage"      -> AgeStage(t)
                [] t.axis = "ham_activity"   -> HamActivity(t, opened)
                [] t.axis = "financial_need" -> FinancialNeed
                [] t.axis = "gender"         -> Gender(t)

(* Mutant: every blank of a route that could still be taken is asked for,  *)
(* and of those that failed.                                               *)
EvaluateConstraintAskingAll(c) ==
  LET base    == EvaluateTier(c.tier, c.opened)
      routes  == {base} \cup {EvaluateTier(t, c.opened) :
                              t \in {a \in c.anyOf : a.axis = c.tier.axis}}
      routed  == Either(routes)
  IN IF base.status \in {"pass", "not_evaluable"} \/ base.barred THEN base
     ELSE IF routed.status = "fail" /\ c.orUnrepresented
       THEN Unknown(IF c.tier.axis = "gpa" THEN {"gpa"} ELSE {})
     ELSE routed

(* evaluateConstraint: other tiers of the same axis, and a route the       *)
(* record names and cannot represent, widen a refusal that was not made by *)
(* name.                                                                   *)
EvaluateConstraint(c) ==
  LET base    == EvaluateTier(c.tier, c.opened)
      routes  == {base} \cup {EvaluateTier(t, c.opened) :
                              t \in {a \in c.anyOf : a.axis = c.tier.axis}}
      routed  == Either(routes)
  IN IF base.status \in {"pass", "not_evaluable"} \/ base.barred THEN base
     ELSE IF routed.status = "fail" /\ c.orUnrepresented THEN Unknown({})
     ELSE IF routes = {base} THEN base
     ELSE routed

-----------------------------------------------------------------------------
(* matchProgram.                                                           *)

(* statesARequirement: a preference nobody could miss is none.             *)
StatesARequirement(t) ==
  CASE t.axis = "license"         -> t.min > 0 \/ t.heldMonths > 0
    [] t.axis = "geography"       -> t.type # "any"
    [] t.axis = "field_of_study"  -> t.fields # {} \/ t.excluded # {}
    [] t.axis = "institution"     -> t.levels # {} \/ t.accredited \/ ~t.partTimeOK
    [] t.axis = "gpa"             -> t.min # Unset \/ t.classRank # Unset
    [] t.axis = "arrl_membership" -> t.required
    [] t.axis = "citizenship"     -> t.allowed # {} /\ "ANY" \notin t.allowed
    [] t.axis = "age_stage"       -> t.stages # {} \/ t.ageMin # Unset \/ t.ageMax # Unset
    [] t.axis = "ham_activity"    -> t.kinds # {} \/ t.cwWpm # Unset \/ t.proof
    [] t.axis = "gender"          -> "any" \notin t.allowed
    [] OTHER                      -> TRUE

Resolvable(f) == kind = "student" \/ f \notin {"county", "callDistrict"}

IsSoft(c) == ~c.hard \/ c.tier.axis = "financial_need"

Verdict ==
  LET hard == {EvaluateConstraint(c) : c \in {d \in program.constraints : ~IsSoft(d)}}
      unknowns == {r \in hard : r.status = "unknown"}
      asks(r)  == {f \in r.missing : Resolvable(f)}
      open == \/ program.entities = {} \/ program.constraints = {}
              \/ \E r \in unknowns : asks(r) = {}
      missing == UNION {asks(r) : r \in unknowns}
      met == {c \in program.constraints :
                IsSoft(c) /\ EvaluateConstraint(c) = Pass /\ StatesARequirement(c.tier)}
  IN IF program.entities # {} /\ entity \notin program.entities
       THEN [kind |-> "ineligible", missing |-> {}]
     ELSE IF \E r \in hard : r.status = "fail" THEN [kind |-> "ineligible", missing |-> {}]
     ELSE IF missing # {} \/ open THEN [kind |-> "unknown", missing |-> missing]
     ELSE [kind |-> IF met # {} THEN "eligible_preferred" ELSE "eligible", missing |-> {}]

-----------------------------------------------------------------------------
(* What a programme's constraints read of a profile.                       *)
Reads(t) ==
  CASE t.axis = "license"         -> {"licenseClass", "licensedMonths"}
    [] t.axis = "geography"       ->
         CASE t.type = "county"        -> {"county", "state"}
           [] t.type = "radius"        -> {"lat", "lon"}
           [] t.type = "call_district" -> {"callDistrict", "callsign"}
           [] OTHER                    -> {"state"}
    [] t.axis = "field_of_study"  -> {"fieldOfStudy"}
    [] t.axis = "institution"     -> {"degreeLevel", "accredited", "partTime"}
    [] t.axis = "gpa"             -> {"gpa", "classRankTopPct"}
    [] t.axis = "arrl_membership" -> {"arrlMonths", "arrlAffiliated"}
    [] t.axis = "citizenship"     -> {"citizenship"}
    [] t.axis = "age_stage"       -> {"stage", "age", "degreeLevel"}
    [] t.axis = "ham_activity"    -> {"activityKinds", "cwWpm"}
    [] t.axis = "financial_need"  -> {"financialNeed"}
    [] t.axis = "gender"          -> {"gender"}
    [] OTHER                      -> {}

Relevant ==
  FieldsOf(kind) \cap
    UNION {UNION {Reads(t) : t \in {c.tier} \cup c.anyOf} : c \in program.constraints}

(* A member fills in a blank the programme has to do with, asked or not.   *)
FillIn(f, answer) ==
  /\ profile[f] = Blank
  /\ profile' = [profile EXCEPT ![f] = answer]
  /\ UNCHANGED <<program, kind, entity>>

MatchInit ==
  /\ program \in Catalogue
  /\ kind \in {"student", "organization"}
  /\ entity \in IF kind = "student" THEN {"individual"} ELSE {"club", "school"}
  /\ profile = [f \in FieldsOf(kind) |-> Blank]

MatchNext == \E f \in Relevant : \E answer \in Answers[f] : FillIn(f, answer)

MatchSpec == MatchInit /\ [][MatchNext]_matchVars

-----------------------------------------------------------------------------
(* The profile has the fields of its kind, each blank or answered.         *)
MatchTypeOK ==
  /\ program \in Catalogue
  /\ kind \in {"student", "organization"}
  /\ entity \in IF kind = "student" THEN {"individual"} ELSE {"club", "school"}
  /\ DOMAIN profile = FieldsOf(kind)
  /\ \A f \in FieldsOf(kind) : profile[f] = Blank \/ profile[f] \in Answers[f]

Eligible == Verdict.kind \in {"eligible", "eligible_preferred"}

(* The two answers that are more than an answer to a blank: the level of a *)
(* status that was taken to be held at any, and a call district stated     *)
(* over the one the callsign implied.                                      *)
Overrules ==
  /\ kind = "student"
  /\ \/ profile.degreeLevel # profile'.degreeLevel /\ profile'.stage \in StatusStages
     \/ profile.callDistrict # profile'.callDistrict /\ profile.callsign # Blank

(* A verdict that rules somebody in or out was not a guess: no blank that  *)
(* is filled in later takes it back.                                       *)
DecidedIsFinal ==
  [][~Overrules => /\ Eligible => Eligible'
                   /\ Verdict.kind = "ineligible" => Verdict'.kind = "ineligible"]_matchVars

(* The editor is only ever sent to a field the profile has and has not     *)
(* answered, or not so as to settle anything.                              *)
Unsettled(f) ==
  CASE f = "gender"       -> profile.gender \in {Blank, "other", "prefer_not_to_say"}
    [] f = "fieldOfStudy" -> profile[f] = Blank \/ Words(profile[f]) = {}
    [] OTHER              -> profile[f] = Blank

QuestionsAreOpen ==
  \A f \in Verdict.missing : f \in FieldsOf(kind) /\ Unsettled(f)

(* "Nothing you could fill in would change that" is true wherever the      *)
(* badge says it (a route nobody can represent has a sentence of its own), *)
(* of everything but an organization's callsign: its call district is      *)
(* dropped as a field it does not have, although its callsign would imply  *)
(* one.                                                                    *)
Unrepresented == \E c \in program.constraints : c.orUnrepresented

NothingToFillInIsFinal ==
  [][~Overrules /\ ~Unrepresented
       /\ ~(kind = "organization" /\ profile.callsign # profile'.callsign) =>
       (Verdict = [kind |-> "unknown", missing |-> {}] => Verdict' = Verdict)]_matchVars
=============================================================================
