------------------------------- MODULE MCMatcher -------------------------------
(* Every axis by itself in each of its forms, hard and soft, with another  *)
(* tier beside it, and pairs of axes.                                      *)
EXTENDS Matcher, TLC

MCDistrictOf == ("W1AW" :> "1") @@ ("G4ABC" :> Blank)

MCAnswers ==
  [f \in StudentFields \cup OrgFields |->
     CASE f = "callsign"        -> {"W1AW", "G4ABC"}
       [] f = "licenseClass"    -> 0..3
       [] f \in {"licensedMonths", "arrlMonths"} -> {0, 11, 12, 36}
       [] f = "state"           -> {"CT", "NY"}
       [] f = "county"          -> {"Essex", "Kings"}
       [] f \in {"lat", "lon"}  -> {"near", "far"}
       [] f = "callDistrict"    -> {"1", "2"}
       [] f = "fieldOfStudy"    -> {{}, {"degree"}, {"ee"}, {"ee", "tech"}, {"law", "degree"}}
       [] f = "degreeLevel"     -> {"ASSOC", "BACH", "GRAD"}
       [] f \in {"accredited", "partTime", "arrlAffiliated", "financialNeed"} -> BOOLEAN
       [] f \in {"gpa", "classRankTopPct"} -> 1..3
       [] f = "citizenship"     -> {"US_CITIZEN", "US_RESIDENT", "OTHER"}
       [] f = "age"             -> {17, 18, 26}
       [] f = "stage"           -> {"HS_SENIOR", "UNDERGRAD", "GRAD", "VETERAN"}
       [] f = "activityKinds"   -> {{}, {"cw"}, {"contest", "cw"}}
       [] f = "cwWpm"           -> {5, 20}
       [] f = "gender"          -> {"female", "male", "other", "prefer_not_to_say"}]

Licenses == [axis : {"license"}, min : {0, 2}, heldMonths : {0, 12}]
Places ==
  {[axis |-> "geography", type |-> "any", values |-> {}],
   [axis |-> "geography", type |-> "state", values |-> {"CT"}],
   [axis |-> "geography", type |-> "county", values |-> {[county |-> "Essex", state |-> "NY"]}],
   [axis |-> "geography", type |-> "county",
    values |-> {[county |-> "Kings", state |-> Unset], [county |-> "Essex", state |-> "CT"]}],
   [axis |-> "geography", type |-> "radius", values |-> {<<"near", "near">>}, measurable |-> TRUE],
   [axis |-> "geography", type |-> "radius", values |-> {}, measurable |-> FALSE],
   [axis |-> "geography", type |-> "call_district", values |-> {"1"}]}
Subjects ==
  [axis : {"field_of_study"}, fields : SUBSET {{"ee"}, {"any", "degree"}, {"related", "technical"}},
   excluded : {{}, {{"law"}}, {{"tech"}}}]
Schools ==
  [axis : {"institution"}, levels : {{}, {"BACH"}}, accredited : BOOLEAN, partTimeOK : BOOLEAN]
Grades      == [axis : {"gpa"}, min : {Unset, 2}, classRank : {Unset, 2}]
Memberships == [axis : {"arrl_membership"}, required : BOOLEAN, minYears : {0, 1}]
Nations     == [axis : {"citizenship"}, allowed : {{"ANY"}, {"US_CITIZEN"}, {"US_RESIDENT"}}]
Ages ==
  [axis : {"age_stage"}, stages : {{}, {"GRAD"}, {"HS_SENIOR", "UNDERGRAD"}},
   ageMin : {Unset, 18}, ageMax : {Unset, 25}]
Hams    == [axis : {"ham_activity"}, kinds : {{}, {"contest"}}, cwWpm : {Unset, 13},
            proof : BOOLEAN]
Genders == [axis : {"gender"}, allowed : {{"any"}, {"female"}}]
Others  == [axis : {"recommendation", "other", "financial_need"}]

Tiers == Licenses \cup Places \cup Subjects \cup Schools \cup Grades \cup Memberships
           \cup Nations \cup Ages \cup Hams \cup Genders \cup Others

Constraint(hard, tier, anyOf, orUnrepresented, opened) ==
  [hard |-> hard, tier |-> tier, anyOf |-> anyOf,
   orUnrepresented |-> orUnrepresented, opened |-> opened]

One(hard, tier) == Constraint(hard, tier, {}, FALSE, FALSE)

OpenAxes == {"field_of_study", "ham_activity"}

Record(constraints) == [entities |-> {"individual", "club"}, constraints |-> constraints]

(* The other tiers the extractors write: another licence, another place,   *)
(* the subjects of another sentence, which repeat what is excluded.        *)
Beside(t) ==
  {u \in Tiers : u.axis = t.axis /\ (t.axis = "field_of_study" => u.excluded = t.excluded)}

MCCatalogue ==
  {[entities |-> e, constraints |-> {}] : e \in {{}, {"individual", "club"}}}
    \cup {[entities |-> {}, constraints |-> {One(TRUE, t)}] : t \in Grades \cup Places}
    \cup {Record({One(h, t)}) : h \in BOOLEAN, t \in Tiers}
    \cup {Record({Constraint(TRUE, t, {}, FALSE, TRUE)}) :
            t \in {u \in Tiers : u.axis \in OpenAxes}}
    \cup {Record({Constraint(TRUE, t, {}, TRUE, FALSE)}) :
            t \in Grades \cup Ages \cup Schools \cup Places}
    \cup UNION {{Record({Constraint(TRUE, t, {u}, w, FALSE)}) : u \in Beside(t), w \in BOOLEAN} :
            t \in Licenses \cup Places \cup Subjects}
    \cup {Record({One(TRUE, t), One(h, u)}) :
            h \in BOOLEAN, t \in Grades \cup Memberships, u \in Places \cup Ages}
=============================================================================
