------------------------- MODULE CallsignLookupProofs -------------------------
(***************************************************************************)
(* The two halves of the callsign lookup.                                  *)
(* First CallsignSource, the question to callook.info, for any number of   *)
(* users, presses, rations and waits: it is asked one at a time, never     *)
(* before the hold it was given has run out, and charged to who asked it.  *)
(* Then ProfileForm, what is made of the answer, for any kinds, callsigns, *)
(* records and things typed: what is credited to a record is what the      *)
(* record of that callsign states.                                         *)
(***************************************************************************)
EXTENDS CallsignSource, ProfileForm, TLAPS


(* The hold kept is never shorter than what the source still asks for:     *)
(* neither the floor, the cap nor an earlier, longer hold loses any of it. *)
HoldCovers == owed <= hold

SourceInv == TypeOK /\ OneQuestionAtATime /\ HoldCovers

(* Clamp keeps a wait within the cap and loses nothing the cap leaves.     *)
LEMMA ClampBounds ==
  ASSUME NEW wait \in Nat
  PROVE  /\ Clamp(wait) \in 0..CapWait
         /\ Smaller(CapWait, wait) \in 0..CapWait
         /\ Smaller(CapWait, wait) <= Clamp(wait)
BY CallsignAssumption DEF CallsignAssumption, Clamp, Smaller, Larger

(* However askTheSource ends, its lane is the one that was taken.          *)
LEMMA SettledKeepsOne ==
  ASSUME TypeOK, OneQuestionAtATime, NEW p \in Presses, phase[p] # "idle",
         Settled(p)
  PROVE  /\ phase' \in [Presses -> Phases]
         /\ age' \in [Presses -> 0..Timeout]
         /\ asking' \in BOOLEAN
         /\ OneQuestionAtATime'
<1>1. phase' \in [Presses -> Phases] /\ asking' = FALSE
  BY DEF TypeOK, Settled, Phases
<1>2. age' \in [Presses -> 0..Timeout]
  BY CallsignAssumption DEF TypeOK, Settled, CallsignAssumption
<1>3. InFlight = {p}
  BY DEF OneQuestionAtATime, InFlight
<1>4. InFlight' = {}
  BY <1>3 DEF TypeOK, Settled, InFlight
<1> QED
  BY <1>1, <1>2, <1>4 DEF OneQuestionAtATime

(* A question that is sent finds no other in flight.                       *)
LEMMA SendsKeepsOne ==
  ASSUME TypeOK, OneQuestionAtATime, NEW p \in Presses, phase[p] = "idle",
         ~asking, Sends(p)
  PROVE  /\ phase' \in [Presses -> Phases]
         /\ age' \in [Presses -> 0..Timeout]
         /\ asking' \in BOOLEAN
         /\ OneQuestionAtATime'
  BY CallsignAssumption
     DEF TypeOK, OneQuestionAtATime, InFlight, Sends, Phases, CallsignAssumption

(* The owner of a press is a user.                                         *)
LEMMA OwnersAreUsers == \A p \in Presses : Owner[p] \in Users
BY DEF Users

-----------------------------------------------------------------------------
LEMMA InitHolds == Init => SourceInv
<1> SUFFICES ASSUME Init PROVE SourceInv
  OBVIOUS
<1>1. TypeOK
  <2>1. 0 \in 0..Ration /\ 0 \in 0..Timeout /\ 0 \in 0..CapWait
    BY CallsignAssumption DEF CallsignAssumption
  <2> QED
    BY <2>1 DEF Init, TypeOK, Phases
<1>2. OneQuestionAtATime
  BY DEF Init, OneQuestionAtATime, InFlight
<1>3. HoldCovers
  BY DEF Init, HoldCovers
<1> QED
  BY <1>1, <1>2, <1>3 DEF SourceInv

LEMMA StepHolds == SourceInv /\ [Next]_vars => SourceInv'
<1> SUFFICES ASSUME SourceInv, [Next]_vars PROVE SourceInv'
  OBVIOUS
<1> USE CallsignAssumption DEF CallsignAssumption
<1>0. TypeOK /\ OneQuestionAtATime /\ HoldCovers
  BY DEF SourceInv
<1>1. ASSUME UNCHANGED vars PROVE SourceInv'
  BY <1>0, <1>1 DEF vars, SourceInv, TypeOK, OneQuestionAtATime, HoldCovers, InFlight
<1>2. ASSUME NEW p \in Presses, NEW kind \in PressKinds, PressRefused(p, kind)
      PROVE  SourceInv'
  BY <1>1, <1>2 DEF PressRefused
<1>3. ASSUME NEW p \in Presses, PressRationed(p) PROVE SourceInv'
  BY <1>1, <1>3 DEF PressRationed
<1>4. ASSUME NEW p \in Presses, PressSends(p) PROVE SourceInv'
  <2>1. ~asking /\ phase[p] = "idle" /\ Sends(p)
    BY <1>4 DEF PressSends, WouldReach
  <2>2. /\ phase' \in [Presses -> Phases] /\ age' \in [Presses -> 0..Timeout]
        /\ asking' \in BOOLEAN /\ OneQuestionAtATime'
    BY <1>0, <2>1, SendsKeepsOne
  <2>3. spent' \in [Users -> 0..Ration]
    BY <1>0, <1>4, OwnersAreUsers DEF PressSends, TypeOK
  <2>4. hold' \in 0..CapWait /\ owed' \in 0..CapWait /\ HoldCovers'
    BY <1>0, <1>4 DEF PressSends, TypeOK, HoldCovers
  <2> QED
    BY <2>2, <2>3, <2>4 DEF SourceInv, TypeOK
<1>5. ASSUME NEW p \in Presses, PressAtHoldEnd(p) PROVE SourceInv'
  <2>1. ~asking /\ phase[p] = "idle" /\ Sends(p)
    BY <1>5 DEF PressAtHoldEnd
  <2>2. /\ phase' \in [Presses -> Phases] /\ age' \in [Presses -> 0..Timeout]
        /\ asking' \in BOOLEAN /\ OneQuestionAtATime'
    BY <1>0, <2>1, SendsKeepsOne
  <2>3. /\ hold' \in 0..CapWait /\ owed' \in 0..CapWait /\ HoldCovers'
        /\ spent' \in [Users -> 0..Ration]
    BY <1>0, <1>5 DEF PressAtHoldEnd, TypeOK, HoldCovers
  <2> QED
    BY <2>2, <2>3 DEF SourceInv, TypeOK
<1>6. ASSUME NEW p \in Presses, phase[p] # "idle", Settled(p),
             UNCHANGED <<hold, spent, owed>>
      PROVE  SourceInv'
  <2>1. /\ phase' \in [Presses -> Phases] /\ age' \in [Presses -> 0..Timeout]
        /\ asking' \in BOOLEAN /\ OneQuestionAtATime'
    BY <1>0, <1>6, SettledKeepsOne
  <2> QED
    BY <1>0, <1>6, <2>1 DEF SourceInv, TypeOK, HoldCovers
<1>7. ASSUME NEW p \in Presses, SourceAnswers(p) PROVE SourceInv'
  <2>1. CASE TransportFails(p)
    BY <1>6, <2>1 DEF TransportFails
  <2>2. CASE NotARecord(p)
    BY <1>6, <2>2 DEF NotARecord
  <2>3. CASE BodyEnds(p)
    BY <1>6, <2>3 DEF BodyEnds
  <2>4. CASE BodyFollows(p)
    BY <1>0, <2>4
       DEF BodyFollows, SourceInv, TypeOK, OneQuestionAtATime, HoldCovers,
           InFlight, Phases
  <2>5. ASSUME NEW status \in {429, 503}, NEW wait \in Nat,
               AskedToWait(p, status, wait)
        PROVE  SourceInv'
    <3>1. phase[p] # "idle" /\ Settled(p)
      BY <2>5 DEF AskedToWait
    <3>2. /\ phase' \in [Presses -> Phases] /\ age' \in [Presses -> 0..Timeout]
          /\ asking' \in BOOLEAN /\ OneQuestionAtATime'
      BY <1>0, <3>1, SettledKeepsOne
    <3>3. hold' \in 0..CapWait /\ owed' \in 0..CapWait /\ HoldCovers'
      BY <1>0, <2>5, ClampBounds DEF AskedToWait, TypeOK, HoldCovers, Larger
    <3> QED
      BY <1>0, <2>5, <3>2, <3>3 DEF AskedToWait, SourceInv, TypeOK
  <2>6. CASE Asks(p)
    BY <2>5, <2>6 DEF Asks
  <2> QED
    BY <1>7, <2>1, <2>2, <2>3, <2>4, <2>6 DEF SourceAnswers
<1>8. ASSUME Tick PROVE SourceInv'
  <2>1. age' \in [Presses -> 0..Timeout]
    BY <1>0, <1>8 DEF Tick, TypeOK, InFlight
  <2>2. hold' \in 0..CapWait /\ owed' \in 0..CapWait /\ HoldCovers'
    BY <1>0, <1>8 DEF Tick, TypeOK, HoldCovers
  <2> QED
    BY <1>0, <1>8, <2>1, <2>2
       DEF Tick, SourceInv, TypeOK, OneQuestionAtATime, InFlight
<1>9. ASSUME NEW u \in Users, WindowPasses(u) PROVE SourceInv'
  BY <1>0, <1>9
     DEF WindowPasses, SourceInv, TypeOK, OneQuestionAtATime, HoldCovers, InFlight
<1>10. ASSUME Restart PROVE SourceInv'
  <2>1. 0 \in 0..Ration /\ 0 \in 0..Timeout /\ 0 \in 0..CapWait
    OBVIOUS
  <2>2. TypeOK'
    BY <1>10, <2>1 DEF Restart, TypeOK, Phases
  <2>3. OneQuestionAtATime' /\ HoldCovers'
    BY <1>10 DEF Restart, OneQuestionAtATime, HoldCovers, InFlight
  <2> QED
    BY <2>2, <2>3 DEF SourceInv
<1> QED
  BY <1>1, <1>2, <1>3, <1>4, <1>5, <1>7, <1>8, <1>9, <1>10 DEF Next

THEOREM SourceInvariant == Spec => []SourceInv
BY InitHolds, StepHolds, PTL DEF Spec

(* The lookup's variables keep their types: the hold stays within its cap, *)
(* a ration within its ceiling, and no wait outlasts its AbortSignal.      *)
THEOREM SourceTypeCorrect == Spec => []TypeOK
<1>1. SourceInv => TypeOK
  BY DEF SourceInv
<1> QED
  BY SourceInvariant, <1>1, PTL

(* One question is in flight at most, and the lane says so.                *)
THEOREM OneQuestion == Spec => []OneQuestionAtATime
<1>1. SourceInv => OneQuestionAtATime
  BY DEF SourceInv
<1> QED
  BY SourceInvariant, <1>1, PTL

-----------------------------------------------------------------------------
(* Which steps take the lane.                                              *)
LEMMA WhoAsks ==
  ASSUME SourceInv, [Next]_vars, asking', ~asking
  PROVE  \E p \in Presses : PressSends(p) \/ PressAtHoldEnd(p)
<1>1. CASE UNCHANGED vars
  BY <1>1 DEF vars
<1>2. ASSUME NEW p \in Presses, NEW kind \in PressKinds, PressRefused(p, kind)
      PROVE  FALSE
  BY <1>2 DEF PressRefused, vars
<1>3. ASSUME NEW p \in Presses, PressRationed(p) PROVE FALSE
  BY <1>3 DEF PressRationed, vars
<1>4. ASSUME NEW p \in Presses, SourceAnswers(p) PROVE FALSE
  BY <1>4 DEF SourceAnswers, TransportFails, Asks, AskedToWait, NotARecord,
              BodyFollows, BodyEnds, Settled
<1>5. ASSUME Tick PROVE FALSE
  BY <1>5 DEF Tick
<1>6. ASSUME NEW u \in Users, WindowPasses(u) PROVE FALSE
  BY <1>6 DEF WindowPasses
<1>7. ASSUME Restart PROVE FALSE
  BY <1>7 DEF Restart
<1> QED
  BY <1>1, <1>2, <1>3, <1>4, <1>5, <1>6, <1>7 DEF Next

(* No question is put to callook.info while what it last asked this        *)
(* process to wait has not passed.                                         *)
THEOREM HoldsAreHonoured == Spec => HoldIsHonoured
<1>1. SourceInv /\ [Next]_vars => [asking' /\ ~asking => owed' = 0]_vars
  <2> SUFFICES ASSUME SourceInv, [Next]_vars, asking', ~asking
               PROVE  owed' = 0
    OBVIOUS
  <2>1. PICK p \in Presses : PressSends(p) \/ PressAtHoldEnd(p)
    BY WhoAsks
  <2>2. hold \in Nat /\ owed \in Nat /\ owed <= hold
    BY CallsignAssumption DEF SourceInv, TypeOK, HoldCovers, CallsignAssumption
  <2>3. CASE PressSends(p)
    BY <2>2, <2>3 DEF PressSends, WouldReach
  <2>4. CASE PressAtHoldEnd(p)
    BY <2>2, <2>4 DEF PressAtHoldEnd
  <2> QED
    BY <2>1, <2>3, <2>4
<1> QED
  BY SourceInvariant, <1>1, PTL DEF Spec, HoldIsHonoured

-----------------------------------------------------------------------------
(* A press sends a question.                                               *)
Asked(u) == \E p \in Presses : /\ Owner[p] = u
                               /\ phase[p] = "idle" /\ phase'[p] = "transport"

(* A step that sends nothing and charges nobody is as it should be.        *)
LEMMA NoQuestionNoCharge ==
  ASSUME \A p \in Presses : phase[p] = "idle" => phase'[p] # "transport",
         \A u \in Users : ~(spent'[u] > spent[u])
  PROVE  \A u \in Users : spent'[u] > spent[u] <=> hold = 0 /\ Asked(u)
BY DEF Asked

(* A ration is charged by the press that sends a question, and by no other.*)
THEOREM QuestionsAreCharged == Spec => ChargedIffAsked
<1>1. SourceInv /\ [Next]_vars =>
        [\A u \in Users : spent'[u] > spent[u] <=> hold = 0 /\ Asked(u)]_vars
  <2> SUFFICES ASSUME SourceInv, Next
               PROVE  \A u \in Users : spent'[u] > spent[u] <=> hold = 0 /\ Asked(u)
    OBVIOUS
  <2>0. /\ phase \in [Presses -> Phases]
        /\ spent \in [Users -> Nat]
        /\ hold \in Nat
    BY CallsignAssumption DEF SourceInv, TypeOK, CallsignAssumption
  <2>1. ASSUME phase' = phase, spent' = spent
        PROVE  \A u \in Users : spent'[u] > spent[u] <=> hold = 0 /\ Asked(u)
    BY <2>0, <2>1, NoQuestionNoCharge
  <2>2. ASSUME NEW p \in Presses, NEW kind \in PressKinds, PressRefused(p, kind)
        PROVE  \A u \in Users : spent'[u] > spent[u] <=> hold = 0 /\ Asked(u)
    BY <2>1, <2>2 DEF PressRefused, vars
  <2>3. ASSUME NEW p \in Presses, PressRationed(p)
        PROVE  \A u \in Users : spent'[u] > spent[u] <=> hold = 0 /\ Asked(u)
    BY <2>1, <2>3 DEF PressRationed, vars
  <2>4. ASSUME NEW p \in Presses, PressSends(p)
        PROVE  \A u \in Users : spent'[u] > spent[u] <=> hold = 0 /\ Asked(u)
    <3>1. /\ hold = 0 /\ phase[p] = "idle"
          /\ phase' = [phase EXCEPT ![p] = "transport"]
          /\ spent' = [spent EXCEPT ![Owner[p]] = spent[Owner[p]] + 1]
      BY <2>4 DEF PressSends, WouldReach, Sends
    <3>2. ASSUME NEW u \in Users
          PROVE  /\ Asked(u) <=> u = Owner[p]
                 /\ spent'[u] > spent[u] <=> u = Owner[p]
      <4>1. Asked(u) <=> u = Owner[p]
        BY <2>0, <3>1 DEF Asked
      <4>2. CASE u = Owner[p]
        BY <2>0, <3>1, <4>1, <4>2
      <4>3. CASE u # Owner[p]
        BY <2>0, <3>1, <4>1, <4>3
      <4> QED
        BY <4>2, <4>3
    <3> QED
      BY <3>1, <3>2
  <2>5. ASSUME NEW p \in Presses, PressAtHoldEnd(p)
        PROVE  \A u \in Users : spent'[u] > spent[u] <=> hold = 0 /\ Asked(u)
    BY <2>0, <2>5 DEF PressAtHoldEnd
  <2>6. ASSUME NEW p \in Presses, SourceAnswers(p)
        PROVE  \A u \in Users : spent'[u] > spent[u] <=> hold = 0 /\ Asked(u)
    <3>1. spent' = spent
      BY <2>6 DEF SourceAnswers, TransportFails, Asks, AskedToWait, NotARecord,
                  BodyFollows, BodyEnds
    <3>2. \A q \in Presses : phase[q] = "idle" => phase'[q] # "transport"
      BY <2>0, <2>6 DEF SourceAnswers, TransportFails, Asks, AskedToWait, NotARecord,
                  BodyFollows, BodyEnds, Settled
    <3> QED
      BY <2>0, <3>1, <3>2, NoQuestionNoCharge
  <2>7. ASSUME Tick
        PROVE  \A u \in Users : spent'[u] > spent[u] <=> hold = 0 /\ Asked(u)
    BY <2>1, <2>7 DEF Tick
  <2>8. ASSUME NEW v \in Users, WindowPasses(v)
        PROVE  \A u \in Users : spent'[u] > spent[u] <=> hold = 0 /\ Asked(u)
    <3>1. phase' = phase /\ \A u \in Users : ~(spent'[u] > spent[u])
      BY <2>0, <2>8 DEF WindowPasses
    <3> QED
      BY <3>1, NoQuestionNoCharge
  <2>9. ASSUME Restart
        PROVE  \A u \in Users : spent'[u] > spent[u] <=> hold = 0 /\ Asked(u)
    <3>1. /\ \A q \in Presses : phase'[q] # "transport"
          /\ \A u \in Users : ~(spent'[u] > spent[u])
      BY <2>0, <2>9 DEF Restart
    <3> QED
      BY <3>1, NoQuestionNoCharge
  <2> QED
    BY <2>2, <2>3, <2>4, <2>5, <2>6, <2>7, <2>8, <2>9 DEF Next
<1>2. SourceInv /\ [Next]_vars =>
        [\A u \in Users :
           spent'[u] > spent[u]
             <=> /\ hold = 0
                 /\ \E p \in Presses : /\ Owner[p] = u
                                       /\ phase[p] = "idle" /\ phase'[p] = "transport"]_vars
  BY <1>1 DEF Asked
<1> QED
  BY SourceInvariant, <1>2, PTL DEF Spec, ChargedIffAsked

-----------------------------------------------------------------------------
(***************************************************************************)
(* The profile form: its inductive invariant.                              *)
(***************************************************************************)

(* A record found is one some lookup finds.                                *)
PanelIsARecord ==
  panel.phase = "found" => \E d \in Callsigns : Licence[d] # None /\ Licence[d] = panel.record

(* A mark is what the record read for this kind states; so is the          *)
(* unattributed coordinate, while nothing is amiss.                        *)
SourcesTrue(k) ==
  /\ \A f \in Fields : sources[k].marks[f] # None =>
       /\ f \in Marked /\ sources[k].marks[f] # Blank
       /\ Stated(sources[k].readFor, f, sources[k].marks[f])
  /\ k \notin amiss /\ sources[k].unattributed # None =>
       /\ sources[k].unattributed # Blank
       /\ Stated(sources[k].readFor, "lat", sources[k].unattributed)

(* What a record put in a box is marked: the comparisons agree with the    *)
(* history.                                                                *)
BoxesTrue(k) ==
  /\ drafts[k]["state"].by \in Callsigns =>
       /\ drafts[k]["state"].by = sources[k].readFor
       /\ LookedUp(drafts[k], sources[k].marks["state"], "state")
  /\ k \notin amiss /\ drafts[k]["lat"].by \in Callsigns =>
       drafts[k]["lat"].value = sources[k].unattributed

(* A profile's marks are about its own callsign and its own values.        *)
ProfileTrue(profile) ==
  LET fields == profile.fields
      c == fields["callsign"].value
  IN /\ \A f \in Fields : profile.marks[f] # None =>
          /\ f \in Marked /\ LookedUp(fields, profile.marks[f], f)
          /\ Stated(c, f, profile.marks[f])
     /\ fields["state"].by \in Callsigns /\ (profile.marks["state"] # None \/ fields["state"].by = c) =>
          fields["state"].by = c /\ profile.marks["state"] # None

(* The save in flight is such a profile, and its coordinate is still the   *)
(* one its kind keeps as the record's.                                     *)
SavingTrue ==
  saving # None =>
    /\ ProfileTrue(saving.payload)
    /\ saving.kind \notin amiss /\ saving.payload.fields["lat"].by \in Callsigns =>
         saving.payload.fields["lat"].value = sources[saving.kind].unattributed

FormInv ==
  /\ FormTypeOK
  /\ PanelIsARecord
  /\ \A k \in Kinds : SourcesTrue(k) /\ BoxesTrue(k)
  /\ \A k \in Kinds : stored[k] # None => ProfileTrue(stored[k])
  /\ SavingTrue

-----------------------------------------------------------------------------
(* What is typed is a value, and in the callsign box a callsign.           *)
LEMMA TypedIsAValue ==
  ASSUME NEW f \in Fields, NEW v \in Typed[f]
  PROVE  /\ v \in Values
         /\ f = "callsign" => v \in Callsigns \cup {Blank}
BY FormAssumption DEF Values

LEMMA DistrictIsAValue ==
  ASSUME NEW c \in Callsigns \cup {Blank}
  PROVE  District(c) \in Values
<1>1. CASE c = Blank
  BY <1>1 DEF District, Values
<1>2. CASE c # Blank
  <2>1. DistrictOf[c] \in {DistrictOf[d] : d \in Callsigns}
    BY <1>2
  <2>2. {DistrictOf[d] : d \in Callsigns} \subseteq Values
    BY DEF Values
  <2> QED
    BY <1>2, <2>1, <2>2 DEF District
<1> QED
  BY <1>1, <1>2

(* The boxes of every kind, and those only a student has.                  *)
LEMMA BoxesOfAKind ==
  ASSUME NEW k
  PROVE  /\ OnProfile(k) \subseteq Fields
         /\ {"callsign", "state", "lat"} \subseteq OnProfile(k)
         /\ k = "student" => "callDistrict" \in OnProfile(k)
         /\ k # "student" => "callDistrict" \notin OnProfile(k)
BY DEF OnProfile, Fields

(* What a lookup finds states values about a callsign.                     *)
LEMMA RecordStatesValues ==
  ASSUME NEW record \in Records
  PROVE  /\ record.callsign \in Callsigns /\ record.callsign # Blank
         /\ record.callsign \in Values
         /\ record.state \in Values /\ record.lat \in Values
<1>1. record.callsign \in Callsigns /\ record.state \in Typed["state"] /\ record.lat \in Typed["lat"]
  BY DEF Records
<1>2. record.state \in Values /\ record.lat \in Values
  BY <1>1, TypedIsAValue DEF Fields
<1> QED
  BY <1>1, <1>2, FormAssumption DEF Values

(* setValue leaves boxes of the kind.                                      *)
LEMMA SetIsADraft ==
  ASSUME NEW k, IsDraft(k, drafts[k]), NEW f \in OnProfile(k), NEW v \in Typed[f]
  PROVE  /\ IsDraft(k, Set(k, f, v))
         /\ \A g \in {"callsign", "state", "lat"} :
              Set(k, f, v)[g] = drafts[k][g] \/ Set(k, f, v)[g].by = You
<1> DEFINE draft == drafts[k]
           next  == [draft EXCEPT ![f] = Box(v, You)]
           c     == next["callsign"].value
<1>1. f \in Fields /\ v \in Values /\ (f = "callsign" => v \in Callsigns \cup {Blank})
  BY BoxesOfAKind, TypedIsAValue
<1>2. draft \in [OnProfile(k) -> Boxes] /\ draft["callsign"].value \in Callsigns \cup {Blank}
  BY DEF IsDraft
<1>3. Box(v, You) \in Boxes /\ Box(v, You).by = You /\ Box(v, You).value = v
  BY <1>1 DEF Box, Boxes
<1>4. next \in [OnProfile(k) -> Boxes]
  BY <1>2, <1>3
<1>5. c \in Callsigns \cup {Blank}
  BY <1>1, <1>2, <1>3, BoxesOfAKind
<1>6. \A g \in OnProfile(k) : next[g] = draft[g] \/ next[g].by = You
  BY <1>2, <1>3
<1>7. CASE Set(k, f, v) = next
  BY <1>4, <1>5, <1>6, <1>7, BoxesOfAKind DEF IsDraft
<1>8. CASE Set(k, f, v) # next
  <2> DEFINE last == [next EXCEPT !["callDistrict"] = Box(District(c), Computed)]
  <2>1. Set(k, f, v) = last
    BY <1>8 DEF Set
  <2>2. Box(District(c), Computed) \in Boxes
    BY <1>5, DistrictIsAValue DEF Box, Boxes
  <2>3. last \in [OnProfile(k) -> Boxes]
    BY <1>4, <2>2
  <2>4. \A g \in {"callsign", "state", "lat"} : last[g] = next[g]
    BY <1>4, BoxesOfAKind
  <2> QED
    BY <1>5, <1>6, <2>1, <2>3, <2>4, BoxesOfAKind DEF IsDraft
<1> QED
  BY <1>7, <1>8

(* What the panel holds, by its phase.                                     *)
LEMMA PanelShapes ==
  ASSUME panel \in Panels
  PROVE  /\ panel.phase = "busy" => panel.asked \in Callsigns
         /\ panel.phase = "found" =>
              /\ panel \in [phase : {"found"}, record : Records, confirmed : BOOLEAN]
              /\ panel.record \in Records
BY DEF Panels, Closed

LEMMA ValuesAreNotNone ==
  /\ \A v \in Values : v # None
  /\ Blank \in Values /\ Blank # None
BY FormAssumption DEF Values

LEMMA FieldNames ==
  /\ {"callsign", "state", "lat", "callDistrict"} = Fields
  /\ Marked = {"callsign", "state"}
  /\ Unmarked \in AllMarks /\ \A f \in Fields : Unmarked[f] = None
BY DEF Fields, Marked, Unmarked, AllMarks

(* "Use these values" leaves boxes of the kind: this record's callsign,    *)
(* and in the others what is used, nothing, or what stood there unmarked.  *)
LEMMA AcceptIsADraft ==
  ASSUME IsDraft(tab, drafts[tab]),
         NEW record \in Records, NEW state \in Typed["state"], NEW lat \in Typed["lat"]
  PROVE  LET values == Filled(record, state, lat)
             draft  == AcceptedDraft(record, values)
         IN /\ IsDraft(tab, draft)
            /\ draft["callsign"] = Box(record.callsign, record.callsign)
            /\ "callDistrict" \in OnProfile(tab) => draft["callDistrict"].by = Computed
            /\ \A f \in {"state", "lat"} :
                 IF values[f] # Blank THEN draft[f] = Box(values[f], By(record, values, f))
                 ELSE IF f \in Vacated(tab, values) THEN draft[f] = Nobody
                 ELSE draft[f] = drafts[tab][f]
<1> DEFINE values == Filled(record, state, lat)
           draft  == AcceptedDraft(record, values)
<1>1. /\ record.callsign \in Callsigns /\ record.callsign # Blank
      /\ state \in Values /\ lat \in Values /\ record.callsign \in Values
  BY RecordStatesValues, TypedIsAValue, FieldNames
<1>2. /\ DOMAIN values = {"callsign", "state", "lat"}
      /\ values["callsign"] = record.callsign /\ values["state"] = state /\ values["lat"] = lat
  BY DEF Filled
<1>0. \A f \in Vacated(tab, values) : f \in {"state", "lat"} /\ values[f] = Blank
  BY DEF Vacated
<1>3. draft["callsign"] = Box(record.callsign, record.callsign)
  BY <1>0, <1>1, <1>2, BoxesOfAKind DEF AcceptedDraft, By
<1>4. "callDistrict" \in OnProfile(tab) =>
        draft["callDistrict"] = Box(District(record.callsign), Computed)
  BY <1>0, <1>2 DEF AcceptedDraft
<1>5. \A f \in {"state", "lat"} :
        IF values[f] # Blank THEN draft[f] = Box(values[f], By(record, values, f))
        ELSE IF f \in Vacated(tab, values) THEN draft[f] = Nobody
        ELSE draft[f] = drafts[tab][f]
  BY <1>0, <1>2, BoxesOfAKind DEF AcceptedDraft
<1>6. /\ Box(record.callsign, record.callsign) \in Boxes
      /\ Box(District(record.callsign), Computed) \in Boxes
      /\ Nobody \in Boxes
      /\ \A f \in {"state", "lat"} : Box(values[f], By(record, values, f)) \in Boxes
  BY <1>1, <1>2, DistrictIsAValue, ValuesAreNotNone DEF Box, Boxes, Nobody, By
<1>7. \A f \in OnProfile(tab) : draft[f] \in Boxes
  BY <1>3, <1>4, <1>5, <1>6, BoxesOfAKind, FieldNames DEF IsDraft
<1>8. draft \in [OnProfile(tab) -> Boxes]
  <2>1. draft = [f \in OnProfile(tab) |-> draft[f]]
    BY DEF AcceptedDraft
  <2> HIDE DEF draft
  <2> QED
    BY <1>7, <2>1
<1>9. draft["callsign"].value = record.callsign
  BY <1>3 DEF Box
<1> QED
  BY <1>1, <1>3, <1>4, <1>5, <1>8, <1>9 DEF IsDraft, Box

(* The marks kept of some marks are marks.                                 *)
LEMMA PruneIsMarks ==
  ASSUME NEW draft, NEW marks \in AllMarks
  PROVE  /\ Prune(draft, marks) \in AllMarks
         /\ \A f \in Fields : Prune(draft, marks)[f] # None =>
              Prune(draft, marks)[f] = marks[f] /\ LookedUp(draft, marks[f], f)
         /\ \A f \in Fields : f \in DOMAIN draft /\ LookedUp(draft, marks[f], f) =>
              Prune(draft, marks)[f] = marks[f]
BY DEF Prune, AllMarks

(* What is saved is a profile of the open tab.                             *)
LEMMA PayloadIsAProfile ==
  ASSUME FormTypeOK
  PROVE  IsProfile(tab, Payload(tab))
<1>1. tab \in Kinds /\ IsDraft(tab, drafts[tab]) /\ sources[tab].marks \in AllMarks
  BY DEF FormTypeOK
<1>2. LiveMarks(tab) \in AllMarks
  BY <1>1, FieldNames DEF LiveMarks
<1>3. Prune(drafts[tab], LiveMarks(tab)) \in AllMarks
  BY <1>2, PruneIsMarks
<1> QED
  BY <1>1, <1>3 DEF Payload, IsProfile, IsDraft

(* The echo of a profile, and one hydrated, are boxes of its kind.         *)
LEMMA AdoptedIsADraft ==
  ASSUME NEW k, NEW draft, IsDraft(k, draft)
  PROVE  IsDraft(k, [f \in OnProfile(k) |-> Adopted(draft, f)])
<1>1. \A f \in OnProfile(k) : draft[f] \in Boxes
  BY DEF IsDraft
<1>2. \A f \in OnProfile(k) : Adopted(draft, f) \in Boxes /\ Adopted(draft, f).value = draft[f].value
  BY <1>1 DEF Adopted, Box, Boxes
<1> QED
  BY <1>2, BoxesOfAKind DEF IsDraft

LEMMA HydratedIsADraft ==
  ASSUME NEW k \in Kinds, stored[k] # None => IsProfile(k, stored[k])
  PROVE  IsDraft(k, Hydrated(k))
<1>1. CASE stored[k] = None
  BY <1>1, ValuesAreNotNone, BoxesOfAKind DEF Hydrated, Empty, Nobody, IsDraft, Boxes
<1>2. CASE stored[k] # None
  <2> DEFINE fields == stored[k].fields
  <2>1. fields \in [OnProfile(k) -> Boxes] /\ fields["callsign"].value \in Callsigns \cup {Blank}
    BY <1>2 DEF IsProfile, IsDraft
  <2>2. \A f \in OnProfile(k) :
          /\ Box(fields[f].value, You) \in Boxes
          /\ Box(fields[f].value, You).value = fields[f].value
    BY <2>1 DEF Box, Boxes
  <2>3. \A f \in OnProfile(k) : Hydrated(k)[f] \in {fields[f], Box(fields[f].value, You)}
    BY <1>2 DEF Hydrated
  <2>4. Hydrated(k) \in [OnProfile(k) -> Boxes]
    <3>1. Hydrated(k) = [f \in OnProfile(k) |-> Hydrated(k)[f]]
      BY <1>2 DEF Hydrated
    <3>2. \A f \in OnProfile(k) : Hydrated(k)[f] \in Boxes
      BY <2>1, <2>2, <2>3
    <3> QED
      BY <3>1, <3>2, Zenon
  <2> QED
    BY <2>1, <2>2, <2>3, <2>4, BoxesOfAKind DEF IsDraft
<1> QED
  BY <1>1, <1>2

-----------------------------------------------------------------------------
(* Every step keeps the types.                                             *)
LEMMA TypesKept ==
  ASSUME FormTypeOK, [FormNext]_formVars
  PROVE  FormTypeOK'
<1> USE DEF FormTypeOK
<1>0. CASE UNCHANGED formVars
  BY <1>0 DEF formVars, counts, IsDraft, IsProfile
<1>1. ASSUME NEW f \in Fields, NEW v \in Typed[f], TypeIn(f, v)
      PROVE  FormTypeOK'
  <2>1. IsDraft(tab, Set(tab, f, v))
    BY <1>1, SetIsADraft DEF TypeIn
  <2>2. DOMAIN drafts' = Kinds /\ \A k \in Kinds : IsDraft(k, drafts'[k])
    BY <1>1, <2>1 DEF TypeIn
  <2>3. edits' \in 0..MaxEdits
    BY <1>1, FormAssumption DEF TypeIn
  <2> QED
    BY <1>1, <2>2, <2>3 DEF TypeIn, IsDraft, IsProfile
<1>2. ASSUME NEW k \in Kinds, OpenTab(k)
      PROVE  FormTypeOK'
  BY <1>2 DEF OpenTab, counts, IsDraft, IsProfile
<1>3. ASSUME LookUp
      PROVE  FormTypeOK'
  <2>1. InTheBox \in Callsigns
    BY <1>3 DEF LookUp, InTheBox, IsDraft
  <2>2. panel' \in Panels /\ lookups' \in 0..MaxLookups
    BY <1>3, <2>1, FormAssumption DEF LookUp, Panels
  <2> QED
    BY <1>3, <2>2 DEF LookUp, IsDraft, IsProfile
<1>4. ASSUME Found
      PROVE  FormTypeOK'
  <2>1. Licence[panel.asked] \in Records
    BY <1>4, PanelShapes, FormAssumption DEF Found
  <2>2. panel' \in Panels
    BY <1>4, <2>1 DEF Found, Panels
  <2> QED
    BY <1>4, <2>2 DEF Found, counts, IsDraft, IsProfile
<1>5. ASSUME NotFound \/ Dismiss
      PROVE  FormTypeOK'
  <2>1. panel' \in Panels
    BY <1>5 DEF NotFound, Dismiss, Panels
  <2> QED
    BY <1>5, <2>1 DEF NotFound, Dismiss, counts, IsDraft, IsProfile
<1>6. ASSUME Confirm
      PROVE  FormTypeOK'
  <2>1. panel' \in Panels
    BY <1>6, PanelShapes DEF Confirm, Panels
  <2> QED
    BY <1>6, <2>1 DEF Confirm, counts, IsDraft, IsProfile
<1>7. ASSUME NEW state \in Typed.state, NEW lat \in Typed.lat, Accept(state, lat)
      PROVE  FormTypeOK'
  <2> DEFINE record == panel.record
             values == Filled(record, state, lat)
  <2>1. record \in Records
    BY <1>7, PanelShapes DEF Accept
  <2>2. IsDraft(tab, AcceptedDraft(record, values))
    BY <2>1, AcceptIsADraft
  <2>3. DOMAIN drafts' = Kinds /\ \A k \in Kinds : IsDraft(k, drafts'[k])
    BY <1>7, <2>2 DEF Accept
  <2>4. Read(tab, record, values) \in
          [readFor : Callsigns \cup {Blank}, marks : AllMarks, unattributed : Values \cup {None}]
    <3>1. /\ values.callsign = record.callsign /\ values.state = state /\ values.lat = lat
          /\ values["callsign"] = record.callsign /\ values["state"] = state
          /\ record.callsign \in Callsigns /\ record.callsign \in Values
          /\ state \in Values /\ lat \in Values
      BY <2>1, RecordStatesValues, TypedIsAValue, FieldNames DEF Filled
    <3>2. Marks(record, values) \in AllMarks
      BY <3>1 DEF Marks, AllMarks
    <3> QED
      BY <3>1, <3>2 DEF Read
  <2>5. panel' \in Panels
    BY <1>7 DEF Accept, Panels
  <2>6. amiss' \subseteq Kinds
    BY <1>7 DEF Accept
  <2>7. sources' \in [Kinds -> [readFor : Callsigns \cup {Blank}, marks : AllMarks,
                                unattributed : Values \cup {None}]]
    BY <1>7, <2>4 DEF Accept
  <2> QED
    BY <1>7, <2>3, <2>5, <2>6, <2>7 DEF Accept, counts, IsDraft, IsProfile
<1>8. ASSUME Save
      PROVE  FormTypeOK'
  <2>1. IsProfile(tab, Payload(tab))
    BY PayloadIsAProfile
  <2>2. saves' \in 0..MaxSaves
    BY <1>8, FormAssumption DEF Save
  <2>3. /\ DOMAIN saving' = {"kind", "payload", "taken"}
        /\ saving'.kind = tab /\ saving'.taken \in BOOLEAN
        /\ saving'.payload = Payload(tab)
    BY <1>8 DEF Save
  <2>4. IsProfile(saving'.kind, saving'.payload)
    BY <2>1, <2>3
  <2> QED
    BY <1>8, <2>2, <2>3, <2>4 DEF Save, IsDraft, IsProfile
<1>9. ASSUME Store
      PROVE  FormTypeOK'
  <2>1. DOMAIN stored' = Kinds /\ \A k \in Kinds : stored'[k] # None => IsProfile(k, stored'[k])
    BY <1>9 DEF Store
  <2>2. /\ DOMAIN saving' = {"kind", "payload", "taken"} /\ saving'.taken \in BOOLEAN
        /\ saving'.kind = saving.kind /\ saving'.payload = saving.payload
    BY <1>9 DEF Store
  <2> QED
    BY <1>9, <2>1, <2>2 DEF Store, counts, IsDraft, IsProfile
<1>10. ASSUME Echo
      PROVE  FormTypeOK'
  <2> DEFINE k == saving.kind
             profile == saving.payload
  <2>1. k \in Kinds /\ IsProfile(k, profile)
    BY <1>10 DEF Echo
  <2>2. IsDraft(k, [f \in OnProfile(k) |-> Adopted(profile.fields, f)])
    BY <2>1, AdoptedIsADraft DEF IsProfile
  <2>3. DOMAIN drafts' = Kinds /\ \A j \in Kinds : IsDraft(j, drafts'[j])
    BY <1>10, <2>1, <2>2 DEF Echo
  <2>4. [SourcesOf(profile) EXCEPT !.unattributed = sources[k].unattributed] \in
          [readFor : Callsigns \cup {Blank}, marks : AllMarks, unattributed : Values \cup {None}]
    BY <2>1 DEF SourcesOf, IsProfile, IsDraft
  <2>5. sources' \in [Kinds -> [readFor : Callsigns \cup {Blank}, marks : AllMarks,
                                unattributed : Values \cup {None}]]
    BY <1>10, <2>1, <2>4 DEF Echo
  <2>6. amiss' \subseteq Kinds
    BY <1>10, <2>1 DEF Echo
  <2> QED
    BY <1>10, <2>3, <2>5, <2>6 DEF Echo, counts, IsDraft, IsProfile
<1>11. ASSUME SaveFails
      PROVE  FormTypeOK'
  BY <1>11 DEF SaveFails, counts, IsDraft, IsProfile
<1>12. ASSUME Reload
      PROVE  FormTypeOK'
  <2>1. \A k \in Kinds : IsDraft(k, Hydrated(k))
    BY HydratedIsADraft
  <2>2. DOMAIN drafts' = Kinds /\ \A k \in Kinds : IsDraft(k, drafts'[k])
    BY <1>12, <2>1 DEF Reload
  <2>3. \A k \in Kinds : (IF stored[k] = None THEN NoSources ELSE SourcesOf(stored[k])) \in
          [readFor : Callsigns \cup {Blank}, marks : AllMarks, unattributed : Values \cup {None}]
    BY FieldNames DEF NoSources, SourcesOf, IsProfile, IsDraft
  <2>4. sources' \in [Kinds -> [readFor : Callsigns \cup {Blank}, marks : AllMarks,
                                unattributed : Values \cup {None}]]
    BY <1>12, <2>3 DEF Reload
  <2>5. panel' \in Panels
    BY <1>12 DEF Reload, Panels
  <2> QED
    BY <1>12, <2>2, <2>4, <2>5 DEF Reload, counts, IsDraft, IsProfile
<1> QED
  BY <1>0, <1>1, <1>2, <1>3, <1>4, <1>5, <1>6, <1>7, <1>8, <1>9, <1>10, <1>11, <1>12 DEF FormNext

-----------------------------------------------------------------------------
(* What a record states is stated of its callsign.                         *)
LEMMA FoundIsStated ==
  ASSUME FormTypeOK, PanelIsARecord, panel.phase = "found"
  PROVE  /\ panel.record \in Records
         /\ \A f \in {"callsign", "state", "lat"} :
              Stated(panel.record.callsign, f, panel.record[f])
BY PanelShapes DEF PanelIsARecord, Stated, FormTypeOK

(* What a lookup marks is what its record states.                          *)
LEMMA ReadIsTrue ==
  ASSUME NEW record \in Records, NEW state \in Typed["state"], NEW lat \in Typed["lat"],
         \A f \in {"callsign", "state", "lat"} : Stated(record.callsign, f, record[f])
  PROVE  LET values == Filled(record, state, lat)
             read   == Read(tab, record, values)
         IN /\ read.readFor = record.callsign
            /\ \A f \in Fields : read.marks[f] # None =>
                 /\ f \in Marked /\ read.marks[f] # Blank
                 /\ Stated(record.callsign, f, read.marks[f])
            /\ state # Blank /\ state = record.state => read.marks["state"] = state
            /\ lat # Blank /\ lat = record.lat => read.unattributed = lat
            /\ read.unattributed # None =>
                 /\ read.unattributed # Blank
                 /\ Stated(record.callsign, "lat", read.unattributed)
<1> DEFINE values == Filled(record, state, lat)
           read   == Read(tab, record, values)
<1>1. /\ values["callsign"] = record.callsign /\ values["state"] = state
      /\ values.callsign = record.callsign /\ values.state = state /\ values.lat = lat
      /\ record["callsign"] = record.callsign /\ record["state"] = record.state
      /\ record["lat"] = record.lat /\ record.callsign # Blank
  BY RecordStatesValues DEF Filled
<1>2. /\ read.readFor = record.callsign /\ read.marks = Marks(record, values)
      /\ read.unattributed = IF lat # Blank /\ lat = record.lat THEN lat ELSE None
  BY <1>1 DEF Read
<1>3. \A f \in Fields : Marks(record, values)[f] # None =>
        \/ f = "callsign" /\ Marks(record, values)[f] = record["callsign"]
        \/ f = "state" /\ Marks(record, values)[f] = record["state"] /\ record["state"] # Blank
  BY <1>1, FieldNames DEF Marks
<1>4. state # Blank /\ state = record.state => Marks(record, values)["state"] = state
  BY <1>1, FieldNames DEF Marks
<1>5. \A f \in Fields : Marks(record, values)[f] # None =>
        /\ f \in Marked /\ Marks(record, values)[f] # Blank
        /\ Stated(record.callsign, f, Marks(record, values)[f])
  BY <1>1, <1>3, FieldNames
<1> QED
  BY <1>1, <1>2, <1>4, <1>5

(* The profile saved is true: a mark kept is about the callsign it was     *)
(* read for, which is the one in the box.                                  *)
LEMMA PayloadIsTrue ==
  ASSUME FormTypeOK, SourcesTrue(tab), BoxesTrue(tab)
  PROVE  /\ ProfileTrue(Payload(tab))
         /\ tab \notin amiss /\ Payload(tab).fields["lat"].by \in Callsigns =>
              Payload(tab).fields["lat"].value = sources[tab].unattributed
<1> DEFINE draft == drafts[tab]
           kept  == Prune(draft, LiveMarks(tab))
           c     == draft["callsign"].value
<1>1. /\ tab \in Kinds /\ IsDraft(tab, draft) /\ sources[tab].marks \in AllMarks
      /\ draft \in [OnProfile(tab) -> Boxes]
  BY DEF FormTypeOK, IsDraft
<1>2. Payload(tab).fields = draft /\ Payload(tab).marks = kept
  BY DEF Payload
<1>3. \A f \in Fields : LiveMarks(tab)[f] # None =>
        c = sources[tab].readFor /\ LiveMarks(tab)[f] = sources[tab].marks[f]
  BY FieldNames DEF LiveMarks, ForThisCallsign
<1>4. LiveMarks(tab) \in AllMarks
  BY <1>1, FieldNames DEF LiveMarks
<1>5. \A f \in Fields : kept[f] # None =>
        /\ f \in Marked /\ LookedUp(draft, kept[f], f) /\ Stated(c, f, kept[f])
        /\ c = sources[tab].readFor
  BY <1>3, <1>4, PruneIsMarks DEF SourcesTrue
<1>6. draft["state"].by \in Callsigns /\ (kept["state"] # None \/ draft["state"].by = c) =>
        draft["state"].by = c /\ kept["state"] # None
  <2> SUFFICES ASSUME draft["state"].by \in Callsigns,
                      kept["state"] # None \/ draft["state"].by = c
               PROVE  draft["state"].by = c /\ kept["state"] # None
    OBVIOUS
  <2>1. /\ draft["state"].by = sources[tab].readFor
        /\ LookedUp(draft, sources[tab].marks["state"], "state")
    BY DEF BoxesTrue
  <2>2. c = sources[tab].readFor
    BY <1>5, <2>1, FieldNames
  <2>3. LiveMarks(tab) = sources[tab].marks
    BY <2>2 DEF LiveMarks, ForThisCallsign
  <2>4. kept["state"] = sources[tab].marks["state"]
    BY <1>1, <1>4, <2>1, <2>3, PruneIsMarks, BoxesOfAKind, FieldNames
  <2> QED
    BY <2>1, <2>2, <2>4 DEF LookedUp
<1>7. ProfileTrue(Payload(tab))
  <2> HIDE DEF draft, kept
  <2> QED
    BY <1>2, <1>5, <1>6 DEF ProfileTrue
<1>8. tab \notin amiss /\ draft["lat"].by \in Callsigns =>
        draft["lat"].value = sources[tab].unattributed
  BY DEF BoxesTrue
<1> QED
  BY <1>2, <1>7, <1>8

(* Steps that touch no box and no mark leave what is said of them.         *)
LEMMA TruthsStand ==
  ASSUME NEW k, SourcesTrue(k), BoxesTrue(k),
         sources'[k] = sources[k], drafts'[k] = drafts[k], k \in amiss => k \in amiss'
  PROVE  SourcesTrue(k)' /\ BoxesTrue(k)'
BY DEF SourcesTrue, BoxesTrue, LookedUp

(* Every step keeps what is said of boxes, marks, profiles and the save.   *)
LEMMA TruthsKept ==
  ASSUME FormInv, [FormNext]_formVars
  PROVE  /\ PanelIsARecord'
         /\ \A k \in Kinds : SourcesTrue(k)' /\ BoxesTrue(k)'
         /\ \A k \in Kinds : (stored[k] # None => ProfileTrue(stored[k]))'
         /\ SavingTrue'
<1> DEFINE Goal == /\ PanelIsARecord'
                   /\ \A k \in Kinds : SourcesTrue(k)' /\ BoxesTrue(k)'
                   /\ \A k \in Kinds : (stored[k] # None => ProfileTrue(stored[k]))'
                   /\ SavingTrue'
<1>a. /\ FormTypeOK /\ PanelIsARecord /\ SavingTrue /\ tab \in Kinds
      /\ \A k \in Kinds : SourcesTrue(k) /\ BoxesTrue(k)
      /\ \A k \in Kinds : stored[k] # None => ProfileTrue(stored[k])
      /\ \A k \in Kinds : IsDraft(k, drafts[k])
      /\ DOMAIN drafts = Kinds /\ DOMAIN sources = Kinds /\ DOMAIN stored = Kinds
  BY DEF FormInv, FormTypeOK
<1>0. CASE UNCHANGED <<drafts, sources, stored, panel, saving, amiss>>
  <2>1. \A k \in Kinds : SourcesTrue(k)' /\ BoxesTrue(k)'
    BY <1>a, <1>0, TruthsStand
  <2> QED
    BY <1>a, <1>0, <2>1 DEF PanelIsARecord, SavingTrue, ProfileTrue, LookedUp
<1>1. ASSUME NEW f \in Fields, NEW v \in Typed[f], TypeIn(f, v)
      PROVE  Goal
  <2>1. /\ drafts' = [drafts EXCEPT ![tab] = Set(tab, f, v)] /\ f \in OnProfile(tab)
        /\ UNCHANGED <<tab, sources, stored, panel, saving, amiss>>
    BY <1>1 DEF TypeIn
  <2>2. \A g \in {"callsign", "state", "lat"} :
          Set(tab, f, v)[g] = drafts[tab][g] \/ Set(tab, f, v)[g].by = You
    BY <1>a, <2>1, SetIsADraft
  <2>3. ASSUME NEW k \in Kinds
        PROVE  SourcesTrue(k)' /\ BoxesTrue(k)'
    <3>1. CASE k # tab
      BY <1>a, <2>1, <3>1, TruthsStand
    <3>2. CASE k = tab
      <4>1. \A g \in {"state", "lat"} :
              drafts'[tab][g].by \in Callsigns => drafts'[tab][g] = drafts[tab][g]
        BY <1>a, <2>1, <2>2, FormAssumption
      <4>2. BoxesTrue(tab)'
        BY <1>a, <2>1, <4>1 DEF BoxesTrue, LookedUp
      <4> QED
        BY <1>a, <2>1, <3>2, <4>2 DEF SourcesTrue
    <3> QED
      BY <3>1, <3>2
  <2> QED
    BY <1>a, <2>1, <2>3 DEF PanelIsARecord, SavingTrue, ProfileTrue, LookedUp
<1>2. CASE LookUp \/ Found \/ NotFound \/ Confirm \/ Dismiss
  <2>1. UNCHANGED <<drafts, sources, stored, saving, amiss>>
    BY <1>2 DEF LookUp, Found, NotFound, Confirm, Dismiss
  <2>2. \A k \in Kinds : SourcesTrue(k)' /\ BoxesTrue(k)'
    BY <1>a, <2>1, TruthsStand
  <2>3. PanelIsARecord'
    <3>1. CASE LookUp \/ NotFound \/ Dismiss
      BY <3>1 DEF LookUp, NotFound, Dismiss, Closed, PanelIsARecord
    <3>2. CASE Found
      <4>1. panel.asked \in Callsigns /\ Licence[panel.asked] # None
        BY <1>a, <3>2, PanelShapes DEF Found, FormTypeOK
      <4>2. panel'.record = Licence[panel.asked]
        BY <3>2 DEF Found
      <4> QED
        BY <4>1, <4>2 DEF PanelIsARecord
    <3>3. CASE Confirm
      <4>1. panel'.phase = "found" /\ panel'.record = panel.record /\ panel.phase = "found"
        BY <1>a, <3>3, PanelShapes DEF Confirm, FormTypeOK
      <4> QED
        BY <1>a, <4>1 DEF PanelIsARecord
    <3> QED
      BY <1>2, <3>1, <3>2, <3>3
  <2> QED
    BY <1>a, <2>1, <2>2, <2>3 DEF SavingTrue, ProfileTrue, LookedUp
<1>3. ASSUME NEW state \in Typed.state, NEW lat \in Typed.lat, Accept(state, lat)
      PROVE  Goal
  <2> DEFINE record == panel.record
             values == Filled(record, state, lat)
             draft  == AcceptedDraft(record, values)
             read   == Read(tab, record, values)
  <2>1. /\ panel.phase = "found" /\ panel'.phase = "accepted"
        /\ drafts' = [drafts EXCEPT ![tab] = draft]
        /\ sources' = [sources EXCEPT ![tab] = read]
        /\ amiss' = IF saving # None /\ saving.kind = tab THEN amiss \cup {tab}
                    ELSE IF lat # Blank \/ drafts'[tab]["lat"].by = You THEN amiss \ {tab}
                    ELSE amiss
        /\ UNCHANGED <<tab, stored, saving>>
    BY <1>3 DEF Accept
  <2>2. /\ record \in Records
        /\ \A f \in {"callsign", "state", "lat"} : Stated(record.callsign, f, record[f])
    BY <1>a, <2>1, FoundIsStated
  <2>3. /\ read.readFor = record.callsign
        /\ \A f \in Fields : read.marks[f] # None =>
             /\ f \in Marked /\ read.marks[f] # Blank
             /\ Stated(record.callsign, f, read.marks[f])
        /\ state # Blank /\ state = record.state => read.marks["state"] = state
        /\ lat # Blank /\ lat = record.lat => read.unattributed = lat
        /\ read.unattributed # None =>
             /\ read.unattributed # Blank
             /\ Stated(record.callsign, "lat", read.unattributed)
    BY <2>2, ReadIsTrue
  <2>4. \A f \in {"state", "lat"} :
          IF values[f] # Blank THEN draft[f] = Box(values[f], By(record, values, f))
          ELSE IF f \in Vacated(tab, values) THEN draft[f] = Nobody
          ELSE draft[f] = drafts[tab][f]
    BY <1>a, <2>2, AcceptIsADraft
  <2>5. drafts'[tab] = draft /\ sources'[tab] = read
    BY <1>a, <2>1
  <2>6. SourcesTrue(tab)'
    BY <2>1, <2>3, <2>5 DEF SourcesTrue
  <2>7. /\ values["state"] = state /\ values["lat"] = lat
        /\ record["state"] = record.state /\ record["lat"] = record.lat
        /\ You \notin Callsigns
    BY FormAssumption DEF Filled
  <2>8. draft["state"].by \in Callsigns =>
          draft["state"].by = read.readFor /\ LookedUp(draft, read.marks["state"], "state")
    <3>1. CASE state # Blank
      <4>1. draft["state"] = Box(state, IF state = record.state THEN record.callsign ELSE You)
        BY <2>4, <2>7, <3>1 DEF By
      <4>2. state # None
        BY TypedIsAValue, ValuesAreNotNone, FieldNames
      <4> HIDE DEF draft, read, record, values
      <4> QED
        BY <2>3, <2>7, <3>1, <4>1, <4>2 DEF Box, LookedUp
    <3>2. CASE state = Blank
      <4>1. LookedUp(drafts[tab], sources[tab].marks["state"], "state") =>
              "state" \in Vacated(tab, values)
        BY <2>7, <3>2 DEF Vacated
      <4>2. draft["state"] \in {Nobody, drafts[tab]["state"]}
        BY <2>4, <2>7, <3>2
      <4>3. drafts[tab]["state"].by \in Callsigns => draft["state"] = Nobody
        BY <1>a, <2>4, <2>7, <3>2, <4>1 DEF BoxesTrue
      <4> QED
        BY <2>7, <4>2, <4>3 DEF Nobody
    <3> QED
      BY <3>1, <3>2
  <2>9. tab \notin amiss' /\ draft["lat"].by \in Callsigns =>
          draft["lat"].value = read.unattributed
    <3>1. CASE lat # Blank
      <4>1. draft["lat"] = Box(lat, IF lat = record.lat THEN record.callsign ELSE You)
        BY <2>4, <2>7, <3>1 DEF By
      <4> HIDE DEF draft, read, record, values
      <4> QED
        BY <2>3, <2>7, <3>1, <4>1 DEF Box
    <3>2. CASE lat = Blank
      <4>0. SUFFICES ASSUME tab \notin amiss', draft["lat"].by \in Callsigns
                   PROVE  FALSE
        OBVIOUS
      <4>1. tab \notin amiss
        BY <2>1, <2>5, <2>7, <3>2, <4>0 DEF Nobody
      <4>2. drafts[tab]["lat"].by \in Callsigns => "lat" \in Vacated(tab, values)
        BY <1>a, <2>7, <3>2, <4>1 DEF BoxesTrue, Vacated
      <4>3. draft["lat"] = Nobody
        BY <2>4, <2>7, <3>2, <4>0, <4>2
      <4> QED
        BY <2>7, <4>0, <4>3 DEF Nobody
    <3> QED
      BY <3>1, <3>2
  <2>10. BoxesTrue(tab)'
    BY <2>1, <2>5, <2>8, <2>9 DEF BoxesTrue, LookedUp
  <2>11. ASSUME NEW k \in Kinds, k # tab
         PROVE  SourcesTrue(k)' /\ BoxesTrue(k)'
    BY <1>a, <2>1, <2>11, TruthsStand
  <2>12. SavingTrue'
    <3>1. CASE saving = None
      BY <2>1, <3>1 DEF SavingTrue
    <3>2. CASE saving # None /\ saving.kind = tab
      <4>1. saving'.kind \in amiss'
        BY <2>1, <3>2
      <4> QED
        BY <1>a, <2>1, <3>2, <4>1 DEF SavingTrue, ProfileTrue, LookedUp
    <3>3. CASE saving # None /\ saving.kind # tab
      <4>1. saving.kind \in Kinds
        BY <1>a, <3>3 DEF FormTypeOK
      <4>2. /\ sources'[saving.kind] = sources[saving.kind]
            /\ saving.kind \notin amiss' => saving.kind \notin amiss
        BY <1>a, <2>1, <3>3, <4>1
      <4> QED
        BY <1>a, <2>1, <3>3, <4>2 DEF SavingTrue, ProfileTrue, LookedUp
    <3> QED
      BY <3>1, <3>2, <3>3
  <2>13. PanelIsARecord'
    BY <2>1 DEF PanelIsARecord
  <2> QED
    BY <1>a, <2>1, <2>6, <2>10, <2>11, <2>12, <2>13 DEF ProfileTrue, LookedUp
<1>4. CASE Save
  <2>1. /\ saving' = [kind |-> tab, payload |-> Payload(tab), taken |-> FALSE]
        /\ UNCHANGED <<drafts, sources, stored, panel, amiss>>
    BY <1>4 DEF Save
  <2>2. saving'.kind = tab /\ saving'.payload = Payload(tab)
    BY <2>1
  <2>3. /\ ProfileTrue(Payload(tab))
        /\ tab \notin amiss /\ Payload(tab).fields["lat"].by \in Callsigns =>
             Payload(tab).fields["lat"].value = sources[tab].unattributed
    BY <1>a, PayloadIsTrue
  <2>4. \A k \in Kinds : SourcesTrue(k)' /\ BoxesTrue(k)'
    BY <1>a, <2>1, TruthsStand
  <2>5. SavingTrue'
    BY <2>1, <2>2, <2>3 DEF SavingTrue, ProfileTrue, LookedUp
  <2> QED
    BY <1>a, <2>1, <2>4, <2>5 DEF PanelIsARecord, ProfileTrue, LookedUp
<1>5. CASE Store
  <2>1. /\ saving # None
        /\ stored' = [stored EXCEPT ![saving.kind] = saving.payload]
        /\ saving'.kind = saving.kind /\ saving'.payload = saving.payload
        /\ UNCHANGED <<drafts, sources, panel, amiss>>
    BY <1>5, <1>a DEF Store, FormTypeOK
  <2>2. \A k \in Kinds : SourcesTrue(k)' /\ BoxesTrue(k)'
    BY <1>a, <2>1, TruthsStand
  <2>3. SavingTrue'
    BY <1>a, <2>1 DEF SavingTrue, ProfileTrue, LookedUp
  <2>4. ProfileTrue(saving.payload)
    BY <1>a, <2>1 DEF SavingTrue
  <2>5. \A k \in Kinds : stored'[k] = stored[k] \/ stored'[k] = saving.payload
    BY <1>a, <2>1
  <2>6. \A k \in Kinds : stored'[k] # None => ProfileTrue(stored'[k])
    BY <1>a, <2>4, <2>5
  <2> QED
    BY <1>a, <2>1, <2>2, <2>3, <2>6 DEF PanelIsARecord, ProfileTrue, LookedUp
<1>6. CASE Echo
  <2>0. PICK k \in Kinds : k = saving.kind
    BY <1>a, <1>6 DEF Echo, FormTypeOK
  <2> DEFINE profile == saving.payload
             c == profile.fields["callsign"].value
             draft == [f \in OnProfile(k) |-> Adopted(profile.fields, f)]
  <2>1. /\ saving # None /\ saving' = None
        /\ drafts' = [drafts EXCEPT ![k] = draft]
        /\ sources' = [sources EXCEPT ![k] =
             [SourcesOf(profile) EXCEPT !.unattributed = sources[k].unattributed]]
        /\ amiss' = IF c # sources[k].readFor THEN amiss \cup {k} ELSE amiss
        /\ UNCHANGED <<tab, stored, panel>>
    BY <1>6, <2>0 DEF Echo
  <2>2. /\ k \in Kinds /\ ProfileTrue(profile)
        /\ k \notin amiss /\ profile.fields["lat"].by \in Callsigns =>
             profile.fields["lat"].value = sources[k].unattributed
    BY <1>a, <2>0, <2>1 DEF FormTypeOK, SavingTrue
  <2>3. /\ sources'[k].readFor = c /\ sources'[k].marks = profile.marks
        /\ sources'[k].unattributed = sources[k].unattributed
        /\ drafts'[k] = draft
    BY <1>a, <2>1, <2>2 DEF SourcesOf
  <2>4. k \notin amiss' => c = sources[k].readFor /\ k \notin amiss
    BY <2>1
  <2>5. SourcesTrue(k)'
    <3>1. \A f \in Fields : profile.marks[f] # None =>
            f \in Marked /\ profile.marks[f] # Blank /\ Stated(c, f, profile.marks[f])
      BY <2>2 DEF ProfileTrue, LookedUp
    <3>2. SourcesTrue(k)
      BY <1>a, <2>2
    <3> HIDE DEF profile, c
    <3> QED
      BY <2>3, <2>4, <3>1, <3>2 DEF SourcesTrue
  <2>6. \A f \in {"state", "lat"} :
          /\ draft[f].value = profile.fields[f].value
          /\ draft[f].by \in Callsigns =>
               draft[f].by = c /\ profile.fields[f].by = c
    BY BoxesOfAKind, FormAssumption DEF Adopted, Box
  <2>7. draft["state"].by \in Callsigns =>
          draft["state"].by = c /\ LookedUp(draft, profile.marks["state"], "state")
    BY <2>2, <2>6, FieldNames DEF ProfileTrue, LookedUp
  <2>8. k \notin amiss' /\ draft["lat"].by \in Callsigns =>
          draft["lat"].value = sources[k].unattributed
    BY <2>2, <2>4, <2>6
  <2>9. BoxesTrue(k)'
    <3> HIDE DEF draft, profile, c
    <3> QED
      BY <2>3, <2>7, <2>8 DEF BoxesTrue, LookedUp
  <2>10. ASSUME NEW j \in Kinds, j # k
         PROVE  SourcesTrue(j)' /\ BoxesTrue(j)'
    BY <1>a, <2>1, <2>10, TruthsStand
  <2> QED
    BY <1>a, <2>1, <2>5, <2>9, <2>10 DEF PanelIsARecord, SavingTrue, ProfileTrue, LookedUp
<1>7. CASE SaveFails
  <2>1. saving' = None /\ UNCHANGED <<drafts, sources, stored, panel, amiss>>
    BY <1>7 DEF SaveFails
  <2>2. \A k \in Kinds : SourcesTrue(k)' /\ BoxesTrue(k)'
    BY <1>a, <2>1, TruthsStand
  <2> QED
    BY <1>a, <2>1, <2>2 DEF PanelIsARecord, SavingTrue, ProfileTrue, LookedUp
<1>8. CASE Reload
  <2>1. /\ drafts' = [k \in Kinds |-> Hydrated(k)]
        /\ sources' = [k \in Kinds |-> IF stored[k] = None THEN NoSources ELSE SourcesOf(stored[k])]
        /\ panel'.phase = "closed" /\ saving' = None /\ amiss' = {} /\ stored' = stored
    BY <1>8 DEF Reload, Closed
  <2>2. ASSUME NEW k \in Kinds
        PROVE  SourcesTrue(k)' /\ BoxesTrue(k)'
    <3>1. CASE stored[k] = None
      <4>1. /\ sources'[k].marks = Unmarked /\ sources'[k].unattributed = None
            /\ drafts'[k]["state"].by = You /\ drafts'[k]["lat"].by = You
        BY <2>1, <3>1, BoxesOfAKind DEF NoSources, Hydrated, Empty, Nobody
      <4> QED
        BY <4>1, FieldNames, FormAssumption DEF SourcesTrue, BoxesTrue
    <3>2. CASE stored[k] # None
      <4> DEFINE profile == stored[k]
                 c == profile.fields["callsign"].value
      <4>1. /\ sources'[k].readFor = c /\ sources'[k].marks = profile.marks
            /\ sources'[k].unattributed = None
        BY <2>1, <3>2 DEF SourcesOf
      <4>2. ProfileTrue(profile)
        BY <1>a, <3>2
      <4>3. SourcesTrue(k)'
        <5>1. \A f \in Fields : profile.marks[f] # None =>
                f \in Marked /\ profile.marks[f] # Blank /\ Stated(c, f, profile.marks[f])
          BY <4>2 DEF ProfileTrue, LookedUp
        <5> HIDE DEF profile, c
        <5> QED
          BY <4>1, <5>1 DEF SourcesTrue
      <4>4. \A f \in {"state", "lat"} :
              drafts'[k][f] = IF profile.marks[f] # None THEN profile.fields[f]
                              ELSE Box(profile.fields[f].value, You)
        BY <2>1, <3>2, BoxesOfAKind DEF Hydrated
      <4>5. profile.marks["lat"] = None
        BY <4>2, FieldNames DEF ProfileTrue
      <4>6. drafts'[k]["lat"].by \notin Callsigns
        BY <4>4, <4>5, FormAssumption DEF Box
      <4>7. drafts'[k]["state"].by \in Callsigns =>
              /\ profile.marks["state"] # None
              /\ drafts'[k]["state"] = profile.fields["state"]
        BY <4>4, FormAssumption DEF Box
      <4>8. drafts'[k]["state"].by \in Callsigns =>
              /\ drafts'[k]["state"].by = c
              /\ LookedUp(drafts'[k], profile.marks["state"], "state")
        BY <4>2, <4>7, FieldNames DEF ProfileTrue, LookedUp
      <4>9. BoxesTrue(k)'
        <5> HIDE DEF profile, c
        <5> QED
          BY <4>1, <4>6, <4>8 DEF BoxesTrue, LookedUp
      <4> QED
        BY <4>3, <4>9
    <3> QED
      BY <3>1, <3>2
  <2> QED
    BY <1>a, <2>1, <2>2 DEF PanelIsARecord, SavingTrue, ProfileTrue, LookedUp
<1>9. ASSUME NEW k \in Kinds, OpenTab(k)
      PROVE  Goal
  BY <1>0, <1>9 DEF OpenTab
<1> QED
  BY <1>0, <1>1, <1>2, <1>3, <1>4, <1>5, <1>6, <1>7, <1>8, <1>9 DEF FormNext, formVars

(* The form starts with nothing in its boxes and nothing marked.           *)
LEMMA FormInitHolds ==
  ASSUME FormInit
  PROVE  FormInv
<1>1. \A k \in Kinds : IsDraft(k, drafts[k])
  BY ValuesAreNotNone, BoxesOfAKind DEF FormInit, Empty, Nobody, IsDraft, Boxes
<1>2. sources \in [Kinds -> [readFor : Callsigns \cup {Blank}, marks : AllMarks,
                             unattributed : Values \cup {None}]]
  BY FieldNames DEF FormInit, NoSources
<1>3. FormTypeOK
  BY <1>1, <1>2, FormAssumption DEF FormInit, FormTypeOK, Panels
<1>4. ASSUME NEW k \in Kinds
      PROVE  SourcesTrue(k) /\ BoxesTrue(k)
  <2>1. /\ sources[k].marks = Unmarked /\ sources[k].unattributed = None
        /\ drafts[k]["state"].by = You /\ drafts[k]["lat"].by = You
    BY BoxesOfAKind DEF FormInit, NoSources, Empty, Nobody
  <2> QED
    BY <2>1, FieldNames, FormAssumption DEF SourcesTrue, BoxesTrue
<1> QED
  BY <1>3, <1>4 DEF FormInit, FormInv, PanelIsARecord, SavingTrue, Closed

THEOREM FormInvariant == FormSpec => []FormInv
<1>1. FormInit => FormInv
  BY FormInitHolds
<1>2. FormInv /\ [FormNext]_formVars => FormInv'
  <2> SUFFICES ASSUME FormInv, [FormNext]_formVars
               PROVE  FormInv'
    OBVIOUS
  <2>1. FormTypeOK'
    BY TypesKept DEF FormInv
  <2> QED
    BY <2>1, TruthsKept DEF FormInv
<1> QED
  BY <1>1, <1>2, PTL DEF FormSpec

(* Every variable of the form keeps its type.                              *)
THEOREM FormTypeCorrect == FormSpec => []FormTypeOK
<1>1. FormInv => FormTypeOK
  BY DEF FormInv
<1> QED
  BY <1>1, FormInvariant, PTL

(* What is credited to the source, on the screen or in the store, is what  *)
(* the record of the callsign beside it states, whatever is typed, looked  *)
(* up, saved and echoed, in any order.                                     *)
THEOREM MarksStayTrue == FormSpec => []MarksAreTrue
<1>1. FormInv => MarksAreTrue
  <2> SUFFICES ASSUME FormInv, NEW k \in Kinds, NEW f \in Marked
               PROVE  /\ LookedUp(drafts[k], LiveMarks(k)[f], f) =>
                           Stated(drafts[k]["callsign"].value, f, drafts[k][f].value)
                      /\ stored[k] # None /\ stored[k].marks[f] # None =>
                           Stated(stored[k].fields["callsign"].value, f, stored[k].fields[f].value)
    BY DEF MarksAreTrue
  <2>1. f \in Fields
    BY FieldNames
  <2>2. ASSUME LookedUp(drafts[k], LiveMarks(k)[f], f)
        PROVE  Stated(drafts[k]["callsign"].value, f, drafts[k][f].value)
    <3>1. LiveMarks(k)[f] # None /\ drafts[k][f].value = LiveMarks(k)[f]
      BY <2>2 DEF LookedUp
    <3>2. ForThisCallsign(k) /\ LiveMarks(k) = sources[k].marks
      BY <2>1, <3>1, FieldNames DEF LiveMarks
    <3> QED
      BY <2>1, <3>1, <3>2 DEF FormInv, SourcesTrue, ForThisCallsign
  <2>3. ASSUME stored[k] # None, stored[k].marks[f] # None
        PROVE  Stated(stored[k].fields["callsign"].value, f, stored[k].fields[f].value)
    BY <2>1, <2>3 DEF FormInv, ProfileTrue, LookedUp
  <2> QED
    BY <2>2, <2>3
<1> QED
  BY <1>1, FormInvariant, PTL

(* The same of the coordinate on the screen, unless a save has separated   *)
(* it from the callsign it was read for.                                   *)
THEOREM CoordinateCreditStaysTrue == FormSpec => []CoordinateCreditIsTrueIfKept
<1>1. FormInv => CoordinateCreditIsTrueIfKept
  <2> SUFFICES ASSUME FormInv, NEW k \in Kinds \ amiss,
                      LiveUnattributed(k) = drafts[k]["lat"].value
               PROVE  Stated(drafts[k]["callsign"].value, "lat", drafts[k]["lat"].value)
    BY DEF CoordinateCreditIsTrueIfKept
  <2>1. drafts[k]["lat"].value \in Values
    BY BoxesOfAKind DEF FormInv, FormTypeOK, IsDraft, Boxes
  <2>2. LiveUnattributed(k) # None
    BY <2>1, ValuesAreNotNone
  <2>3. ForThisCallsign(k) /\ sources[k].unattributed = drafts[k]["lat"].value
    BY <2>2 DEF LiveUnattributed
  <2> QED
    BY <2>2, <2>3 DEF FormInv, SourcesTrue, ForThisCallsign, LiveUnattributed
<1> QED
  BY <1>1, FormInvariant, PTL

(* No accepted record leaves another licensee's value in a box: the values *)
(* it is silent about are vacated when a record put them there.            *)
THEOREM OneLicenseeOnAProfile == FormSpec => OneLicensee
<1> DEFINE Accepts == \A k \in Kinds :
             panel.phase = "found" /\ panel'.phase = "accepted" /\ k = tab /\ k \notin amiss =>
               \A f \in OnProfile(k) :
                 drafts'[k][f].by \in {You, Computed, drafts'[k]["callsign"].value}
<1>1. FormInv /\ FormNext => Accepts
  <2> SUFFICES ASSUME FormInv, FormNext, panel.phase = "found", panel'.phase = "accepted",
                      tab \in Kinds, tab \notin amiss, NEW f \in OnProfile(tab)
               PROVE  drafts'[tab][f].by \in {You, Computed, drafts'[tab]["callsign"].value}
    OBVIOUS
  <2>1. PICK state \in Typed.state, lat \in Typed.lat : Accept(state, lat)
    <3>1. panel' # panel
      OBVIOUS
    <3>2. ~Found /\ ~NotFound /\ ~Confirm /\ ~Dismiss /\ ~LookUp /\ ~Reload
      BY PanelShapes DEF Found, NotFound, Confirm, Dismiss, LookUp, Reload, Closed,
         FormInv, FormTypeOK
    <3> QED
      BY <3>1, <3>2 DEF FormNext, TypeIn, OpenTab, Save, Store, Echo, SaveFails
  <2> DEFINE record == panel.record
             values == Filled(record, state, lat)
             draft  == AcceptedDraft(record, values)
  <2>2. /\ IsDraft(tab, drafts[tab]) /\ DOMAIN drafts = Kinds
        /\ BoxesTrue(tab) /\ record \in Records
    BY PanelShapes DEF FormInv, FormTypeOK
  <2>3. /\ draft["callsign"] = Box(record.callsign, record.callsign)
        /\ "callDistrict" \in OnProfile(tab) => draft["callDistrict"].by = Computed
        /\ \A g \in {"state", "lat"} :
             IF values[g] # Blank THEN draft[g] = Box(values[g], By(record, values, g))
             ELSE IF g \in Vacated(tab, values) THEN draft[g] = Nobody
             ELSE draft[g] = drafts[tab][g]
    BY <2>2, AcceptIsADraft
  <2>4. drafts'[tab] = draft
    BY <2>1, <2>2 DEF Accept
  <2>5. draft["callsign"].value = record.callsign /\ draft["callsign"].by = record.callsign
    BY <2>3 DEF Box
  <2>6. ASSUME NEW g \in {"state", "lat"}
        PROVE  draft[g].by \in {You, Computed, record.callsign}
    <3>1. CASE values[g] # Blank
      BY <2>3, <3>1 DEF Box, By
    <3>2. CASE values[g] = Blank /\ g \in Vacated(tab, values)
      BY <2>3, <3>2 DEF Nobody
    <3>3. CASE values[g] = Blank /\ g \notin Vacated(tab, values)
      <4>1. draft[g] = drafts[tab][g] /\ draft[g] \in Boxes
        BY <2>2, <2>3, <3>3, BoxesOfAKind DEF IsDraft
      <4>2. drafts[tab][g].by \notin Callsigns
        BY <2>2, <3>3 DEF BoxesTrue, Vacated
      <4> QED
        BY <4>1, <4>2 DEF Boxes
    <3> QED
      BY <3>1, <3>2, <3>3
  <2>7. f \in {"callsign", "state", "lat", "callDistrict"}
    BY BoxesOfAKind, FieldNames
  <2> QED
    BY <2>3, <2>4, <2>5, <2>6, <2>7
<1>2. FormInv /\ [FormNext]_formVars => [Accepts]_formVars
  BY <1>1
<1> QED
  BY <1>2, FormInvariant, PTL DEF FormSpec, OneLicensee
=============================================================================
