------------------------------ MODULE ProfileForm ------------------------------
(***************************************************************************)
(* The profile editor of the web client and the callsign lookup inside it  *)
(* (routes/Profile.tsx, components/CallsignLookup.tsx, lib/callsignFill.ts,*)
(* pruneFieldSources of packages/core/src/types.ts) beside the profiles    *)
(* the server holds (api/profileRouter.ts).                                *)
(*                                                                         *)
(* A field the source stated is told from one the applicant stated by      *)
(* comparing what is in the box with what the record put there, never by a *)
(* flag.  `by` is a history of the truth those comparisons stand in for:   *)
(* who really put the value there.                                         *)
(*                                                                         *)
(* Of the fields a licence record states, state stands for those that are  *)
(* stored with a mark (licenseClass, orgName), lat for the two coordinates,*)
(* which are not; callDistrict is computed from the callsign.              *)
(***************************************************************************)
EXTENDS Naturals

CONSTANTS
  Kinds,       (* the tabs of the editor                                    *)
  Callsigns,   (* what may be in the callsign box, beside nothing           *)
  Licence,     (* [Callsigns -> the record its lookup finds, or None]       *)
  DistrictOf,  (* [Callsigns -> the district it implies, or Blank]          *)
  Typed,       (* [Fields -> what the applicant types into it]              *)
  None,
  MaxEdits, MaxLookups, MaxSaves   (* bounds: how many of each there are    *)

Blank == ""
You == "you"
Computed == "computed"

Fields == {"callsign", "state", "lat", "callDistrict"}
OnProfile(k) == IF k = "student" THEN Fields ELSE Fields \ {"callDistrict"}
Marked == {"callsign", "state"}   (* callsignFillableFields                 *)

(* What a box may hold, and what a lookup may find.                        *)
Values ==
  {Blank} \cup Callsigns \cup (UNION {Typed[f] : f \in Fields})
  \cup {DistrictOf[c] : c \in Callsigns}

Records == [callsign : Callsigns, state : Typed["state"], lat : Typed["lat"]]

(* No callsign reads as nothing or as who else fills a box; a record is    *)
(* about a callsign, and states what an applicant might have typed.        *)
ASSUME FormAssumption ==
  /\ Callsigns \cap {Blank, You, Computed} = {}
  /\ Typed["callsign"] \subseteq Callsigns \cup {Blank}
  /\ \A c \in Callsigns : Licence[c] \in Records \cup {None}
  /\ None \notin Values
  /\ {MaxEdits, MaxLookups, MaxSaves} \subseteq Nat

VARIABLES
  tab,      (* the kind whose tab is open                                   *)
  drafts,   (* [Kinds -> [its fields -> what is in the box, and by whom]]   *)
  sources,  (* [Kinds -> [readFor, marks, unattributed]]                    *)
  stored,   (* the server's profiles: [Kinds -> [fields, marks] or None]    *)
  panel,    (* the lookup beside the callsign box                           *)
  saving,   (* the save in flight, or None                                  *)
  amiss,    (* kinds whose unattributed values have lost their subject: a   *)
            (* save echoed over a lookup accepted meanwhile, or under       *)
            (* another callsign than the record's; until a lookup fills     *)
            (* them anew                                                    *)
  edits, lookups, saves

counts == <<edits, lookups, saves>>
formVars == <<tab, drafts, sources, stored, panel, saving, amiss, counts>>

Nobody == [value |-> Blank, by |-> You]
Empty(k) == [f \in OnProfile(k) |-> Nobody]
Unmarked == [f \in Fields |-> None]
NoSources == [readFor |-> Blank, marks |-> Unmarked, unattributed |-> None]
Closed == [phase |-> "closed"]

District(c) == IF c = Blank THEN Blank ELSE DistrictOf[c]
Box(value, by) == [value |-> value, by |-> by]

-----------------------------------------------------------------------------
(* What stands in a box is what a mark says was put there.                 *)
LookedUp(draft, mark, f) == mark # None /\ draft[f].value = mark /\ mark # Blank

(* liveMarks: none of them under another callsign than the record's.       *)
ForThisCallsign(k) == drafts[k]["callsign"].value = sources[k].readFor
LiveMarks(k) == IF ForThisCallsign(k) THEN sources[k].marks ELSE Unmarked

(* Mutant: the coordinate stays the record's under any callsign.           *)
LiveUnattributedAlways(k) == sources[k].unattributed

LiveUnattributed(k) == IF ForThisCallsign(k) THEN sources[k].unattributed ELSE None

(* pruneFieldSources.                                                      *)
Prune(draft, marks) ==
  [f \in Fields |-> IF f \in DOMAIN draft /\ LookedUp(draft, marks[f], f) THEN marks[f] ELSE None]

(* setValue: a district that is blank, or what the callsign implied until  *)
(* now, follows the callsign.                                              *)
Set(k, f, v) ==
  LET draft == drafts[k]
      next  == [draft EXCEPT ![f] = Box(v, You)]
      held  == draft["callDistrict"].value
  IN IF \/ k # "student" \/ f = "callDistrict"
        \/ held \notin {Blank, District(draft["callsign"].value)}
       THEN next
     ELSE [next EXCEPT !["callDistrict"] = Box(District(next["callsign"].value), Computed)]

TypeIn(f, v) ==
  /\ edits < MaxEdits
  /\ f \in OnProfile(tab) /\ drafts[tab][f].value # v
  /\ drafts' = [drafts EXCEPT ![tab] = Set(tab, f, v)]
  /\ edits' = edits + 1
  /\ UNCHANGED <<tab, sources, stored, panel, saving, amiss, lookups, saves>>

(* openTab.  The lookup stays where it is.                                 *)
OpenTab(k) ==
  /\ k # tab
  /\ tab' = k
  /\ UNCHANGED <<drafts, sources, stored, panel, saving, amiss, counts>>

-----------------------------------------------------------------------------
(* CallsignLookup: typed is what is in the callsign box now, whatever it   *)
(* was when the lookup was started.                                        *)
InTheBox == drafts[tab]["callsign"].value

LookUp ==
  /\ lookups < MaxLookups
  /\ panel.phase # "busy" /\ InTheBox # Blank
  /\ panel' = [phase |-> "busy", asked |-> InTheBox]
  /\ lookups' = lookups + 1
  /\ UNCHANGED <<tab, drafts, sources, stored, saving, amiss, edits, saves>>

Found ==
  /\ panel.phase = "busy" /\ Licence[panel.asked] # None
  /\ panel' = [phase |-> "found", record |-> Licence[panel.asked], confirmed |-> FALSE]
  /\ UNCHANGED <<tab, drafts, sources, stored, saving, amiss, counts>>

(* Nothing found, nothing readable, nothing answered.                      *)
NotFound ==
  /\ panel.phase = "busy"
  /\ panel' = Closed
  /\ UNCHANGED <<tab, drafts, sources, stored, saving, amiss, counts>>

Confirm ==
  /\ panel.phase = "found" /\ panel.record.callsign # InTheBox /\ ~panel.confirmed
  /\ panel' = [panel EXCEPT !.confirmed = TRUE]
  /\ UNCHANGED <<tab, drafts, sources, stored, saving, amiss, counts>>

Dismiss ==
  /\ panel.phase \in {"found", "accepted"}
  /\ panel' = Closed
  /\ UNCHANGED <<tab, drafts, sources, stored, saving, amiss, counts>>

(* fillFromLookup over what the boxes of the panel hold: a value is the    *)
(* source's when it is exactly what the record states; a callsign the      *)
(* applicant had typed is marked for nobody.                               *)
Filled(record, state, lat) ==
  [callsign |-> record.callsign, state |-> state, lat |-> lat]

By(record, values, f) ==
  IF f = "callsign" \/ values[f] = record[f] THEN record.callsign ELSE You

Marks(record, values) ==
  [f \in Fields |->
     IF \/ f = "callsign" /\ record.callsign # InTheBox
        \/ f = "state" /\ values.state = record.state /\ record.state # Blank
       THEN values[f] ELSE None]

(* Mutant: what another record put there stays where this one is silent.   *)
VacatedNever(k, values) == {}

(* applyLookup's vacated: the fields the record read before filled, that   *)
(* this one is silent on and the applicant has left alone.                 *)
Vacated(k, values) ==
  {f \in {"state", "lat"} :
     /\ values[f] = Blank
     /\ \/ LookedUp(drafts[k], sources[k].marks[f], f)
        \/ f = "lat" /\ drafts[k][f].value = sources[k].unattributed}

(* The marks replace the ones held.                                        *)
Read(k, record, values) ==
  [readFor |-> record.callsign,
   marks |-> Marks(record, values),
   unattributed |-> IF values.lat # Blank /\ values.lat = record.lat THEN values.lat ELSE None]

(* What is used goes into its box, what is vacated leaves it.              *)
AcceptedDraft(record, values) ==
  LET gone == Vacated(tab, values) IN
  [f \in OnProfile(tab) |->
     CASE f = "callDistrict" -> Box(District(record.callsign), Computed)
       [] f \in DOMAIN values /\ values[f] # Blank -> Box(values[f], By(record, values, f))
       [] f \in gone -> Nobody
       [] OTHER -> drafts[tab][f]]

(* "Use these values": what is in the panel's boxes, of which the state    *)
(* starts as the record's and the coordinate empty.                        *)
Accept(state, lat) ==
  LET record == panel.record
      values == Filled(record, state, lat)
  IN /\ panel.phase = "found"
     /\ record.callsign # InTheBox => panel.confirmed
     /\ drafts' = [drafts EXCEPT ![tab] = AcceptedDraft(record, values)]
     /\ sources' = [sources EXCEPT ![tab] = Read(tab, record, values)]
     /\ panel' = [phase |-> "accepted"]
     /\ amiss' = IF saving # None /\ saving.kind = tab THEN amiss \cup {tab}
                 ELSE IF lat # Blank \/ drafts'[tab]["lat"].by = You THEN amiss \ {tab}
                 ELSE amiss
     /\ UNCHANGED <<tab, stored, saving, counts>>

-----------------------------------------------------------------------------
(* save: the draft, and the marks that are still about this callsign and   *)
(* this value.                                                             *)

(* Mutant: the marks held are sent, about whomever they are.               *)
PayloadHeld(k) ==
  [fields |-> drafts[k], marks |-> Prune(drafts[k], sources[k].marks)]

Payload(k) ==
  [fields |-> drafts[k], marks |-> Prune(drafts[k], LiveMarks(k))]

Save ==
  /\ saves < MaxSaves
  /\ saving = None
  /\ saving' = [kind |-> tab, payload |-> Payload(tab), taken |-> FALSE]
  /\ saves' = saves + 1
  /\ UNCHANGED <<tab, drafts, sources, stored, panel, amiss, edits, lookups>>

(* PUT /api/profiles/:kind.                                                *)
Store ==
  /\ saving # None /\ ~saving.taken
  /\ stored' = [stored EXCEPT ![saving.kind] = saving.payload]
  /\ saving' = [saving EXCEPT !.taken = TRUE]
  /\ UNCHANGED <<tab, drafts, sources, panel, amiss, counts>>

(* What a box holds was said by the applicant once it is stored with       *)
(* nothing to say that a record about this callsign put it there.          *)
Adopted(draft, f) ==
  LET c == draft["callsign"].value IN
  IF draft[f].by \in Callsigns \ {c} THEN Box(draft[f].value, You) ELSE draft[f]

(* sourcesOf: the stored marks are about the stored callsign.              *)
SourcesOf(profile) ==
  [readFor |-> profile.fields["callsign"].value, marks |-> profile.marks, unattributed |-> None]

(* The answer replaces the draft and the marks of its kind, whatever was   *)
(* done to them meanwhile; what the echo cannot carry stays as it is.      *)
Echo ==
  /\ saving # None /\ saving.taken
  /\ LET k == saving.kind
         profile == saving.payload
     IN /\ drafts' = [drafts EXCEPT ![k] = [f \in OnProfile(k) |-> Adopted(profile.fields, f)]]
        /\ sources' = [sources EXCEPT ![k] =
             [SourcesOf(profile) EXCEPT !.unattributed = sources[k].unattributed]]
        /\ amiss' = IF profile.fields["callsign"].value # sources[k].readFor
                    THEN amiss \cup {k} ELSE amiss
  /\ saving' = None
  /\ UNCHANGED <<tab, stored, panel, counts>>

(* Refused, or never answered: the draft is as it was.                     *)
SaveFails ==
  /\ saving # None
  /\ saving' = None
  /\ UNCHANGED <<tab, drafts, sources, stored, panel, amiss, counts>>

(* The page is loaded again and hydrated: who said what is now what the    *)
(* stored marks say, and for a coordinate the applicant, as the caveat     *)
(* beside it owns.                                                         *)
Hydrated(k) ==
  IF stored[k] = None THEN Empty(k)
  ELSE [f \in OnProfile(k) |->
          LET v == stored[k].fields[f].value IN
          CASE stored[k].marks[f] # None -> stored[k].fields[f]
            [] f = "callDistrict" /\ stored[k].fields[f].by = Computed -> stored[k].fields[f]
            [] OTHER -> Box(v, You)]

Reload ==
  /\ drafts' = [k \in Kinds |-> Hydrated(k)]
  /\ sources' = [k \in Kinds |-> IF stored[k] = None THEN NoSources ELSE SourcesOf(stored[k])]
  /\ panel' = Closed
  /\ saving' = None
  /\ amiss' = {}
  /\ UNCHANGED <<tab, stored, counts>>

-----------------------------------------------------------------------------
FormInit ==
  /\ tab \in Kinds
  /\ drafts = [k \in Kinds |-> Empty(k)]
  /\ sources = [k \in Kinds |-> NoSources]
  /\ stored = [k \in Kinds |-> None]
  /\ panel = Closed
  /\ saving = None
  /\ amiss = {}
  /\ edits = 0 /\ lookups = 0 /\ saves = 0

FormNext ==
  \/ \E f \in Fields : \E v \in Typed[f] : TypeIn(f, v)
  \/ \E k \in Kinds : OpenTab(k)
  \/ LookUp \/ Found \/ NotFound \/ Confirm \/ Dismiss
  \/ \E state \in Typed.state, lat \in Typed.lat : Accept(state, lat)
  \/ Save \/ Store \/ Echo \/ SaveFails \/ Reload

FormSpec == FormInit /\ [][FormNext]_formVars

-----------------------------------------------------------------------------
Boxes == [value : Values, by : {You, Computed} \cup Callsigns]
AllMarks == [Fields -> Values \cup {None}]

(* The boxes of a kind; its callsign box holds a callsign or nothing.      *)
IsDraft(k, draft) ==
  /\ draft \in [OnProfile(k) -> Boxes]
  /\ draft["callsign"].value \in Callsigns \cup {Blank}

IsProfile(k, profile) ==
  /\ profile \in [fields : [OnProfile(k) -> Boxes], marks : AllMarks]
  /\ IsDraft(k, profile.fields)

Panels ==
  {Closed} \cup [phase : {"busy"}, asked : Callsigns]
  \cup [phase : {"found"}, record : Records, confirmed : BOOLEAN]
  \cup [phase : {"accepted"}]

(* Every variable keeps its type.                                          *)
FormTypeOK ==
  /\ tab \in Kinds
  /\ DOMAIN drafts = Kinds /\ \A k \in Kinds : IsDraft(k, drafts[k])
  /\ sources \in [Kinds -> [readFor : Callsigns \cup {Blank}, marks : AllMarks,
                           unattributed : Values \cup {None}]]
  /\ DOMAIN stored = Kinds
  /\ \A k \in Kinds : stored[k] # None => IsProfile(k, stored[k])
  /\ panel \in Panels
  /\ saving # None => /\ DOMAIN saving = {"kind", "payload", "taken"}
                      /\ saving.kind \in Kinds /\ saving.taken \in BOOLEAN
                      /\ IsProfile(saving.kind, saving.payload)
  /\ amiss \subseteq Kinds
  /\ edits \in 0..MaxEdits /\ lookups \in 0..MaxLookups /\ saves \in 0..MaxSaves

(* What is credited to the source, on the screen or in the store, is what  *)
(* the record of the callsign beside it states: a mark never outlives the  *)
(* licensee or the value it is about.                                      *)
Stated(c, f, v) ==
  \E d \in Callsigns :
    /\ Licence[d] # None /\ Licence[d].callsign = c
    /\ Licence[d][f] = v

MarksAreTrue ==
  \A k \in Kinds, f \in Marked :
    /\ LookedUp(drafts[k], LiveMarks(k)[f], f) =>
         Stated(drafts[k]["callsign"].value, f, drafts[k][f].value)
    /\ stored[k] # None /\ stored[k].marks[f] # None =>
         Stated(stored[k].fields["callsign"].value, f, stored[k].fields[f].value)

(* The same of the coordinate, whose source is said on the screen only.    *)
CoordinateCreditIsTrue ==
  \A k \in Kinds :
    LET v == drafts[k]["lat"].value IN
    v # Blank /\ LiveUnattributed(k) = v => Stated(drafts[k]["callsign"].value, "lat", v)

(* ... unless a save has separated it from the callsign it was read for.   *)
CoordinateCreditIsTrueIfKept ==
  \A k \in Kinds \ amiss :
    LET v == drafts[k]["lat"].value IN
    v # Blank /\ LiveUnattributed(k) = v => Stated(drafts[k]["callsign"].value, "lat", v)

(* Accepting a record never leaves two licensees on one profile: what is   *)
(* in the boxes then is this record's, the applicant's own, or computed.   *)
(* By counts what came out of the store as the applicant's own, whoever    *)
(* put it there before it was saved: nothing is said of those values.      *)
OneLicensee ==
  [][\A k \in Kinds : panel.phase = "found" /\ panel'.phase = "accepted" /\ k = tab /\ k \notin amiss =>
       \A f \in OnProfile(k) :
         drafts'[k][f].by \in {You, Computed, drafts'[k]["callsign"].value}]_formVars
=============================================================================
