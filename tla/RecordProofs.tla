------------------------------ MODULE RecordProofs ------------------------------
(***************************************************************************)
(* What is proved about a programme's record: about the two doors by which *)
(* the corpus of an image comes to the records of a deployment, for any    *)
(* programmes, any number of images and whatever each ships; and about the *)
(* verdict that is drawn from a record, for any profile being filled in    *)
(* and any constraints the extractors could have written.                  *)
(***************************************************************************)
EXTENDS SeedCorrections, Matcher, TLAPS

---------------------------------------------------------------------------
(* The records of a deployment *)

(* What the matcher or the calendar reads out of a text in this field.      *)
Reading(path, text) ==
  IF path = "note" THEN Says[text]
  ELSE IF path = "sentence" /\ text # None THEN Says[text]
  ELSE None

(* The corrections of a boot change nothing anybody reads.                  *)
SameReading(v, p, path) == Reading(path, Shipped[v][p][path]) = Reading(path, stored[p][path])

(* A rule has a sentence that displays it, and a sentence a rule.           *)
Paired(record) == record["rule"] = None <=> record["sentence"] = None
RulesAreDisplayed == \A p \in Held : Paired(stored[p])

SeedInv == TypeOK /\ RulesAreDisplayed /\ NothingIsStranded

-----------------------------------------------------------------------------
(* What a record means is its rule and what is read out of two texts.    *)
LEMMA MeaningByField ==
  ASSUME NEW r \in Records, NEW s \in Records
  PROVE  Meaning(r) = Meaning(s) <=>
           /\ r["rule"] = s["rule"]
           /\ \A path \in Correctable : Reading(path, r[path]) = Reading(path, s[path])
BY DEF Meaning, Reading, Correctable, Records, Paths

LEMMA WithCorrectionField ==
  ASSUME NEW v, NEW p, NEW r \in Records, Shipped[v][p] \in Records, NEW path \in Correctable
  PROVE  /\ WithCorrection(r, v, p, path) \in Records
         /\ WithCorrection(r, v, p, path)[path] = Shipped[v][p][path]
         /\ \A other \in Paths \ {path} : WithCorrection(r, v, p, path)[other] = r[other]
BY DEF WithCorrection, Records, Paths, Correctable

(* One correction on a record in which this field is still as it is stored. *)
LEMMA WithIfSameField ==
  ASSUME NEW v, NEW p, NEW r \in Records, stored[p] \in Records, Shipped[v][p] \in Records,
         NEW path \in Correctable,
         r[path] = stored[p][path], Meaning(r) = Meaning(stored[p])
  PROVE  /\ WithIfSame(r, v, p, path) \in Records
         /\ Meaning(WithIfSame(r, v, p, path)) = Meaning(stored[p])
         /\ WithIfSame(r, v, p, path)[path] =
              IF path \in Plan(v, p) /\ SameReading(v, p, path)
                THEN Shipped[v][p][path] ELSE stored[p][path]
         /\ \A other \in Paths \ {path} : WithIfSame(r, v, p, path)[other] = r[other]
<1> DEFINE next == WithCorrection(r, v, p, path)
<1>1. /\ next \in Records /\ next[path] = Shipped[v][p][path]
      /\ \A other \in Paths \ {path} : next[other] = r[other]
  BY WithCorrectionField
<1>2. Meaning(next) = Meaning(stored[p]) <=> SameReading(v, p, path)
  <2>1. Meaning(next) = Meaning(r) <=>
          /\ next["rule"] = r["rule"]
          /\ \A q \in Correctable : Reading(q, next[q]) = Reading(q, r[q])
    BY <1>1, MeaningByField
  <2>2. next["rule"] = r["rule"] /\ \A q \in Correctable \ {path} : next[q] = r[q]
    BY <1>1 DEF Correctable, Paths
  <2> QED
    BY <1>1, <2>1, <2>2 DEF SameReading
<1> QED
  BY <1>1, <1>2 DEF WithIfSame

(* A boot's corrections, made one after another, come to this: each field   *)
(* by itself is replaced when it is ours and reads the same, whatever       *)
(* became of the others.                                                    *)
LEMMA CorrectedFieldByField ==
  ASSUME NEW v, NEW p, stored[p] \in Records, Shipped[v][p] \in Records
  PROVE  /\ Corrected(v, p) \in Records
         /\ Meaning(Corrected(v, p)) = Meaning(stored[p])
         /\ Corrected(v, p)["rule"] = stored[p]["rule"]
         /\ \A path \in Correctable :
              Corrected(v, p)[path] =
                IF path \in Plan(v, p) /\ SameReading(v, p, path)
                  THEN Shipped[v][p][path] ELSE stored[p][path]
<1> DEFINE figured == WithIfSame(stored[p], v, p, "figure")
           noted   == WithIfSame(figured, v, p, "note")
           whole   == WithIfSame(noted, v, p, "sentence")
           Due(path) == IF path \in Plan(v, p) /\ SameReading(v, p, path)
                          THEN Shipped[v][p][path] ELSE stored[p][path]
<1>0. /\ "figure" \in Correctable /\ "note" \in Correctable /\ "sentence" \in Correctable
      /\ Correctable = {"figure", "note", "sentence"}
      /\ Paths = {"figure", "note", "sentence", "rule"}
  BY DEF Correctable, Paths
<1>1. /\ figured \in Records /\ Meaning(figured) = Meaning(stored[p])
      /\ figured["figure"] = Due("figure")
      /\ \A other \in Paths \ {"figure"} : figured[other] = stored[p][other]
  BY <1>0, WithIfSameField
<1>2. /\ noted \in Records /\ Meaning(noted) = Meaning(stored[p])
      /\ noted["note"] = Due("note")
      /\ \A other \in Paths \ {"note"} : noted[other] = figured[other]
  <2>1. figured["note"] = stored[p]["note"]
    BY <1>0, <1>1
  <2> HIDE DEF figured
  <2> QED
    BY <1>0, <1>1, <2>1, WithIfSameField
<1>3. /\ whole \in Records /\ Meaning(whole) = Meaning(stored[p])
      /\ whole["sentence"] = Due("sentence")
      /\ \A other \in Paths \ {"sentence"} : whole[other] = noted[other]
  <2>1. noted["sentence"] = stored[p]["sentence"]
    BY <1>0, <1>1, <1>2
  <2> HIDE DEF noted
  <2> QED
    BY <1>0, <1>2, <2>1, WithIfSameField
<1>4. Corrected(v, p) = whole
  BY DEF Corrected
<1>5. \A path \in Correctable : whole[path] = Due(path)
  <2> HIDE DEF figured, noted, whole, Due
  <2> QED
    BY <1>0, <1>1, <1>2, <1>3
<1>6. whole["rule"] = stored[p]["rule"]
  <2> HIDE DEF figured, noted, whole, Due
  <2> QED
    BY <1>0, <1>1, <1>2, <1>3
<1> QED
  BY <1>3, <1>4, <1>5, <1>6

-----------------------------------------------------------------------------
(* What is shipped is typed, and a record is never the lack of one.         *)
LEMMA ShippedTyped ==
  /\ \A v \in 1..Images : \A p \in Programs :
       /\ Shipped[v] \in [Programs -> Records \cup {Absent}]
       /\ Shipped[v][p] # Absent => Shipped[v][p] \in Records /\ Paired(Shipped[v][p])
  /\ \A p \in Programs : \A record \in Candidates[p] : record \in Records /\ Paired(record)
  /\ Absent \notin Records
  /\ MaxWrites \in Nat /\ Images \in Nat \ {0}
<1>1. ASSUME NEW v \in 1..Images, NEW p \in Programs
      PROVE  /\ Shipped[v] \in [Programs -> Records \cup {Absent}]
             /\ Shipped[v][p] # Absent => Shipped[v][p] \in Records
  BY SeedAssumption DEF SeedAssumption
<1>2. \A record \in Known : Paired(record)
  BY SeedAssumption DEF SeedAssumption, Paired
<1>3. \A v \in 1..Images : \A p \in Programs : Shipped[v][p] # Absent => Shipped[v][p] \in Known
  BY DEF Known
<1>4. ASSUME NEW p \in Programs, NEW record \in Candidates[p]
      PROVE  record \in Records /\ record \in Known
  <2>1. record \in Records /\ record # Absent
    BY SeedAssumption DEF SeedAssumption
  <2> QED
    BY <2>1 DEF Known
<1> QED
  BY <1>1, <1>2, <1>3, <1>4, SeedAssumption DEF SeedAssumption

LEMMA InBothRecords ==
  ASSUME TypeOK, NEW v \in 1..Images, NEW p \in InBoth(v)
  PROVE  p \in Programs /\ stored[p] \in Records /\ Shipped[v][p] \in Records
BY ShippedTyped DEF TypeOK, InBoth, Held

LEMMA WithShippedRulesField ==
  ASSUME NEW r \in Records, NEW shipped \in Records
  PROVE  /\ WithShippedRules(r, shipped) \in Records
         /\ WithShippedRules(r, shipped)["rule"] = shipped["rule"]
         /\ \A path \in {"figure", "note"} : WithShippedRules(r, shipped)[path] = r[path]
         /\ WithShippedRules(r, shipped)["sentence"] =
              IF None \in {r["sentence"], shipped["sentence"]}
                THEN shipped["sentence"] ELSE r["sentence"]
BY DEF WithShippedRules, Records, Paths, Correctable

(* A proposal that is pending for p says what is and what is shipped.       *)
AddsRecord(q, p) ==
  /\ q.kind = "record" /\ stored[p] = Absent
  /\ q.to = Shipped[image][p] /\ q.to # Absent

MovesText(q, p) ==
  /\ q.kind = "wording" /\ p \in InBoth(image) /\ q.path \in Correctable
  /\ q.from = stored[p][q.path] /\ q.to = Shipped[image][p][q.path]
  /\ None \notin {q.from, q.to} /\ Witnessed(image, p, q.path, q.from)

MovesRule(q, p) ==
  /\ q.kind = "rules" /\ p \in InBoth(image) /\ q.path = "rule"
  /\ q.from = stored[p]["rule"] /\ q.to = Shipped[image][p]["rule"]
  /\ Witnessed(image, p, "rule", q.from)

LEMMA PendingSays ==
  ASSUME NEW q \in Pending
  PROVE  /\ q.program \in Programs
         /\ AddsRecord(q, q.program) \/ MovesText(q, q.program) \/ MovesRule(q, q.program)
<1>1. CASE q \in Additions
  BY <1>1 DEF Additions, Proposal, Held, AddsRecord
<1>2. CASE q \in Wording
  <2>1. PICK p \in InBoth(image) : \E path \in Reworded(p) :
          q = Proposal("wording", p, path, stored[p][path], Shipped[image][p][path])
    BY <1>2 DEF Wording
  <2> QED
    BY <2>1 DEF Proposal, Reworded, Plan, MovesText, InBoth, Held
<1>3. CASE q \in Rules
  BY <1>3 DEF Rules, Proposal, RulesDiffer, MovesRule, InBoth, Held
<1> QED
  BY <1>1, <1>2, <1>3 DEF Pending

(* Of a record, the texts that chosen wordings move.                        *)
LEMMA WordedField ==
  ASSUME TypeOK, NEW chosen \in SUBSET Pending, NEW p \in InBoth(image)
  PROVE  /\ Worded(p, chosen) \in Records
         /\ \A path \in Paths :
              \/ Worded(p, chosen)[path] = stored[p][path]
              \/ \E q \in chosen : /\ q.program = p /\ q.path = path /\ MovesText(q, p)
                                   /\ Worded(p, chosen)[path] = q.to
<1>1. stored[p] \in Records /\ Shipped[image][p] \in Records
  BY InBothRecords DEF TypeOK
<1>2. ASSUME NEW path \in Paths
      PROVE  \/ Worded(p, chosen)[path] = stored[p][path]
             \/ \E q \in chosen : /\ q.program = p /\ q.path = path /\ MovesText(q, p)
                                  /\ Worded(p, chosen)[path] = q.to
  <2> DEFINE moves == {q \in Mine(p, chosen) : q.kind = "wording" /\ q.path = path}
  <2>1. Worded(p, chosen)[path] =
          IF moves = {} THEN stored[p][path] ELSE (CHOOSE q \in moves : TRUE).to
    BY DEF Worded
  <2>2. \A q \in moves : q \in chosen /\ q.program = p /\ q.path = path /\ MovesText(q, p)
    BY PendingSays DEF Mine, AddsRecord, MovesRule
  <2> QED
    BY <2>1, <2>2
<1>3. \A path \in Paths : Worded(p, chosen)[path] \in Texts
  BY <1>1, <1>2 DEF Records, MovesText, Correctable, Paths
<1>4. Worded(p, chosen) \in Records
  BY <1>3 DEF Worded, Records
<1> QED
  BY <1>2, <1>4

(* What the chosen proposals make of the record of p: it is added whole, or *)
(* every field of it that moves was to move so, but for the sentence that   *)
(* comes or goes with a rule.                                               *)
WithRule(p, now) ==
  /\ now["rule"] = Shipped[image][p]["rule"]
  /\ now["sentence"] = Shipped[image][p]["sentence"]
  /\ None \in {stored[p]["sentence"], now["sentence"]}

FieldMoves(chosen, p, path, now) ==
  \/ \E q \in chosen : /\ q.program = p /\ q.path = path
                       /\ MovesText(q, p) \/ MovesRule(q, p)
                       /\ q.to = now[path]
  \/ /\ path = "sentence" /\ WithRule(p, now)
     /\ \E q \in chosen : q.program = p /\ MovesRule(q, p) /\ q.to = now["rule"]

RuleMovesPaired(p, now) ==
  now["rule"] # stored[p]["rule"] =>
    (now["sentence"] = None <=> Shipped[image][p]["sentence"] = None)

LEMMA ConsentedField ==
  ASSUME TypeOK, NEW chosen \in SUBSET Pending, NEW p \in Programs
  PROVE  \/ Consented(p, chosen) = stored[p]
         \/ /\ stored[p] = Absent /\ Consented(p, chosen) \in Records
            /\ \E q \in chosen : q.program = p /\ AddsRecord(q, p) /\ q.to = Consented(p, chosen)
         \/ /\ p \in InBoth(image) /\ Consented(p, chosen) \in Records
            /\ \A path \in Paths :
                 \/ Consented(p, chosen)[path] = stored[p][path]
                 \/ FieldMoves(chosen, p, path, Consented(p, chosen))
            /\ RuleMovesPaired(p, Consented(p, chosen))
<1>1. \A q \in Mine(p, chosen) : /\ q \in chosen /\ q.program = p
                                 /\ AddsRecord(q, p) \/ MovesText(q, p) \/ MovesRule(q, p)
  BY PendingSays DEF Mine
<1>2. CASE Mine(p, chosen) = {}
  BY <1>2 DEF Consented
<1>3. ASSUME NEW q \in Mine(p, chosen), q.kind = "record"
      PROVE  /\ stored[p] = Absent /\ Consented(p, chosen) \in Records
             /\ \E r \in chosen : r.program = p /\ AddsRecord(r, p) /\ r.to = Consented(p, chosen)
  <2>1. AddsRecord(q, p)
    BY <1>1, <1>3 DEF MovesText, MovesRule
  <2>2. Consented(p, chosen) = Shipped[image][p]
    BY <1>3 DEF Consented
  <2>3. Shipped[image][p] \in Records
    BY <2>1, ShippedTyped DEF AddsRecord, TypeOK
  <2> QED
    BY <1>1, <2>1, <2>2, <2>3 DEF AddsRecord
<1>4. CASE Mine(p, chosen) # {} /\ ~\E q \in Mine(p, chosen) : q.kind = "record"
  <2> DEFINE worded == Worded(p, chosen)
  <2>1. p \in InBoth(image)
    BY <1>1, <1>4 DEF AddsRecord, MovesText, MovesRule
  <2>2. stored[p] \in Records /\ Shipped[image][p] \in Records
    BY <2>1, InBothRecords DEF TypeOK
  <2>3. /\ worded \in Records
        /\ \A path \in Paths :
             \/ worded[path] = stored[p][path]
             \/ \E q \in chosen : /\ q.program = p /\ q.path = path /\ MovesText(q, p)
                                  /\ worded[path] = q.to
    BY <2>1, WordedField
  <2> HIDE DEF worded
  <2>4. ASSUME NEW q \in Mine(p, chosen), q.kind = "rules"
        PROVE  /\ Consented(p, chosen) \in Records
               /\ \A path \in Paths :
                    \/ Consented(p, chosen)[path] = stored[p][path]
                    \/ FieldMoves(chosen, p, path, Consented(p, chosen))
               /\ RuleMovesPaired(p, Consented(p, chosen))
    <3> DEFINE ruled == WithShippedRules(worded, Shipped[image][p])
    <3>1. Consented(p, chosen) = ruled
      BY <1>4, <2>4 DEF Consented, worded
    <3>2. /\ ruled \in Records /\ ruled["rule"] = Shipped[image][p]["rule"]
          /\ \A path \in {"figure", "note"} : ruled[path] = worded[path]
          /\ ruled["sentence"] = IF None \in {worded["sentence"], Shipped[image][p]["sentence"]}
                                   THEN Shipped[image][p]["sentence"] ELSE worded["sentence"]
      BY <2>2, <2>3, WithShippedRulesField
    <3> HIDE DEF ruled
    <3>3. q \in chosen /\ q.program = p /\ MovesRule(q, p) /\ q.to = ruled["rule"]
      BY <1>1, <2>4, <3>2 DEF AddsRecord, MovesText, MovesRule
    <3>4. FieldMoves(chosen, p, "rule", ruled)
      BY <3>3 DEF FieldMoves, MovesRule
    <3>5. \A path \in {"figure", "note"} :
            ruled[path] = stored[p][path] \/ FieldMoves(chosen, p, path, ruled)
      <4> TAKE path \in {"figure", "note"}
      <4>1. CASE worded[path] = stored[p][path]
        BY <3>2, <4>1
      <4>2. ASSUME NEW r \in chosen, r.program = p, r.path = path, MovesText(r, p),
                   worded[path] = r.to
            PROVE  FieldMoves(chosen, p, path, ruled)
        BY <3>2, <4>2 DEF FieldMoves
      <4> QED
        BY <2>3, <4>1, <4>2 DEF Paths, Correctable
    <3>6. \/ ruled["sentence"] = stored[p]["sentence"]
          \/ FieldMoves(chosen, p, "sentence", ruled)
      <4>1. CASE ruled["sentence"] = worded["sentence"] /\ worded["sentence"] = stored[p]["sentence"]
        BY <4>1
      <4>2. CASE ruled["sentence"] = worded["sentence"] /\ worded["sentence"] # stored[p]["sentence"]
        <5>1. PICK r \in chosen : /\ r.program = p /\ r.path = "sentence" /\ MovesText(r, p)
                                  /\ worded["sentence"] = r.to
          BY <2>3, <4>2 DEF Paths, Correctable
        <5> QED
          BY <4>2, <5>1 DEF FieldMoves
      <4>3. CASE ruled["sentence"] # worded["sentence"]
        <5>1. /\ None \in {worded["sentence"], Shipped[image][p]["sentence"]}
              /\ ruled["sentence"] = Shipped[image][p]["sentence"]
          BY <3>2, <4>3
        <5>2. worded["sentence"] = stored[p]["sentence"] \/ worded["sentence"] # None
          BY <2>3 DEF Paths, Correctable, MovesText
        <5>3. WithRule(p, ruled)
          BY <3>2, <5>1, <5>2 DEF WithRule
        <5> QED
          BY <3>3, <5>3 DEF FieldMoves
      <4> QED
        BY <4>1, <4>2, <4>3
    <3>7. \A path \in Paths :
            ruled[path] = stored[p][path] \/ FieldMoves(chosen, p, path, ruled)
      BY <3>4, <3>5, <3>6 DEF Paths, Correctable
    <3>8. RuleMovesPaired(p, ruled)
      BY <3>2 DEF RuleMovesPaired
    <3> QED
      BY <3>1, <3>2, <3>7, <3>8
  <2>5. CASE ~\E q \in Mine(p, chosen) : q.kind = "rules"
    <3>1. Consented(p, chosen) = worded
      BY <1>4, <2>5 DEF Consented, worded
    <3>2. \A path \in Paths :
            worded[path] = stored[p][path] \/ FieldMoves(chosen, p, path, worded)
      BY <2>3 DEF FieldMoves
    <3>3. RuleMovesPaired(p, worded)
      BY <2>3 DEF RuleMovesPaired, MovesText, Paths, Correctable
    <3> QED
      BY <2>1, <2>3, <3>1, <3>2, <3>3
  <2> QED
    BY <2>1, <2>4, <2>5
<1> QED
  BY <1>2, <1>3, <1>4

-----------------------------------------------------------------------------
(* What a boot that makes its corrections leaves of every record.           *)
LEMMA BootedField ==
  ASSUME TypeOK, NEW v \in 1..Images, ApplySeedCorrections(v), NEW p \in Programs
  PROVE  /\ stored' \in [Programs -> Records \cup {Absent}]
         /\ p \notin InBoth(v) => stored'[p] = stored[p]
         /\ p \in InBoth(v) =>
              /\ stored[p] \in Records /\ Shipped[v][p] \in Records /\ stored'[p] \in Records
              /\ stored'[p]["rule"] = stored[p]["rule"]
              /\ \A path \in Correctable :
                   stored'[p][path] = IF path \in Plan(v, p) /\ SameReading(v, p, path)
                                        THEN Shipped[v][p][path] ELSE stored[p][path]
<1>1. stored' = [q \in Programs |-> IF q \in InBoth(v) THEN Corrected(v, q) ELSE stored[q]]
  BY DEF ApplySeedCorrections
<1>2. \A q \in InBoth(v) : stored[q] \in Records /\ Shipped[v][q] \in Records
  BY InBothRecords
<1>3. \A q \in InBoth(v) : Corrected(v, q) \in Records
  BY <1>2, CorrectedFieldByField
<1>4. stored' \in [Programs -> Records \cup {Absent}]
  BY <1>1, <1>3 DEF TypeOK
<1> QED
  BY <1>1, <1>2, <1>4, CorrectedFieldByField

(* Of a text that may be corrected, neither side is missing.                *)
LEMMA PlanIsOfTexts ==
  \A v, p : \A path \in Plan(v, p) :
    /\ path \in Correctable /\ Witnessed(v, p, path, stored[p][path])
    /\ stored[p][path] # None /\ Shipped[v][p][path] # None
    /\ stored[p][path] # Shipped[v][p][path]
BY DEF Plan

(* A boot takes away no rule and no sentence of one.                        *)
LEMMA BootKeepsPairs ==
  ASSUME TypeOK, RulesAreDisplayed, NEW v \in 1..Images, ApplySeedCorrections(v)
  PROVE  RulesAreDisplayed'
<1> SUFFICES ASSUME NEW p \in Programs, stored'[p] # Absent PROVE Paired(stored'[p])
  BY DEF RulesAreDisplayed, Held
<1>1. CASE p \notin InBoth(v)
  BY <1>1, BootedField DEF RulesAreDisplayed, Held
<1>2. CASE p \in InBoth(v)
  <2>1. Paired(stored[p])
    BY <1>2 DEF RulesAreDisplayed, InBoth
  <2>2. stored'[p]["rule"] = stored[p]["rule"]
    BY <1>2, BootedField
  <2>3. stored'[p]["sentence"] = None <=> stored[p]["sentence"] = None
    BY <1>2, BootedField, PlanIsOfTexts DEF Correctable
  <2> QED
    BY <2>1, <2>2, <2>3 DEF Paired
<1> QED
  BY <1>1, <1>2

(* What a boot leaves of its corrections undone is on the list it leads to. *)
LEMMA BootStrandsNothing ==
  ASSUME TypeOK, NEW v \in 1..Images, ApplySeedCorrections(v), image' = v, twins' = twins
  PROVE  NothingIsStranded'
<1> DEFINE Listed(p, path) ==
      \E q \in Pending : <<q.program, q.path, q.from, q.to>>
                            = <<p, path, stored[p][path], Shipped[image][p][path]>>
<1>1. TypeOK' => \A p \in InBoth(v)' : stored'[p] \in Records /\ Shipped[v][p] \in Records
  BY ShippedTyped DEF TypeOK, InBoth, Held
<1>2. InBoth(v)' = InBoth(v)
  <2>1. \A p \in Programs : stored'[p] = Absent <=> stored[p] = Absent
    BY BootedField, ShippedTyped
  <2> QED
    BY <2>1 DEF InBoth, Held
<1>3. ASSUME NEW p \in InBoth(v), NEW path \in Correctable,
             stored'[p][path] # Shipped[v][p][path],
             None \notin {stored'[p][path], Shipped[v][p][path]},
             Witnessed(v, p, path, stored'[p][path])
      PROVE  Listed(p, path)'
  <2>1. /\ stored[p] \in Records /\ Shipped[v][p] \in Records /\ stored'[p] \in Records
        /\ p \in Programs
        /\ stored'[p][path] = IF path \in Plan(v, p) /\ SameReading(v, p, path)
                                 THEN Shipped[v][p][path] ELSE stored[p][path]
    BY BootedField DEF InBoth, Held
  <2>2. stored'[p][path] = stored[p][path] /\ path \in Plan(v, p) /\ ~SameReading(v, p, path)
    BY <1>3, <2>1 DEF Plan
  <2>3. path \in Plan(v, p)'
    BY <1>3, <2>2 DEF Plan, Witnessed
  <2>4. Meaning(WithCorrection(stored'[p], v, p, path)) # Meaning(stored'[p])
    <3>1. /\ WithCorrection(stored'[p], v, p, path) \in Records
          /\ WithCorrection(stored'[p], v, p, path)[path] = Shipped[v][p][path]
      BY <2>1, WithCorrectionField
    <3>2. Reading(path, Shipped[v][p][path]) # Reading(path, stored'[p][path])
      BY <2>2 DEF SameReading
    <3> QED
      BY <2>1, <3>1, <3>2, MeaningByField
  <2>5. path \in Reworded(p)'
    BY <2>3, <2>4 DEF Reworded, WithCorrection
  <2> DEFINE q == Proposal("wording", p, path, stored[p][path], Shipped[image][p][path])
  <2>6. q' \in Wording'
    BY <1>2, <2>5 DEF Wording
  <2> QED
    BY <2>6 DEF Pending, Proposal
<1>4. ASSUME NEW p \in InBoth(v), stored'[p]["rule"] # Shipped[v][p]["rule"],
             Witnessed(v, p, "rule", stored'[p]["rule"])
      PROVE  Listed(p, "rule")'
  <2>1. RulesDiffer(v, p)'
    BY <1>4 DEF RulesDiffer, Witnessed
  <2>2. Proposal("rules", p, "rule", stored[p].rule, Shipped[image][p].rule)' \in Rules'
    BY <1>2, <2>1 DEF Rules
  <2> QED
    BY <2>2 DEF Pending, Proposal
<1>5. ASSUME NEW p \in Programs \ (Held \cup twins)', Shipped[v][p] # Absent
      PROVE  (\E q \in Pending : q.program = p)'
  <2>1. Proposal("record", p, "record", Absent, Shipped[image][p])' \in Additions'
    BY <1>5 DEF Additions
  <2> QED
    BY <2>1 DEF Pending, Proposal
<1> QED
  BY <1>2, <1>3, <1>4, <1>5 DEF NothingIsStranded, Paths, Witnessed

-----------------------------------------------------------------------------
LEMMA InitHolds == Init => SeedInv
<1> SUFFICES ASSUME Init PROVE SeedInv
  OBVIOUS
<1>1. image \in 1..Images /\ stored = Shipped[image] /\ twins = {}
  BY DEF Init
<1>2. TypeOK
  <2>1. Shipped[image] \in [Programs -> Records \cup {Absent}] /\ 0 \in 0..MaxWrites
    BY <1>1, SeedAssumption DEF SeedAssumption
  <2> QED
    BY <1>1, <2>1 DEF Init, TypeOK
<1>3. RulesAreDisplayed
  BY <1>1, ShippedTyped DEF RulesAreDisplayed, Held
<1>4. NothingIsStranded
  BY <1>1 DEF NothingIsStranded, InBoth, Held
<1> QED
  BY <1>2, <1>3, <1>4 DEF SeedInv

LEMMA BootHolds ==
  ASSUME SeedInv, NEW v \in 1..Images, Boot(v)
  PROVE  SeedInv'
<1>0. TypeOK /\ RulesAreDisplayed
  BY DEF SeedInv
<1>1. image' = v /\ settled' = TRUE /\ UNCHANGED <<twins, list, writes>>
  BY DEF Boot
<1>2. CASE ImportSeed(v) /\ Held = {} /\ twins = {}
  <2>1. stored' = Shipped[v]
    BY <1>2 DEF ImportSeed
  <2>2. TypeOK'
    <3>1. Shipped[v] \in [Programs -> Records \cup {Absent}]
      BY SeedAssumption DEF SeedAssumption
    <3> QED
      BY <1>0, <1>1, <2>1, <3>1 DEF TypeOK
  <2>3. RulesAreDisplayed'
    BY <2>1, ShippedTyped DEF RulesAreDisplayed, Held
  <2>4. NothingIsStranded'
    BY <1>1, <1>2, <2>1 DEF NothingIsStranded, InBoth, Held
  <2> QED
    BY <2>2, <2>3, <2>4 DEF SeedInv
<1>3. CASE ApplySeedCorrections(v)
  <2>1. stored' \in [Programs -> Records \cup {Absent}]
    BY <1>0, <1>3, SeedAssumption, BootedField DEF SeedAssumption
  <2>2. TypeOK'
    BY <1>0, <1>1, <2>1 DEF TypeOK
  <2>3. RulesAreDisplayed'
    BY <1>0, <1>3, BootKeepsPairs
  <2>4. NothingIsStranded'
    BY <1>0, <1>1, <1>3, BootStrandsNothing
  <2> QED
    BY <2>2, <2>3, <2>4 DEF SeedInv
<1> QED
  BY <1>2, <1>3 DEF Boot

(* A consent takes away no rule and no sentence without the other.          *)
LEMMA ConsentHolds ==
  ASSUME SeedInv, NEW act, NEW ids, Consent(act, ids)
  PROVE  SeedInv'
<1>0. TypeOK /\ RulesAreDisplayed
  BY DEF SeedInv
<1> DEFINE chosen == {q \in Pending : Id(q) \in ids /\ q.kind \in KindsOf(act)}
<1>1. /\ stored' = [p \in Programs |-> Consented(p, chosen)]
      /\ settled' = FALSE /\ UNCHANGED <<image, twins, list, writes>>
  BY DEF Consent
<1>2. chosen \in SUBSET Pending
  OBVIOUS
<1> HIDE DEF chosen
<1>3. \A p \in Programs : Consented(p, chosen) \in Records \cup {Absent}
  BY <1>0, <1>2, ConsentedField DEF TypeOK
<1>4. TypeOK'
  BY <1>0, <1>1, <1>3 DEF TypeOK
<1>5. ASSUME NEW p \in Programs, stored'[p] # Absent
      PROVE  Paired(stored'[p])
  <2> DEFINE now == Consented(p, chosen)
  <2>1. stored'[p] = now
    BY <1>1
  <2>2. CASE now = stored[p]
    BY <1>0, <1>5, <2>1, <2>2 DEF RulesAreDisplayed, Held
  <2>3. ASSUME NEW q \in chosen, AddsRecord(q, p), q.to = now
        PROVE  Paired(now)
    BY <1>0, <2>3, ShippedTyped DEF AddsRecord, TypeOK
  <2>4. ASSUME p \in InBoth(image),
               \A path \in Paths : now[path] = stored[p][path] \/ FieldMoves(chosen, p, path, now),
               RuleMovesPaired(p, now)
        PROVE  Paired(now)
    <3>1. Paired(stored[p]) /\ Paired(Shipped[image][p])
      BY <1>0, <2>4, ShippedTyped DEF RulesAreDisplayed, InBoth, Held, TypeOK
    <3>2. now["rule"] = stored[p]["rule"] \/ now["rule"] = Shipped[image][p]["rule"]
      BY <2>4 DEF FieldMoves, MovesText, MovesRule, Paths, Correctable
    <3>3. \/ now["sentence"] = None <=> stored[p]["sentence"] = None
          \/ WithRule(p, now)
      <4> HIDE DEF now
      <4>1. now["sentence"] = stored[p]["sentence"] \/ FieldMoves(chosen, p, "sentence", now)
        <5>1. "sentence" \in Paths
          BY DEF Paths, Correctable
        <5> QED
          BY <2>4, <5>1
      <4>2. ASSUME NEW q, q.path = "sentence", MovesText(q, p) \/ MovesRule(q, p)
            PROVE  q.to # None /\ stored[p]["sentence"] # None
        BY <4>2 DEF MovesText, MovesRule
      <4> QED
        BY <4>1, <4>2 DEF FieldMoves
    <3> HIDE DEF now
    <3>4. CASE WithRule(p, now)
      BY <3>1, <3>4 DEF WithRule, Paired
    <3>5. CASE now["rule"] = stored[p]["rule"] /\ (now["sentence"] = None <=> stored[p]["sentence"] = None)
      BY <3>1, <3>5 DEF Paired
    <3>6. CASE now["rule"] = Shipped[image][p]["rule"] /\ now["rule"] # stored[p]["rule"]
      BY <2>4, <3>1, <3>6 DEF Paired, RuleMovesPaired
    <3> QED
      BY <3>2, <3>3, <3>4, <3>5, <3>6
  <2> QED
    BY <1>0, <1>2, <2>1, <2>2, <2>3, <2>4, ConsentedField
<1>6. RulesAreDisplayed'
  BY <1>5 DEF RulesAreDisplayed, Held
<1>7. NothingIsStranded'
  BY <1>1 DEF NothingIsStranded
<1> QED
  BY <1>4, <1>6, <1>7 DEF SeedInv

LEMMA PendingIsOfRecords ==
  ASSUME UNCHANGED <<image, stored, twins>>
  PROVE  Pending' = Pending /\ Held' = Held /\ (NothingIsStranded /\ settled' = settled => NothingIsStranded')
<1>1. Held' = Held /\ InBoth(image)' = InBoth(image)
  BY DEF Held, InBoth
<1>2. Wording' = Wording
  BY <1>1 DEF Wording, Reworded, Plan, Witnessed, WithCorrection, Meaning
<1>3. Rules' = Rules
  BY <1>1 DEF Rules, RulesDiffer, Witnessed
<1>4. Additions' = Additions
  BY <1>1 DEF Additions
<1>5. Pending' = Pending
  BY <1>2, <1>3, <1>4 DEF Pending
<1>6. ASSUME NothingIsStranded, settled' = settled PROVE NothingIsStranded'
  BY <1>1, <1>5, <1>6 DEF NothingIsStranded, Witnessed
<1> QED
  BY <1>1, <1>5, <1>6

(* An action of the review queue is counted, and ends what a boot settled.  *)
LEMMA DecisionHolds ==
  ASSUME SeedInv, writes < MaxWrites, writes' = writes + 1, settled' = FALSE, image' = image,
         twins' \subseteq Programs,
         stored' \in [Programs -> Records \cup {Absent}], RulesAreDisplayed'
  PROVE  SeedInv'
<1>1. writes' \in 0..MaxWrites
  BY SeedAssumption DEF SeedInv, TypeOK, SeedAssumption
<1> QED
  BY <1>1 DEF SeedInv, TypeOK, NothingIsStranded

LEMMA StepHolds == SeedInv /\ [Next]_vars => SeedInv'
<1> SUFFICES ASSUME SeedInv, [Next]_vars PROVE SeedInv'
  OBVIOUS
<1>0. TypeOK /\ RulesAreDisplayed /\ NothingIsStranded
  BY DEF SeedInv
<1>1. ASSUME UNCHANGED <<image, stored, twins, settled, writes>> PROVE SeedInv'
  <2>1. TypeOK' /\ RulesAreDisplayed'
    BY <1>0, <1>1 DEF TypeOK, RulesAreDisplayed, Held
  <2> QED
    BY <1>0, <1>1, <2>1, PendingIsOfRecords DEF SeedInv
<1>2. ASSUME NEW v \in 1..Images, Boot(v) PROVE SeedInv'
  BY <1>2, BootHolds
<1>3. ASSUME NEW v \in 1..Images, BootUncorrected(v) PROVE SeedInv'
  <2>1. TypeOK' /\ RulesAreDisplayed'
    BY <1>0, <1>3 DEF BootUncorrected, TypeOK, RulesAreDisplayed, Held
  <2> QED
    BY <1>3, <2>1 DEF BootUncorrected, SeedInv, NothingIsStranded
<1>4. CASE Read
  BY <1>1, <1>4 DEF Read
<1>5. ASSUME NEW act, NEW ids, Consent(act, ids) PROVE SeedInv'
  BY <1>5, ConsentHolds
<1>6. ASSUME NEW p \in Programs, NEW record \in Candidates[p], Publish(p, record)
      PROVE  SeedInv'
  <2>1. stored' = [stored EXCEPT ![p] = record] /\ record \in Records /\ Paired(record)
    BY <1>6, ShippedTyped DEF Publish
  <2>2. stored' \in [Programs -> Records \cup {Absent}]
    BY <1>0, <2>1 DEF TypeOK
  <2>3. RulesAreDisplayed'
    BY <1>0, <2>1 DEF RulesAreDisplayed, Held, TypeOK
  <2> QED
    BY <1>0, <1>6, <2>2, <2>3, DecisionHolds DEF Publish, TypeOK
<1>7. ASSUME NEW p \in Programs, PublishTwin(p) PROVE SeedInv'
  <2>1. stored' \in [Programs -> Records \cup {Absent}] /\ twins' \subseteq Programs
    BY <1>0, <1>7 DEF PublishTwin, TypeOK
  <2>2. RulesAreDisplayed'
    BY <1>0, <1>7 DEF PublishTwin, RulesAreDisplayed, Held
  <2> QED
    BY <1>7, <2>1, <2>2, DecisionHolds DEF PublishTwin
<1>8. ASSUME NEW p \in Programs, Withdraw(p) PROVE SeedInv'
  <2>1. stored' = [stored EXCEPT ![p] = Absent]
    BY <1>8 DEF Withdraw
  <2>2. stored' \in [Programs -> Records \cup {Absent}]
    BY <1>0, <2>1 DEF TypeOK
  <2>3. RulesAreDisplayed'
    BY <1>0, <2>1 DEF RulesAreDisplayed, Held, TypeOK
  <2> QED
    BY <1>0, <1>8, <2>2, <2>3, DecisionHolds DEF Withdraw, TypeOK
<1>9. CASE UNCHANGED vars
  BY <1>1, <1>9 DEF vars
<1> QED
  BY <1>2, <1>3, <1>4, <1>5, <1>6, <1>7, <1>8, <1>9 DEF Next

LEMMA SeedInvariant == Spec => []SeedInv
<1> QED
  BY InitHolds, StepHolds, PTL DEF Spec

(* Every variable keeps its type: what is held is always a whole record,    *)
(* mixed of texts some image shipped or somebody published.                 *)
THEOREM SeedTypeCorrect == Spec => []TypeOK
<1>1. SeedInv => TypeOK
  BY DEF SeedInv
<1> QED
  BY <1>1, SeedInvariant, PTL

(* After a boot that made its corrections everything the image has          *)
(* otherwise, and the ledger proves ours, is on the administrator's list.   *)
THEOREM CorrectionsHaveAWayIn == Spec => []NothingIsStranded
<1>1. SeedInv => NothingIsStranded
  BY DEF SeedInv
<1> QED
  BY <1>1, SeedInvariant, PTL

-----------------------------------------------------------------------------
(* What a boot changes of the records tells members nothing new.            *)
LEMMA BootTellsNothing ==
  ASSUME TypeOK, NEW v \in 1..Images, ApplySeedCorrections(v), NEW p \in Programs
  PROVE  /\ stored'[p] = Absent <=> stored[p] = Absent
         /\ p \in Held => Told(stored'[p]) = Told(stored[p])
<1>1. CASE p \notin InBoth(v)
  BY <1>1, BootedField
<1>2. CASE p \in InBoth(v)
  <2>1. /\ stored[p] \in Records /\ stored'[p] \in Records
        /\ stored'[p]["rule"] = stored[p]["rule"]
    BY <1>2, BootedField
  <2>2. Says[stored'[p]["note"]] = Says[stored[p]["note"]]
    BY <1>2, BootedField DEF SameReading, Reading, Correctable
  <2>3. Says[stored'[p]["sentence"]] = Says[stored[p]["sentence"]]
    BY <1>2, BootedField, PlanIsOfTexts DEF SameReading, Reading, Correctable
  <2>4. Told(stored'[p]) = Told(stored[p])
    BY <2>1, <2>2, <2>3 DEF Told
  <2> QED
    BY <2>1, <2>4, ShippedTyped
<1> QED
  BY <1>1, <1>2

(* Only a boot counts as one.                                               *)
LEMMA BootsAreBoots ==
  ASSUME TypeOK, [Next]_vars, Boots
  PROVE  \E v \in 1..Images : Boot(v) \/ BootUncorrected(v)
BY DEF Next, vars, Boots, Read, Consent, Publish, PublishTwin, Withdraw

(* A boot never changes what members are told, whichever image it brings.   *)
THEOREM AnswersSurviveBoots == Spec => BootsChangeNoAnswer
<1> DEFINE SameAnswer(p) ==
      /\ (stored'[p] = Absent) <=> (stored[p] = Absent)
      /\ p \in Held => Told(stored'[p]) = Told(stored[p])
<1>1. ASSUME TypeOK, [Next]_vars, Boots, Held # {} \/ twins # {}, NEW p \in Programs
      PROVE  SameAnswer(p)
  <2>1. PICK v \in 1..Images : Boot(v) \/ BootUncorrected(v)
    BY <1>1, BootsAreBoots
  <2>2. CASE Boot(v)
    BY <1>1, <2>2, BootTellsNothing DEF Boot
  <2>3. CASE BootUncorrected(v)
    BY <2>3 DEF BootUncorrected
  <2> QED
    BY <2>1, <2>2, <2>3
<1>2. TypeOK /\ [Next]_vars =>
        (Boots /\ (Held # {} \/ twins # {}) =>
           \A p \in Programs : SameAnswer(p))
  BY <1>1
<1> QED
  BY <1>2, SeedTypeCorrect, PTL DEF Spec, BootsChangeNoAnswer

-----------------------------------------------------------------------------
(* A step that is no decision of the review queue, and writes a record, is  *)
(* a boot or a consent.                                                     *)
LEMMA WritersAreTwo ==
  ASSUME TypeOK, [Next]_vars, writes' = writes, stored' # stored
  PROVE  \/ \E v \in 1..Images : Boot(v)
         \/ \E act, ids : Consent(act, ids) /\ ids \subseteq {Id(q) : q \in list}
<1>1. writes \in Nat
  BY ShippedTyped DEF TypeOK
<1> QED
  BY <1>1 DEF Next, vars, Read, BootUncorrected, Publish, PublishTwin, Withdraw

(* Text no image ever shipped is not in any image's ledger.                 *)
LEMMA ForeignIsUnwitnessed ==
  ASSUME NEW v \in 1..Images, NEW p, NEW path, NEW text, Foreign(p, path, text)
  PROVE  ~Witnessed(v, p, path, text) /\ text # None
BY ShippedTyped DEF Foreign, Witnessed

(* Nobody's work is overwritten, by either door; but a sentence goes with a *)
(* rule the corpus dropped, and then the audit log has it.                  *)
THEOREM WorkIsKept == Spec => WorkHereStands
<1> DEFINE Kept(p, path) ==
      \/ stored'[p][path] = stored[p][path]
      \/ /\ path = "sentence" /\ stored'[p].rule = None
         /\ <<p, path, stored[p][path]>> \in audited'
<1>1. ASSUME TypeOK, [Next]_vars, writes' = writes, NEW p \in Held, NEW path \in Paths,
             Foreign(p, path, stored[p][path])
      PROVE  Kept(p, path)
  <2>1. image \in 1..Images /\ p \in Programs /\ stored[p] # Absent
    BY <1>1 DEF TypeOK, Held
  <2>2. ASSUME NEW v \in 1..Images, Boot(v) PROVE Kept(p, path)
    <3>1. ApplySeedCorrections(v)
      BY <1>1, <2>2 DEF Boot
    <3>2. path \notin Plan(v, p)
      BY <1>1, ForeignIsUnwitnessed, PlanIsOfTexts
    <3> QED
      BY <1>1, <2>1, <3>1, <3>2, BootedField DEF Paths
  <2>3. ASSUME NEW act, NEW ids, Consent(act, ids) PROVE Kept(p, path)
    <3> DEFINE chosen == {q \in Pending : Id(q) \in ids /\ q.kind \in KindsOf(act)}
               now == Consented(p, chosen)
    <3>1. stored'[p] = now /\ audited' = UNION {Rows(r, chosen) : r \in Programs}
      BY <2>1, <2>3 DEF Consent
    <3>2. chosen \in SUBSET Pending
      OBVIOUS
    <3> HIDE DEF chosen
    <3>3. \/ now = stored[p]
          \/ /\ p \in InBoth(image)
             /\ now[path] = stored[p][path] \/ FieldMoves(chosen, p, path, now)
      BY <1>1, <2>1, <3>2, ConsentedField
    <3> HIDE DEF now
    <3>4. ~\E q \in chosen : q.path = path /\ (MovesText(q, p) \/ MovesRule(q, p))
      BY <1>1, <2>1, ForeignIsUnwitnessed DEF MovesText, MovesRule
    <3>5. ASSUME FieldMoves(chosen, p, path, now), p \in InBoth(image)
          PROVE  Kept(p, path)
      <4>1. PICK q \in chosen : /\ path = "sentence" /\ WithRule(p, now)
                               /\ q.program = p /\ MovesRule(q, p)
        BY <3>4, <3>5 DEF FieldMoves
      <4>2. now["sentence"] = None
        BY <1>1, <2>1, <4>1, ForeignIsUnwitnessed DEF WithRule
      <4>3. now["rule"] = None
        BY <2>1, <3>5, <4>1, <4>2, ShippedTyped DEF WithRule, Paired, InBoth
      <4>4. <<p, "sentence", stored[p].sentence>> \in Rows(p, chosen)
        BY <4>1 DEF Rows, MovesRule
      <4>5. <<p, "sentence", stored[p].sentence>> \in audited'
        BY <2>1, <3>1, <4>4
      <4> QED
        BY <3>1, <4>1, <4>3, <4>5
    <3> QED
      BY <3>1, <3>3, <3>5
  <2>4. CASE stored' = stored
    BY <2>4
  <2> QED
    BY <1>1, <2>2, <2>3, <2>4, WritersAreTwo
<1>2. TypeOK /\ [Next]_vars =>
        (writes' = writes =>
           \A p \in Held : \A path \in Paths : Foreign(p, path, stored[p][path]) => Kept(p, path))
  BY <1>1
<1> QED
  BY <1>2, SeedTypeCorrect, PTL DEF Spec, WorkHereStands

-----------------------------------------------------------------------------
(* An id names one proposal: whoever sent it had this proposal on a screen. *)
LEMMA IdIsRead ==
  ASSUME NEW q, NEW ids \in SUBSET {Id(r) : r \in list}, Id(q) \in ids
  PROVE  \E r \in list : /\ r.kind = q.kind /\ r.program = q.program /\ r.path = q.path
                         /\ r.from = q.from /\ r.to = q.to
BY DEF Id

(* What a consent changes is what was on the administrator's screen.        *)
THEOREM ConsentIsInformed == Spec => ConsentMovesWhatWasRead
<1> DEFINE Informed(p) ==
      IF stored[p] = Absent
        THEN stored'[p] # Absent => ShownAdded(p)
        ELSE /\ stored'[p] # Absent
             /\ \A path \in Paths : stored'[p][path] # stored[p][path] => ShownMoved(p, path)
<1>1. ASSUME SeedInv, [Next]_vars, Consents, NEW p \in Programs
      PROVE  Informed(p)
  <2>0. TypeOK /\ RulesAreDisplayed /\ image \in 1..Images
    BY <1>1 DEF SeedInv, TypeOK
  <2>1. PICK act, ids : Consent(act, ids) /\ ids \in SUBSET {Id(q) : q \in list}
    BY <1>1, <2>0, WritersAreTwo DEF Consents, Boot
  <2> DEFINE chosen == {q \in Pending : Id(q) \in ids /\ q.kind \in KindsOf(act)}
             now == Consented(p, chosen)
  <2>2. stored'[p] = now
    BY <2>1 DEF Consent
  <2>3. chosen \in SUBSET Pending /\ \A q \in chosen : Id(q) \in ids
    OBVIOUS
  <2> HIDE DEF chosen
  <2>4. \A q \in chosen : \E r \in list :
          /\ r.kind = q.kind /\ r.program = q.program /\ r.path = q.path
          /\ r.from = q.from /\ r.to = q.to
    BY <2>1, <2>3, IdIsRead
  <2>5. \/ now = stored[p]
        \/ /\ stored[p] = Absent
           /\ \E q \in chosen : q.program = p /\ AddsRecord(q, p) /\ q.to = now
        \/ /\ p \in InBoth(image) /\ now \in Records
           /\ \A path \in Paths : now[path] = stored[p][path] \/ FieldMoves(chosen, p, path, now)
    BY <2>0, <2>3, ConsentedField
  <2> HIDE DEF now
  <2>6. CASE now = stored[p]
    BY <2>2, <2>6
  <2>7. ASSUME stored[p] = Absent, NEW q \in chosen, q.program = p, AddsRecord(q, p), q.to = now
        PROVE  Informed(p)
    BY <2>2, <2>4, <2>7 DEF ShownAdded, AddsRecord
  <2>8. ASSUME p \in InBoth(image), now \in Records,
               \A path \in Paths : now[path] = stored[p][path] \/ FieldMoves(chosen, p, path, now)
        PROVE  Informed(p)
    <3>1. stored[p] # Absent /\ now # Absent /\ Paired(stored[p]) /\ Paired(Shipped[image][p])
      BY <2>0, <2>8, ShippedTyped DEF InBoth, Held, RulesAreDisplayed
    <3>2. ASSUME NEW path \in Paths, FieldMoves(chosen, p, path, now)
          PROVE  ShownMoved(p, path)
      <4>1. ASSUME NEW q \in chosen, q.program = p, q.path = path, q.to = now[path],
                   MovesText(q, p) \/ MovesRule(q, p)
            PROVE  ShownMoved(p, path)
        <5>1. q.from = stored[p][path]
          BY <4>1 DEF MovesText, MovesRule
        <5> QED
          BY <2>2, <2>4, <4>1, <5>1 DEF ShownMoved
      <4>2. ASSUME path = "sentence", WithRule(p, now), NEW q \in chosen, q.program = p,
                   MovesRule(q, p), q.to = now["rule"]
            PROVE  ShownMoved(p, path)
        <5>1. None \in {stored[p]["rule"], now["rule"]}
          BY <3>1, <4>2 DEF WithRule, Paired
        <5>2. q.kind = "rules" /\ q.from = stored[p]["rule"]
          BY <4>2 DEF MovesRule
        <5>3. PICK r \in list : /\ r.kind = "rules" /\ r.program = p
                               /\ r.from = stored[p]["rule"] /\ r.to = stored'[p]["rule"]
          BY <2>2, <2>4, <4>2, <5>2
        <5> QED
          BY <2>2, <4>2, <5>1, <5>3 DEF ShownMoved
      <4> QED
        BY <3>2, <4>1, <4>2 DEF FieldMoves
    <3> QED
      BY <2>2, <2>8, <3>1, <3>2
  <2> QED
    BY <2>5, <2>6, <2>7, <2>8
<1>2. SeedInv /\ [Next]_vars => (Consents => \A p \in Programs : Informed(p))
  BY <1>1
<1> QED
  BY <1>2, SeedInvariant, PTL DEF Spec, ConsentMovesWhatWasRead

---------------------------------------------------------------------------
(* The verdict drawn from one *)

\* One more answer: what was answered stays as it is.
Answered ==
  /\ UNCHANGED <<program, kind, entity>>
  /\ \A f \in FieldsOf(kind) : profile[f] # Blank => profile'[f] = profile[f]

\* An unknown that names no field this profile has.
Shut(r) == r.status = "unknown" /\ \A f \in r.missing : ~Resolvable(f)

SameCallsign == kind = "organization" => profile'.callsign = profile.callsign

\* What was decided stays, or becomes a refusal by name; what asks nothing of
\* the profile stays as it is.
Keeps(r, q) == r.status # "unknown" => q = r \/ (r = Fail /\ q = Barred)
Steady(r, q) ==
  /\ r.status # "unknown" => q = r
  /\ SameCallsign => (Shut(r) => q = r)

Outcomes == {Pass, Fail, Barred, NotEvaluable}
Shaped(r) == r \in Outcomes \/ \E asks : r = Unknown(asks)

LEMMA OutcomesDiffer ==
  /\ Pass.status = "pass" /\ Fail.status = "fail" /\ Barred.status = "fail"
  /\ NotEvaluable.status = "not_evaluable"
  /\ ~Pass.barred /\ ~Fail.barred /\ Barred.barred /\ ~NotEvaluable.barred
  /\ \A asks : /\ Unknown(asks).status = "unknown" /\ Unknown(asks).missing = asks
               /\ ~Unknown(asks).barred
BY DEF Pass, Fail, Barred, NotEvaluable, Unknown, Result

\* Any of several routes, each steady.
LEMMA EitherSteady ==
  ASSUME NEW T, NEW b, NEW a, \A k \in T : Steady(b[k], a[k])
  PROVE  Steady(Either({b[k] : k \in T}), Either({a[k] : k \in T}))
<1> DEFINE B == {b[k] : k \in T}
           A == {a[k] : k \in T}
<1>1. (B = {} <=> A = {}) /\ (Pass \in B => Pass \in A)
  BY OutcomesDiffer DEF Steady
<1>2. ASSUME \A k \in T : b[k].status # "unknown" PROVE A = B
  BY <1>2 DEF Steady
<1>3. ASSUME SameCallsign, \A k \in T : b[k].status = "unknown" => Shut(b[k]) PROVE A = B
  BY <1>3 DEF Steady
<1> HIDE DEF A, B
<1>4. CASE B = {} \/ Pass \in B
  <2>1. Either(B) = Pass /\ Either(A) = Pass
    BY <1>1, <1>4 DEF Either
  <2> QED
    BY <2>1, OutcomesDiffer DEF Steady, Shut, A, B
<1>5. CASE B # {} /\ Pass \notin B /\ \E k \in T : b[k].status = "unknown"
  <2>1. Either(B) = Unknown(Missing(B))
    <3>1. \E r \in B : r.status = "unknown"
      BY <1>5 DEF B
    <3> QED
      BY <1>5, <3>1 DEF Either
  <2>2. ASSUME Shut(Either(B)) PROVE \A k \in T : b[k].status = "unknown" => Shut(b[k])
    <3>1. \A f \in Missing(B) : ~Resolvable(f)
      BY <2>1, <2>2, OutcomesDiffer DEF Shut
    <3> QED
      BY <3>1 DEF Shut, Missing, B
  <2> QED
    BY <1>3, <2>1, <2>2, OutcomesDiffer DEF Steady, A, B
<1>6. CASE \A k \in T : b[k].status # "unknown"
  <2>1. A = B
    BY <1>2, <1>6
  <2> QED
    BY <2>1 DEF Steady, A, B
<1> QED
  BY <1>4, <1>5, <1>6

\* All of several questions, each steady.
LEMMA EverySteady ==
  ASSUME NEW T, NEW b, NEW a, \A k \in T : Steady(b[k], a[k])
  PROVE  Steady(Every({b[k] : k \in T}), Every({a[k] : k \in T}))
<1> DEFINE B == {b[k] : k \in T}
           A == {a[k] : k \in T}
<1>1. (\E r \in B : r.status = "fail") => \E r \in A : r.status = "fail"
  BY DEF Steady
<1>2. ASSUME \A k \in T : b[k].status # "unknown" PROVE A = B
  BY <1>2 DEF Steady
<1>3. ASSUME SameCallsign, \A k \in T : b[k].status = "unknown" => Shut(b[k]) PROVE A = B
  BY <1>3 DEF Steady
<1> HIDE DEF A, B
<1>4. CASE \E r \in B : r.status = "fail"
  <2>1. Every(B) = Fail /\ Every(A) = Fail
    BY <1>1, <1>4 DEF Every
  <2> QED
    BY <2>1, OutcomesDiffer DEF Steady, Shut, A, B
<1>5. CASE (\A r \in B : r.status # "fail") /\ \E k \in T : b[k].status = "unknown"
  <2>1. Every(B) = Unknown(Missing(B))
    <3>1. \E r \in B : r.status = "unknown"
      BY <1>5 DEF B
    <3> QED
      BY <1>5, <3>1 DEF Every
  <2>2. ASSUME Shut(Every(B)) PROVE \A k \in T : b[k].status = "unknown" => Shut(b[k])
    <3>1. \A f \in Missing(B) : ~Resolvable(f)
      BY <2>1, <2>2, OutcomesDiffer DEF Shut
    <3> QED
      BY <3>1 DEF Shut, Missing, B
  <2> QED
    BY <1>3, <2>1, <2>2, OutcomesDiffer DEF Steady, A, B
<1>6. CASE \A k \in T : b[k].status # "unknown"
  <2>1. A = B
    BY <1>2, <1>6
  <2> QED
    BY <2>1 DEF Steady, A, B
<1> QED
  BY <1>4, <1>5, <1>6

\* Up to three of them, asked or not.
Three(p, x, q, y, r, z) == When(p, x) \cup When(q, y) \cup When(r, z)

Asked(p, q, r) == {k \in {1, 2, 3} : (k = 1 /\ p) \/ (k = 2 /\ q) \/ (k = 3 /\ r)}
Trio(x, y, z) == [k \in {1, 2, 3} |-> IF k = 1 THEN x ELSE IF k = 2 THEN y ELSE z]

LEMMA ThreeAsFunction ==
  ASSUME NEW p \in BOOLEAN, NEW q \in BOOLEAN, NEW r \in BOOLEAN, NEW x, NEW y, NEW z
  PROVE  Three(p, x, q, y, r, z) = {Trio(x, y, z)[k] : k \in Asked(p, q, r)}
<1>1. Trio(x, y, z)[1] = x /\ Trio(x, y, z)[2] = y /\ Trio(x, y, z)[3] = z
  BY DEF Trio
<1>2. /\ (1 \in Asked(p, q, r) <=> p) /\ (2 \in Asked(p, q, r) <=> q) /\ (3 \in Asked(p, q, r) <=> r)
      /\ Asked(p, q, r) \subseteq {1, 2, 3}
  BY DEF Asked
<1>3. \A v : v \in {Trio(x, y, z)[k] : k \in Asked(p, q, r)} <=>
               (p /\ v = x) \/ (q /\ v = y) \/ (r /\ v = z)
  BY <1>1, <1>2
<1>4. \A v : v \in Three(p, x, q, y, r, z) <=> (p /\ v = x) \/ (q /\ v = y) \/ (r /\ v = z)
  BY DEF When, Three
<1> QED
  BY <1>3, <1>4

LEMMA ThreeSteady ==
  ASSUME NEW p \in BOOLEAN, NEW q \in BOOLEAN, NEW r \in BOOLEAN,
         NEW x, NEW y, NEW z, NEW x2, NEW y2, NEW z2,
         Steady(x, x2), Steady(y, y2), Steady(z, z2)
  PROVE  /\ Steady(Either(Three(p, x, q, y, r, z)), Either(Three(p, x2, q, y2, r, z2)))
         /\ Steady(Every(Three(p, x, q, y, r, z)), Every(Three(p, x2, q, y2, r, z2)))
<1> DEFINE T == Asked(p, q, r)
           b == Trio(x, y, z)
           a == Trio(x2, y2, z2)
<1>1. /\ Three(p, x, q, y, r, z) = {b[k] : k \in T}
      /\ Three(p, x2, q, y2, r, z2) = {a[k] : k \in T}
  BY ThreeAsFunction
<1>2. \A k \in T : Steady(b[k], a[k])
  BY DEF Asked, Trio
<1> HIDE DEF T, b, a
<1>3. Steady(Either({b[k] : k \in T}), Either({a[k] : k \in T}))
  BY <1>2, EitherSteady
<1>4. Steady(Every({b[k] : k \in T}), Every({a[k] : k \in T}))
  BY <1>2, EverySteady
<1> QED
  BY <1>1, <1>3, <1>4

LEMMA DecidedIs ==
  ASSUME NEW met, NEW otherwise
  PROVE  Decided(met, otherwise) \in {Pass, otherwise}
BY DEF Decided

USE DEF Pass, Fail, Barred, NotEvaluable, Unknown, Result

LEMMA StudentAnswered ==
  ASSUME Answered, kind = "student", NEW f \in StudentFields, profile[f] # Blank
  PROVE  profile'[f] = profile[f]
BY DEF Answered, FieldsOf

LEMMA LicenseSteady ==
  ASSUME Answered, kind = "student", NEW t
  PROVE  Steady(License(t), License(t)')
<1>1. /\ profile.licenseClass # Blank => profile'.licenseClass = profile.licenseClass
      /\ profile.licensedMonths # Blank => profile'.licensedMonths = profile.licensedMonths
  BY StudentAnswered DEF StudentFields
<1> QED
  BY <1>1 DEF License, Ask, Then, Decided, Steady, Shut, Resolvable

LEMMA CountySteady ==
  ASSUME Answered, NEW t, \A v \in t.values : v.state # Blank
  PROVE  Steady(County(t), County(t)')
<1>0. kind' = kind
  BY DEF Answered
<1>1. CASE kind = "student"
  <2>1. /\ profile.county # Blank => profile'.county = profile.county
        /\ profile.state # Blank => profile'.state = profile.state
    BY <1>1, StudentAnswered DEF StudentFields
  <2> QED
    BY <1>0, <1>1, <2>1 DEF County, Steady, Shut, Resolvable
<1>2. CASE kind # "student"
  BY <1>0, <1>2 DEF County, Steady
<1> QED
  BY <1>1, <1>2

LEMMA RadiusSteady ==
  ASSUME Answered, kind \in {"student", "organization"}, NEW t
  PROVE  Steady(Radius(t), Radius(t)')
<1>1. /\ profile.lat # Blank => profile'.lat = profile.lat
      /\ profile.lon # Blank => profile'.lon = profile.lon
  BY DEF Answered, FieldsOf, StudentFields, OrgFields
<1>2. CASE ~t.measurable
  BY <1>2 DEF Radius, Steady
<1>3. CASE t.measurable /\ (profile.lat = Blank \/ profile.lon = Blank)
  <2>1. PICK f \in {"lat", "lon"} : profile[f] = Blank
    BY <1>3
  <2>2. Radius(t).status = "unknown" /\ f \in Radius(t).missing /\ Resolvable(f)
    BY <1>3, <2>1 DEF Radius, Resolvable
  <2> QED
    BY <2>2 DEF Steady, Shut
<1>4. CASE t.measurable /\ profile.lat # Blank /\ profile.lon # Blank
  <2>1. {f \in {"lat", "lon"} : profile[f] = Blank} = {}
    BY <1>4
  <2>2. {f \in {"lat", "lon"} : profile'[f] = Blank} = {}
    BY <1>1, <1>4
  <2> QED
    BY <1>1, <1>4, <2>1, <2>2 DEF Radius, Decided, Steady
<1> QED
  BY <1>2, <1>3, <1>4

LEMMA DistrictSteady ==
  ASSUME Answered, ~Overrules, kind \in {"student", "organization"}
  PROVE  /\ District # Blank => District' = District
         /\ SameCallsign /\ kind = "organization" => District' = District
<1>0. kind' = kind
  BY DEF Answered
<1>1. profile.callsign # Blank => profile'.callsign = profile.callsign
  BY DEF Answered, FieldsOf, StudentFields, OrgFields
<1>2. CASE kind = "student"
  <2>1. profile.callDistrict # Blank => profile'.callDistrict = profile.callDistrict
    BY <1>2, StudentAnswered DEF StudentFields
  <2>2. profile.callsign # Blank => profile'.callDistrict = profile.callDistrict
    BY <1>2 DEF Overrules
  <2> QED
    BY <1>0, <1>1, <1>2, <2>1, <2>2 DEF District
<1>3. CASE kind = "organization"
  BY <1>0, <1>1, <1>3 DEF District, SameCallsign
<1> QED
  BY <1>2, <1>3

LEMMA GeographySteady ==
  ASSUME Answered, ~Overrules, kind \in {"student", "organization"},
         NEW t, t.type \in GeoTypes,
         t.type = "county" => \A v \in t.values : v.state # Blank
  PROVE  Steady(Geography(t), Geography(t)')
<1>0. kind' = kind
  BY DEF Answered
<1>1. CASE t.type = "any"
  BY <1>1 DEF Geography, Steady
<1>2. CASE t.type = "state"
  <2>1. profile.state # Blank => profile'.state = profile.state
    BY DEF Answered, FieldsOf, StudentFields, OrgFields
  <2> QED
    BY <1>2, <2>1 DEF Geography, Ask, Decided, Steady, Shut, Resolvable
<1>3. CASE t.type = "county"
  BY <1>3, CountySteady DEF Geography
<1>4. CASE t.type = "radius"
  BY <1>4, RadiusSteady DEF Geography
<1>5. CASE t.type = "call_district"
  BY <1>0, <1>5, DistrictSteady DEF Geography, Decided, Steady, Shut, Resolvable
<1> QED
  BY <1>1, <1>2, <1>3, <1>4, <1>5 DEF GeoTypes

LEMMA FieldOfStudySteady ==
  ASSUME Answered, kind = "student", NEW t, NEW opened
  PROVE  Steady(FieldOfStudy(t, opened), FieldOfStudy(t, opened)')
<1>1. profile.fieldOfStudy # Blank => profile'.fieldOfStudy = profile.fieldOfStudy
  BY StudentAnswered DEF StudentFields
<1> DEFINE required == FieldRequirement(t, opened)
<1>2. CASE profile.fieldOfStudy # Blank
  BY <1>1, <1>2 DEF FieldOfStudy, Decided, Steady, Shut, Resolvable
<1>3. CASE profile.fieldOfStudy = Blank /\ (required.excluded # {} \/ ~required.unrestricted)
  BY <1>3 DEF FieldOfStudy, Steady, Shut, Resolvable
<1>4. CASE profile.fieldOfStudy = Blank /\ required.excluded = {} /\ required.unrestricted
  BY <1>4 DEF FieldOfStudy, Steady
<1> QED
  BY <1>2, <1>3, <1>4

LEMMA InstitutionKeeps ==
  ASSUME Answered, kind = "student", NEW t
  PROVE  /\ Keeps(Institution(t), Institution(t)')
         /\ Shut(Institution(t)) => Institution(t)' = Institution(t)
<1>1. /\ profile.degreeLevel # Blank => profile'.degreeLevel = profile.degreeLevel
      /\ profile.accredited # Blank => profile'.accredited = profile.accredited
      /\ profile.partTime # Blank => profile'.partTime = profile.partTime
  BY StudentAnswered DEF StudentFields
<1> DEFINE closedByName == \/ t.accredited /\ profile.accredited = FALSE
                           \/ ~t.partTimeOK /\ profile.partTime = TRUE
           degree == IF t.levels = {} THEN Pass
                     ELSE IF profile.degreeLevel = Blank THEN Unknown({"degreeLevel"})
                     ELSE Decided(profile.degreeLevel \in t.levels,
                                  IF closedByName THEN Barred ELSE Fail)
           accredited == IF ~t.accredited THEN Pass
                         ELSE IF profile.accredited = Blank THEN Unknown({"accredited"})
                         ELSE Decided(profile.accredited, Barred)
           fullTime == IF t.partTimeOK THEN Pass
                       ELSE IF profile.partTime = Blank THEN Unknown({"partTime"})
                       ELSE Decided(~profile.partTime, Barred)
<1>2. Institution(t) = Then(degree, Then(accredited, fullTime))
  BY DEF Institution
<1>3. Institution(t)' = Then(degree', Then(accredited', fullTime'))
  BY DEF Institution, Then
<1>4. closedByName => closedByName'
  BY <1>1, CatalogueAssumption
<1>5. \/ degree = Unknown({"degreeLevel"})
      \/ degree \in {Pass, Barred} /\ degree' = degree
      \/ degree = Fail /\ degree' \in {Fail, Barred}
  BY <1>1, <1>4 DEF Decided
<1>6. \/ accredited = Unknown({"accredited"})
      \/ accredited' = accredited /\ accredited \in {Pass, Barred}
  <2>1. CASE t.accredited /\ profile.accredited # Blank
    <3>1. /\ accredited = Decided(profile.accredited, Barred)
          /\ accredited' = Decided(profile'.accredited, Barred)
      BY <1>1, <2>1
    <3> QED
      BY <1>1, <2>1, <3>1, DecidedIs
  <2>2. CASE t.accredited /\ profile.accredited = Blank
    <3>1. accredited = Unknown({"accredited"})
      BY <2>2
    <3> HIDE DEF accredited
    <3> QED
      BY <3>1
  <2>3. CASE ~t.accredited
    BY <2>3
  <2> QED
    BY <2>1, <2>2, <2>3
<1>7. \/ fullTime = Unknown({"partTime"})
      \/ fullTime' = fullTime /\ fullTime \in {Pass, Barred}
  <2>1. CASE ~t.partTimeOK /\ profile.partTime # Blank
    <3>1. /\ fullTime = Decided(~profile.partTime, Barred)
          /\ fullTime' = Decided(~profile'.partTime, Barred)
      BY <1>1, <2>1
    <3> QED
      BY <1>1, <2>1, <3>1, DecidedIs
  <2>2. CASE ~t.partTimeOK /\ profile.partTime = Blank
    <3>1. fullTime = Unknown({"partTime"})
      BY <2>2
    <3> HIDE DEF fullTime
    <3> QED
      BY <3>1
  <2>3. CASE t.partTimeOK
    BY <2>3
  <2> QED
    BY <2>1, <2>2, <2>3
<1> HIDE DEF closedByName, degree, accredited, fullTime
<1>8. CASE degree # Pass
  <2>1. Institution(t) = degree
    BY <1>2, <1>8 DEF Then
  <2>2. CASE degree = Unknown({"degreeLevel"})
    BY <2>1, <2>2 DEF Keeps, Shut, Resolvable
  <2>3. CASE degree = Barred /\ degree' = Barred
    BY <1>3, <2>1, <2>3 DEF Then, Keeps, Shut
  <2>4. CASE degree = Fail /\ degree' \in {Fail, Barred}
    <3>1. Institution(t)' = degree'
      BY <1>3, <2>4 DEF Then
    <3> QED
      BY <2>1, <2>4, <3>1 DEF Keeps, Shut
  <2> QED
    BY <1>5, <1>8, <2>2, <2>3, <2>4
<1>9. CASE degree = Pass
  BY <1>2, <1>3, <1>5, <1>6, <1>7, <1>9 DEF Then, Keeps, Shut, Resolvable
<1> QED
  BY <1>8, <1>9

LEMMA GpaSteady ==
  ASSUME Answered, kind = "student", NEW t
  PROVE  Steady(Gpa(t), Gpa(t)')
<1>1. /\ profile.gpa # Blank => profile'.gpa = profile.gpa
      /\ profile.classRankTopPct # Blank => profile'.classRankTopPct = profile.classRankTopPct
  BY StudentAnswered DEF StudentFields
<1> DEFINE grade == Ask("gpa", profile.gpa >= t.min)
           rank  == Ask("classRankTopPct", profile.classRankTopPct <= t.classRank)
<1>2. Steady(grade, grade') /\ Steady(rank, rank')
  BY <1>1 DEF Ask, Decided, Steady, Shut, Resolvable
<1>3. /\ Gpa(t) = Either(Three(t.min # Unset, grade, t.classRank # Unset, rank, FALSE, Pass))
      /\ Gpa(t)' = Either(Three(t.min # Unset, grade', t.classRank # Unset, rank', FALSE, Pass))
  BY DEF Gpa, Three, When
<1> HIDE DEF grade, rank
<1>4. (t.min # Unset) \in BOOLEAN /\ (t.classRank # Unset) \in BOOLEAN /\ FALSE \in BOOLEAN
  OBVIOUS
<1>5. Steady(Pass, Pass)
  BY DEF Steady
<1> HIDE DEF Pass
<1>6. Steady(Either(Three(t.min # Unset, grade, t.classRank # Unset, rank, FALSE, Pass)),
             Either(Three(t.min # Unset, grade', t.classRank # Unset, rank', FALSE, Pass)))
  BY <1>2, <1>4, <1>5, ThreeSteady
<1> QED
  BY <1>3, <1>6

LEMMA MembershipSteady ==
  ASSUME Answered, kind \in {"student", "organization"}, NEW t
  PROVE  Steady(Membership(t), Membership(t)')
<1>1. /\ kind' = kind
      /\ kind = "student" /\ profile.arrlMonths # Blank => profile'.arrlMonths = profile.arrlMonths
      /\ kind = "organization" /\ profile.arrlAffiliated # Blank =>
           profile'.arrlAffiliated = profile.arrlAffiliated
  BY DEF Answered, FieldsOf, StudentFields, OrgFields
<1> QED
  BY <1>1 DEF Membership, Ask, Decided, Steady, Shut, Resolvable

LEMMA CitizenshipSteady ==
  ASSUME Answered, kind = "student", NEW t
  PROVE  Steady(Citizenship(t), Citizenship(t)')
<1>1. /\ profile.citizenship # Blank => profile'.citizenship = profile.citizenship
  BY StudentAnswered DEF StudentFields
<1> QED
  BY <1>1 DEF Citizenship, Ask, Decided, Steady, Shut, Resolvable

LEMMA AgeStageSteady ==
  ASSUME Answered, kind = "student", NEW t, ~Overrules
  PROVE  Steady(AgeStage(t), AgeStage(t)')
<1>1. /\ profile.stage # Blank => profile'.stage = profile.stage
      /\ profile.age # Blank => profile'.age = profile.age
  BY StudentAnswered DEF StudentFields
<1>2. profile.stage # Blank => StagesSatisfied' = StagesSatisfied
  BY <1>1 DEF Overrules, StagesSatisfied
<1> DEFINE stage == Ask("stage", StagesSatisfied \cap t.stages # {})
           low   == Ask("age", profile.age >= t.ageMin)
           high  == Ask("age", profile.age <= t.ageMax)
<1>3. Steady(stage, stage') /\ Steady(low, low') /\ Steady(high, high')
  BY <1>1, <1>2 DEF Ask, Decided, Steady, Shut, Resolvable
<1>4. /\ AgeStage(t) = Every(Three(t.stages # {}, stage, t.ageMin # Unset, low,
                                   t.ageMax # Unset, high))
      /\ AgeStage(t)' = Every(Three(t.stages # {}, stage', t.ageMin # Unset, low',
                                    t.ageMax # Unset, high'))
  BY DEF AgeStage, Three
<1>5. /\ (t.stages # {}) \in BOOLEAN /\ (t.ageMin # Unset) \in BOOLEAN
      /\ (t.ageMax # Unset) \in BOOLEAN
  OBVIOUS
<1> HIDE DEF stage, low, high
<1>6. Steady(Every(Three(t.stages # {}, stage, t.ageMin # Unset, low, t.ageMax # Unset, high)),
             Every(Three(t.stages # {}, stage', t.ageMin # Unset, low', t.ageMax # Unset, high')))
  BY <1>3, <1>5, ThreeSteady
<1> QED
  BY <1>4, <1>6

LEMMA HamActivitySteady ==
  ASSUME Answered, kind = "student", NEW t, NEW opened
  PROVE  Steady(HamActivity(t, opened), HamActivity(t, opened)')
<1>1. /\ profile.activityKinds # Blank => profile'.activityKinds = profile.activityKinds
      /\ profile.cwWpm # Blank => profile'.cwWpm = profile.cwWpm
  BY StudentAnswered DEF StudentFields
<1> DEFINE kinds == Ask("activityKinds", profile.activityKinds \cap t.kinds # {})
           cw    == Ask("cwWpm", profile.cwWpm >= t.cwWpm)
           open  == opened /\ t.kinds # {} /\ kinds.status = "fail"
           asked == When(t.kinds # {} /\ ~open, kinds) \cup When(t.cwWpm # Unset, cw)
<1>2. /\ Steady(kinds, kinds') /\ kinds \in {Pass, Fail, Unknown({"activityKinds"})}
      /\ Steady(cw, cw') /\ cw \in {Pass, Fail, Unknown({"cwWpm"})}
  BY <1>1 DEF Ask, Decided, Steady, Shut, Resolvable
<1>3. HamActivity(t, opened) = IF open /\ Every(asked) = Pass THEN Unknown({}) ELSE Every(asked)
  BY DEF HamActivity
<1>4. HamActivity(t, opened)' =
        IF open' /\ Every(asked') = Pass THEN Unknown({}) ELSE Every(asked')
  BY DEF HamActivity, Every, When, Missing
<1>5. open => open'
  BY <1>2 DEF Steady
<1>6. asked' = When(t.kinds # {} /\ ~open', kinds') \cup When(t.cwWpm # Unset, cw')
  BY DEF When
<1> HIDE DEF kinds, cw
<1>7. Steady(Pass, Pass) /\ When(FALSE, Pass) = {}
  BY DEF Steady, When
<1>8. CASE open' = open
  <2>1. /\ asked = Three(t.kinds # {} /\ ~open, kinds, t.cwWpm # Unset, cw, FALSE, Pass)
        /\ asked' = Three(t.kinds # {} /\ ~open, kinds', t.cwWpm # Unset, cw', FALSE, Pass)
    BY <1>6, <1>7, <1>8 DEF Three
  <2>2. /\ (t.kinds # {} /\ ~open) \in BOOLEAN /\ (t.cwWpm # Unset) \in BOOLEAN
        /\ FALSE \in BOOLEAN
    OBVIOUS
  <2> HIDE DEF open, asked
  <2>3. Steady(Every(asked), Every(asked'))
    BY <1>2, <1>7, <2>1, <2>2, ThreeSteady
  <2> QED
    BY <1>3, <1>4, <1>8, <2>3 DEF Steady
<1>9. CASE ~open /\ open'
  <2>1. opened /\ t.kinds # {} /\ kinds = Unknown({"activityKinds"})
    BY <1>2, <1>9 DEF Steady
  <2>2. kinds \in asked
    BY <1>9, <2>1 DEF When
  <2>3. CASE t.cwWpm # Unset /\ cw = Fail
    <3>1. cw' = Fail /\ cw \in asked /\ cw' \in asked'
      BY <1>2, <1>6, <2>3 DEF When, Steady
    <3>2. Every(asked) = Fail /\ Every(asked') = Fail
      BY <2>3, <3>1 DEF Every
    <3> QED
      BY <1>3, <1>4, <3>2 DEF Steady, Shut
  <2>4. CASE ~(t.cwWpm # Unset /\ cw = Fail)
    <3>1. \A r \in asked : r.status # "fail"
      BY <1>2, <2>1, <2>4 DEF When
    <3>2. "activityKinds" \in Missing(asked)
      BY <2>1, <2>2 DEF Missing
    <3> HIDE DEF asked
    <3>3. Every(asked) = Unknown(Missing(asked))
      BY <2>1, <2>2, <3>1 DEF Every
    <3> QED
      <4>1. Every(asked) # Pass
        BY <3>3
      <4>2. HamActivity(t, opened) = Unknown(Missing(asked))
        BY <1>3, <3>3, <4>1
      <4> QED
        BY <3>2, <4>2 DEF Steady, Shut, Resolvable
  <2> QED
    BY <2>3, <2>4
<1> QED
  BY <1>5, <1>8, <1>9

LEMMA GenderSteady ==
  ASSUME Answered, kind = "student", NEW t
  PROVE  Steady(Gender(t), Gender(t)')
<1>1. /\ profile.gender # Blank => profile'.gender = profile.gender
  BY StudentAnswered DEF StudentFields
<1> QED
  BY <1>1 DEF Gender, Decided, Steady, Shut, Resolvable

HIDE DEF Pass, Fail, Barred, NotEvaluable, Unknown, Result

\* What holds of a tier the extractors write.
TierOK(t) ==
  /\ t.axis \in Axes
  /\ t.axis = "geography" => t.type \in GeoTypes
  /\ t.axis = "geography" /\ t.type = "county" => \A v \in t.values : v.state # Blank

LEMMA NotEvaluableSteady == Steady(NotEvaluable, NotEvaluable)
BY DEF Steady

LEMMA TierSteady ==
  ASSUME Answered, ~Overrules, kind \in {"student", "organization"},
         NEW t, TierOK(t), t.axis \notin {"institution", "financial_need"}, NEW opened
  PROVE  Steady(EvaluateTier(t, opened), EvaluateTier(t, opened)')
<1>0. kind' = kind
  BY DEF Answered
<1>1. CASE t.axis = "geography"
  BY <1>1, GeographySteady DEF EvaluateTier, TierOK
<1>2. CASE t.axis = "arrl_membership"
  BY <1>2, MembershipSteady DEF EvaluateTier
<1>3. CASE t.axis \in {"recommendation", "other"}
  BY <1>3, NotEvaluableSteady DEF EvaluateTier
<1>4. CASE t.axis \notin {"geography", "arrl_membership", "recommendation", "other"} /\ kind # "student"
  BY <1>0, <1>4, NotEvaluableSteady DEF EvaluateTier
<1>5. CASE t.axis = "license" /\ kind = "student"
  BY <1>0, <1>5, LicenseSteady DEF EvaluateTier
<1>6. CASE t.axis = "field_of_study" /\ kind = "student"
  BY <1>0, <1>6, FieldOfStudySteady DEF EvaluateTier
<1>7. CASE t.axis = "gpa" /\ kind = "student"
  BY <1>0, <1>7, GpaSteady DEF EvaluateTier
<1>8. CASE t.axis = "citizenship" /\ kind = "student"
  BY <1>0, <1>8, CitizenshipSteady DEF EvaluateTier
<1>9. CASE t.axis = "age_stage" /\ kind = "student"
  BY <1>0, <1>9, AgeStageSteady DEF EvaluateTier
<1>10. CASE t.axis = "ham_activity" /\ kind = "student"
  BY <1>0, <1>10, HamActivitySteady DEF EvaluateTier
<1>11. CASE t.axis = "gender" /\ kind = "student"
  BY <1>0, <1>11, GenderSteady DEF EvaluateTier
<1> QED
  BY <1>1, <1>2, <1>3, <1>4, <1>5, <1>6, <1>7, <1>8, <1>9, <1>10, <1>11 DEF TierOK, Axes

\* A school that is refused may become refused by name, and nothing else.
LEMMA SchoolKeeps ==
  ASSUME Answered, kind \in {"student", "organization"}, NEW t, t.axis = "institution", NEW opened
  PROVE  /\ Keeps(EvaluateTier(t, opened), EvaluateTier(t, opened)')
         /\ Shut(EvaluateTier(t, opened)) => EvaluateTier(t, opened)' = EvaluateTier(t, opened)
<1>0. kind' = kind
  BY DEF Answered
<1>1. CASE kind = "student"
  <2>1. EvaluateTier(t, opened) = Institution(t) /\ EvaluateTier(t, opened)' = Institution(t)'
    BY <1>0, <1>1 DEF EvaluateTier
  <2> QED
    BY <1>1, <2>1, InstitutionKeeps
<1>2. CASE kind # "student"
  <2>1. EvaluateTier(t, opened) = NotEvaluable /\ EvaluateTier(t, opened)' = NotEvaluable
    BY <1>0, <1>2 DEF EvaluateTier
  <2> QED
    BY <2>1 DEF Keeps
<1> QED
  BY <1>1, <1>2

\* evaluateConstraint, of the results of its routes.
Weigh(base, routes, unrepresented) ==
  IF base.status \in {"pass", "not_evaluable"} \/ base.barred THEN base
  ELSE IF Either(routes).status = "fail" /\ unrepresented THEN Unknown({})
  ELSE IF routes = {base} THEN base
  ELSE Either(routes)

LEMMA EitherIs ==
  ASSUME NEW B, B # {}
  PROVE  \/ Pass \in B /\ Either(B) = Pass
         \/ /\ Pass \notin B /\ \E r \in B : r.status = "unknown"
            /\ Either(B) = Unknown(Missing(B))
         \/ /\ Pass \notin B /\ \A r \in B : r.status # "unknown"
            /\ Either(B) = Fail
BY DEF Either

\* One route alone.
LEMMA AloneKeeps ==
  ASSUME NEW r, NEW q, NEW w, Keeps(r, q), SameCallsign => (Shut(r) => q = r)
  PROVE  /\ Keeps(Weigh(r, {r}, w), Weigh(q, {q}, w))
         /\ SameCallsign /\ ~w /\ Shut(Weigh(r, {r}, w)) => Weigh(q, {q}, w) = Weigh(r, {r}, w)
<1>1. CASE q = r
  BY <1>1 DEF Keeps
<1>2. CASE r.status = "unknown"
  <2>1. Either({r}).status = "unknown"
    BY <1>2, OutcomesDiffer, EitherIs
  <2>2. Weigh(r, {r}, w) = r
    BY <2>1 DEF Weigh
  <2> QED
    BY <1>1, <1>2, <2>2 DEF Keeps
<1>3. CASE r = Fail /\ q = Barred
  <2>1. Either({r}) = Fail
    BY <1>3, OutcomesDiffer, EitherIs
  <2>2. Weigh(r, {r}, w) \in {Fail, Unknown({})} /\ (~w => Weigh(r, {r}, w) = Fail)
    BY <1>3, <2>1, OutcomesDiffer DEF Weigh
  <2>3. Weigh(q, {q}, w) = Barred
    BY <1>3, OutcomesDiffer DEF Weigh
  <2> QED
    BY <2>2, <2>3, OutcomesDiffer DEF Keeps, Shut
<1> QED
  BY <1>1, <1>2, <1>3 DEF Keeps

Weighed(s, b, T, w) == Weigh(b[s], {b[k] : k \in T}, w)

\* Several: an alternative that passes still does, and the first one is not
\* by then refused by name.
LEMMA SeveralKeep ==
  ASSUME NEW T, NEW s \in T, NEW b, NEW a, NEW w, \A k \in T : Steady(b[k], a[k]),
         b[s].status = "unknown" /\ (\E k \in T : b[k] = Pass) =>
           a[s] = Pass \/ (a[s].status \notin {"pass", "not_evaluable"} /\ ~a[s].barred)
  PROVE  /\ Keeps(Weighed(s, b, T, w), Weighed(s, a, T, w))
         /\ SameCallsign /\ Shut(Weighed(s, b, T, w)) =>
              w \/ Weighed(s, a, T, w) = Weighed(s, b, T, w)
<1> DEFINE B == {b[k] : k \in T}
           A == {a[k] : k \in T}
           before == Weigh(b[s], B, w)
           after  == Weigh(a[s], A, w)
<1>1. ASSUME \A k \in T : b[k].status # "unknown" PROVE after = before
  BY <1>1 DEF Steady
<1>2. ASSUME SameCallsign, \A k \in T : b[k].status = "unknown" => Shut(b[k]) PROVE after = before
  <2>1. \A k \in T : a[k] = b[k]
    BY <1>2 DEF Steady
  <2> QED
    BY <2>1
<1>3. b[s] \in B /\ B # {} /\ a[s] \in A /\ A # {}
  OBVIOUS
<1>4. \A k \in T : b[k] \in B
  OBVIOUS
<1>5. \A r \in B : \E k \in T : r = b[k]
  OBVIOUS
<1>6. Pass \in B => Pass \in A
  BY OutcomesDiffer DEF Steady
<1>7. b[s].status # "unknown" => a[s] = b[s]
  BY DEF Steady
<1>8. SameCallsign /\ Shut(b[s]) => a[s] = b[s]
  BY DEF Steady
<1> HIDE DEF A, B
<1>9. CASE b[s].status \in {"pass", "not_evaluable"} \/ b[s].barred
  <2>1. before = b[s]
    BY <1>9 DEF Weigh
  <2>2. a[s] = b[s] => after = b[s]
    BY <1>9 DEF Weigh
  <2> QED
    BY <1>7, <1>8, <2>1, <2>2 DEF Keeps, Weighed, A, B
<1>10. CASE ~(b[s].status \in {"pass", "not_evaluable"} \/ b[s].barred)
  <2>1. CASE Pass \in B
    <3>1. Either(B) = Pass /\ Either(A) = Pass
      BY <1>3, <1>6, <2>1, EitherIs
    <3>2. b[s] # Pass
      BY <1>10, OutcomesDiffer
    <3>3. before = Pass
      BY <1>10, <2>1, <3>1, <3>2, OutcomesDiffer DEF Weigh
    <3>4. a[s] = Pass \/ (a[s].status \notin {"pass", "not_evaluable"} /\ ~a[s].barred)
      <4>1. CASE b[s].status = "unknown"
        BY <1>5, <2>1, <4>1
      <4>2. CASE b[s].status # "unknown"
        BY <1>7, <1>10, <4>2
      <4> QED
        BY <4>1, <4>2
    <3>5. after = Pass
      <4>1. CASE a[s] = Pass
        BY <4>1, OutcomesDiffer DEF Weigh
      <4>2. CASE a[s].status \notin {"pass", "not_evaluable"} /\ ~a[s].barred
        <5>1. A # {a[s]}
          BY <1>6, <2>1, <4>2, OutcomesDiffer
        <5> QED
          BY <3>1, <4>2, <5>1, OutcomesDiffer DEF Weigh
      <4> QED
        BY <3>4, <4>1, <4>2
    <3> QED
      BY <3>3, <3>5 DEF Keeps, Weighed, A, B
  <2>2. CASE Pass \notin B /\ \E r \in B : r.status = "unknown"
    <3>1. Either(B) = Unknown(Missing(B))
      BY <1>3, <2>2, EitherIs
    <3>2. before = (IF B = {b[s]} THEN b[s] ELSE Unknown(Missing(B)))
      BY <1>10, <3>1, OutcomesDiffer DEF Weigh
    <3>3. before.status = "unknown"
      BY <2>2, <3>2, OutcomesDiffer
    <3>4. Shut(before) => \A k \in T : b[k].status = "unknown" => Shut(b[k])
      <4>1. CASE B = {b[s]}
        <5>1. \A k \in T : b[k] = b[s]
          BY <1>4, <4>1
        <5> QED
          BY <3>2, <4>1, <5>1
      <4>2. CASE B # {b[s]}
        <5>1. before = Unknown(Missing(B))
          BY <3>2, <4>2
        <5>2. ASSUME Shut(before) PROVE \A f \in Missing(B) : ~Resolvable(f)
          <6> HIDE DEF before
          <6> QED
            BY <5>1, <5>2, OutcomesDiffer DEF Shut
        <5>3. ASSUME NEW k \in T, b[k].status = "unknown" PROVE b[k].missing \subseteq Missing(B)
          BY <1>4, <5>3 DEF Missing
        <5> QED
          BY <5>2, <5>3 DEF Shut
      <4> QED
        BY <4>1, <4>2
    <3> QED
      BY <1>2, <3>3, <3>4 DEF Keeps, Weighed, A, B
  <2>3. CASE Pass \notin B /\ \A r \in B : r.status # "unknown"
    BY <1>1, <1>4, <2>3 DEF Keeps, Weighed, A, B
  <2> QED
    BY <2>1, <2>2, <2>3
<1> QED
  BY <1>9, <1>10

\* A refusal by name is never news to a subject that was stated; and while it
\* is not, no list with the same exclusions passes.
LEMMA BarredIsNotNews ==
  ASSUME Answered, kind = "student", NEW t, NEW u, NEW opened, u.excluded = t.excluded,
         FieldOfStudy(t, opened).status = "unknown", FieldOfStudy(t, opened)'.barred
  PROVE  FieldOfStudy(u, opened) # Pass
<1> DEFINE excluded(v) == FieldRequirement(v, opened).excluded
<1>1. excluded(u) = excluded(t) /\ excluded(t)' = excluded(t)
  BY DEF FieldRequirement
<1>2. profile.fieldOfStudy = Blank
  <2>1. profile.fieldOfStudy # Blank => profile'.fieldOfStudy = profile.fieldOfStudy
    BY StudentAnswered DEF StudentFields
  <2>2. ASSUME profile.fieldOfStudy # Blank
        PROVE  FieldOfStudy(t, opened)' = FieldOfStudy(t, opened)
    BY <2>1, <2>2 DEF FieldOfStudy
  <2>3. FieldOfStudy(t, opened).status = "unknown" => ~FieldOfStudy(t, opened).barred
    BY OutcomesDiffer DEF FieldOfStudy
  <2> QED
    BY <2>2, <2>3
<1>3. excluded(t) # {}
  BY OutcomesDiffer DEF FieldOfStudy
<1> QED
  BY <1>1, <1>2, <1>3, OutcomesDiffer DEF FieldOfStudy

\* What an unknown route may become.
LEMMA FirstIsNotBarred ==
  ASSUME Answered, ~Overrules, kind \in {"student", "organization"},
         NEW t, TierOK(t), t.axis \in {"license", "geography", "field_of_study"}, NEW opened,
         EvaluateTier(t, opened).status = "unknown",
         NEW u, u.axis = t.axis, t.axis = "field_of_study" => u.excluded = t.excluded,
         EvaluateTier(u, opened) = Pass
  PROVE  \/ EvaluateTier(t, opened)' = Pass
         \/ /\ EvaluateTier(t, opened)'.status \notin {"pass", "not_evaluable"}
            /\ ~EvaluateTier(t, opened)'.barred
<1>0. kind' = kind
  BY DEF Answered
<1> DEFINE after == EvaluateTier(t, opened)'
           Open(r) == r = Pass \/ r = Fail \/ \E asks : r = Unknown(asks)
<1>1. ASSUME Open(after)
      PROVE  after = Pass \/ (after.status \notin {"pass", "not_evaluable"} /\ ~after.barred)
  <2> HIDE DEF after
  <2> QED
    BY <1>1, OutcomesDiffer
<1>2. CASE t.axis = "geography"
  <2>1. after = Geography(t)'
    BY <1>2 DEF EvaluateTier
  <2>2. Open(Geography(t)')
    BY <1>2 DEF Geography, County, Radius, Ask, Decided, TierOK, GeoTypes
  <2> QED
    BY <1>1, <2>1, <2>2
<1>3. CASE t.axis # "geography" /\ kind # "student"
  <2>1. EvaluateTier(t, opened) = NotEvaluable
    BY <1>3 DEF EvaluateTier
  <2> QED
    BY <2>1, OutcomesDiffer
<1>4. CASE t.axis = "license" /\ kind = "student"
  <2>1. after = License(t)'
    BY <1>0, <1>4 DEF EvaluateTier
  <2>2. Open(License(t)')
    BY DEF License, Then, Ask, Decided
  <2> QED
    BY <1>1, <2>1, <2>2
<1>5. CASE t.axis = "field_of_study" /\ kind = "student"
  <2>1. /\ EvaluateTier(t, opened) = FieldOfStudy(t, opened)
        /\ EvaluateTier(u, opened) = FieldOfStudy(u, opened)
        /\ after = FieldOfStudy(t, opened)'
    BY <1>0, <1>5 DEF EvaluateTier
  <2>2. Open(FieldOfStudy(t, opened)') \/ FieldOfStudy(t, opened)' = Barred
    BY DEF FieldOfStudy
  <2>3. FieldOfStudy(t, opened)' # Barred
    BY <1>5, <2>1, BarredIsNotNews, OutcomesDiffer
  <2> QED
    BY <1>1, <2>1, <2>2, <2>3
<1> QED
  BY <1>2, <1>3, <1>4, <1>5

Routes(c) == {c.tier} \cup {t \in c.anyOf : t.axis = c.tier.axis}

LEMMA ConstraintWeighs ==
  ASSUME NEW c
  PROVE  /\ EvaluateConstraint(c) =
              Weigh(EvaluateTier(c.tier, c.opened),
                    {EvaluateTier(t, c.opened) : t \in Routes(c)}, c.orUnrepresented)
         /\ EvaluateConstraint(c)' =
              Weigh(EvaluateTier(c.tier, c.opened)',
                    {EvaluateTier(t, c.opened)' : t \in Routes(c)}, c.orUnrepresented)
<1> DEFINE others == {a \in c.anyOf : a.axis = c.tier.axis}
           base == EvaluateTier(c.tier, c.opened)
           routes == {base} \cup {EvaluateTier(t, c.opened) : t \in others}
<1>1. /\ routes = {EvaluateTier(t, c.opened) : t \in Routes(c)}
      /\ routes' = {EvaluateTier(t, c.opened)' : t \in Routes(c)}
  BY DEF Routes
<1>2. EvaluateConstraint(c) = Weigh(base, routes, c.orUnrepresented)
  BY DEF EvaluateConstraint, Weigh
<1>3. EvaluateConstraint(c)' = Weigh(base', routes', c.orUnrepresented)
  BY DEF EvaluateConstraint, Weigh
<1> QED
  BY <1>1, <1>2, <1>3

LEMMA ConstraintKeeps ==
  ASSUME Answered, ~Overrules, MatchTypeOK, NEW c \in program.constraints,
         c.tier.axis # "financial_need"
  PROVE  /\ Keeps(EvaluateConstraint(c), EvaluateConstraint(c)')
         /\ SameCallsign /\ ~c.orUnrepresented /\ Shut(EvaluateConstraint(c)) =>
              EvaluateConstraint(c)' = EvaluateConstraint(c)
<1>0. kind \in {"student", "organization"} /\ program \in Catalogue
  BY DEF MatchTypeOK
<1>1. /\ \A t \in Routes(c) : TierOK(t)
      /\ c.anyOf # {} => c.tier.axis \in {"license", "geography", "field_of_study"}
      /\ \A t \in Routes(c) : c.tier.axis = "field_of_study" => t.excluded = c.tier.excluded
      /\ \A t \in Routes(c) : t.axis = c.tier.axis
  BY <1>0, CatalogueAssumption DEF TierOK, Routes
<1> DEFINE T == Routes(c)
           b == [t \in T |-> EvaluateTier(t, c.opened)]
           a == [t \in T |-> EvaluateTier(t, c.opened)']
           s == c.tier
<1>2. s \in T
  BY DEF Routes
<1>3. /\ EvaluateConstraint(c) = Weigh(b[s], {b[t] : t \in T}, c.orUnrepresented)
      /\ EvaluateConstraint(c)' = Weigh(a[s], {a[t] : t \in T}, c.orUnrepresented)
  <2>1. EvaluateConstraint(c)' =
          Weigh(EvaluateTier(s, c.opened)', {EvaluateTier(t, c.opened)' : t \in T}, c.orUnrepresented)
    BY ConstraintWeighs
  <2>2. EvaluateConstraint(c) =
          Weigh(EvaluateTier(s, c.opened), {EvaluateTier(t, c.opened) : t \in T}, c.orUnrepresented)
    BY ConstraintWeighs
  <2>3. /\ b[s] = EvaluateTier(s, c.opened) /\ a[s] = EvaluateTier(s, c.opened)'
        /\ {b[t] : t \in T} = {EvaluateTier(t, c.opened) : t \in T}
        /\ {a[t] : t \in T} = {EvaluateTier(t, c.opened)' : t \in T}
    BY <1>2
  <2> QED
    BY <2>1, <2>2, <2>3
<1>4. CASE s.axis = "institution"
  <2>1. T = {s}
    BY <1>1, <1>4 DEF Routes
  <2>2. {b[t] : t \in T} = {b[s]} /\ {a[t] : t \in T} = {a[s]}
    BY <2>1
  <2>3. Keeps(b[s], a[s]) /\ (Shut(b[s]) => a[s] = b[s])
    BY <1>0, <1>2, <1>4, SchoolKeeps
  <2> HIDE DEF b, a, T, s
  <2> QED
    BY <1>3, <2>2, <2>3, AloneKeeps
<1>5. CASE s.axis # "institution"
  <2>1. ASSUME NEW t \in T PROVE Steady(b[t], a[t])
    <3>1. t.axis \notin {"institution", "financial_need"}
      BY <1>1, <1>5
    <3> QED
      BY <1>0, <1>1, <2>1, <3>1, TierSteady
  <2>2. ASSUME b[s].status = "unknown", NEW t \in T, b[t] = Pass
        PROVE  a[s] = Pass \/ (a[s].status \notin {"pass", "not_evaluable"} /\ ~a[s].barred)
    <3>1. CASE c.anyOf = {}
      <4>1. t = s
        BY <3>1 DEF Routes
      <4> QED
        BY <2>2, <4>1, OutcomesDiffer
    <3>2. CASE c.anyOf # {}
      <4>1. s.axis \in {"license", "geography", "field_of_study"}
        BY <1>1, <3>2
      <4>2. t.axis = s.axis /\ (s.axis = "field_of_study" => t.excluded = s.excluded) /\ TierOK(s)
        BY <1>1, <1>2
      <4>3. EvaluateTier(s, c.opened).status = "unknown" /\ EvaluateTier(t, c.opened) = Pass
        BY <1>2, <2>2
      <4> HIDE DEF s
      <4>4. \/ EvaluateTier(s, c.opened)' = Pass
            \/ /\ EvaluateTier(s, c.opened)'.status \notin {"pass", "not_evaluable"}
               /\ ~EvaluateTier(s, c.opened)'.barred
        BY <1>0, <4>1, <4>2, <4>3, FirstIsNotBarred DEF s
      <4> QED
        BY <1>2, <4>4
    <3> QED
      BY <3>1, <3>2
  <2> DEFINE w == c.orUnrepresented
  <2>3. s \in T /\ \A t \in T : Steady(b[t], a[t])
    BY <1>2, <2>1
  <2>4. b[s].status = "unknown" /\ (\E t \in T : b[t] = Pass) =>
          a[s] = Pass \/ (a[s].status \notin {"pass", "not_evaluable"} /\ ~a[s].barred)
    BY <2>2
  <2> HIDE DEF b, a, T, s
  <2>5. /\ Keeps(Weighed(s, b, T, w), Weighed(s, a, T, w))
        /\ SameCallsign /\ Shut(Weighed(s, b, T, w)) =>
             w \/ Weighed(s, a, T, w) = Weighed(s, b, T, w)
    <3> HIDE DEF w
    <3> QED
      BY <2>3, <2>4, SeveralKeep
  <2>6. EvaluateConstraint(c) = Weighed(s, b, T, w) /\ EvaluateConstraint(c)' = Weighed(s, a, T, w)
    BY <1>3 DEF Weighed
  <2> QED
    BY <2>5, <2>6
<1> QED
  BY <1>4, <1>5

---------------------------------------------------------------------------
(* The verdict *)

HardOnes == {c \in program.constraints : ~IsSoft(c)}
Misfit == program.entities # {} /\ entity \notin program.entities
Refused == \E c \in HardOnes : EvaluateConstraint(c).status = "fail"
Asking ==
  \E c \in HardOnes : EvaluateConstraint(c).status = "unknown" /\ ~Shut(EvaluateConstraint(c))
Unfillable ==
  \/ program.entities = {} \/ program.constraints = {}
  \/ \E c \in HardOnes : Shut(EvaluateConstraint(c))

\* matchProgram, in terms of its hard constraints.
VerdictRule ==
  /\ Verdict.kind = "ineligible" <=> Misfit \/ Refused
  /\ Eligible <=> ~(Misfit \/ Refused \/ Asking \/ Unfillable)
  /\ Verdict = [kind |-> "unknown", missing |-> {}] <=>
       ~Misfit /\ ~Refused /\ ~Asking /\ Unfillable

LEMMA VerdictIs == VerdictRule
<1> USE DEF VerdictRule
<1> DEFINE hard == {EvaluateConstraint(c) : c \in {d \in program.constraints : ~IsSoft(d)}}
           unknowns == {r \in hard : r.status = "unknown"}
           asks(r)  == {f \in r.missing : Resolvable(f)}
           open == \/ program.entities = {} \/ program.constraints = {}
                   \/ \E r \in unknowns : asks(r) = {}
           missing == UNION {asks(r) : r \in unknowns}
           met == {c \in program.constraints :
                     IsSoft(c) /\ EvaluateConstraint(c) = Pass /\ StatesARequirement(c.tier)}
<1>1. Refused <=> \E r \in hard : r.status = "fail"
  BY DEF Refused, HardOnes
<1>2. Asking <=> missing # {}
  BY DEF Asking, HardOnes, Shut
<1>3. Unfillable <=> open
  BY DEF Unfillable, HardOnes, Shut
<1>4. Verdict =
        IF Misfit THEN [kind |-> "ineligible", missing |-> {}]
        ELSE IF \E r \in hard : r.status = "fail" THEN [kind |-> "ineligible", missing |-> {}]
        ELSE IF missing # {} \/ open THEN [kind |-> "unknown", missing |-> missing]
        ELSE [kind |-> IF met # {} THEN "eligible_preferred" ELSE "eligible", missing |-> {}]
  BY DEF Verdict, Misfit
<1> HIDE DEF missing, open, met, hard
<1>5. CASE Misfit \/ Refused
  <2>1. Verdict = [kind |-> "ineligible", missing |-> {}]
    BY <1>1, <1>4, <1>5
  <2> QED
    BY <1>5, <2>1 DEF Eligible
<1>6. CASE ~Misfit /\ ~Refused /\ (Asking \/ Unfillable)
  <2>1. Verdict = [kind |-> "unknown", missing |-> missing]
    BY <1>1, <1>2, <1>3, <1>4, <1>6
  <2> QED
    BY <1>2, <1>6, <2>1 DEF Eligible
<1>7. CASE ~Misfit /\ ~Refused /\ ~Asking /\ ~Unfillable
  <2>1. Verdict.kind \in {"eligible", "eligible_preferred"}
    BY <1>1, <1>2, <1>3, <1>4, <1>7
  <2>2. Verdict # [kind |-> "unknown", missing |-> {}]
    BY <2>1
  <2> QED
    BY <1>7, <2>1, <2>2 DEF Eligible
<1> QED
  BY <1>5, <1>6, <1>7

LEMMA VerdictWillBe == VerdictRule'
BY VerdictIs, PTL

\* A turn of the form is one more answer.
LEMMA FillInAnswers ==
  MatchTypeOK /\ [MatchNext]_matchVars => Answered /\ MatchTypeOK'
<1> SUFFICES ASSUME MatchTypeOK, [MatchNext]_matchVars PROVE Answered /\ MatchTypeOK'
  OBVIOUS
<1>1. ASSUME NEW f \in Relevant, NEW answer \in Answers[f], FillIn(f, answer)
      PROVE  Answered /\ MatchTypeOK'
  <2>1. f \in FieldsOf(kind)
    BY DEF Relevant
  <2>2. /\ profile[f] = Blank /\ profile' = [profile EXCEPT ![f] = answer]
        /\ program' = program /\ kind' = kind /\ entity' = entity
        /\ DOMAIN profile = FieldsOf(kind)
    BY <1>1 DEF FillIn, MatchTypeOK
  <2>3. /\ DOMAIN profile' = FieldsOf(kind)
        /\ profile'[f] = answer /\ \A g \in FieldsOf(kind) \ {f} : profile'[g] = profile[g]
    BY <2>1, <2>2
  <2>4. Answered
    BY <2>2, <2>3 DEF Answered
  <2>5. FieldsOf(kind)' = FieldsOf(kind)
    BY <2>2
  <2>6. \A g \in FieldsOf(kind) : profile'[g] = Blank \/ profile'[g] \in Answers[g]
    BY <2>3 DEF MatchTypeOK
  <2> QED
    BY <2>2, <2>3, <2>4, <2>5, <2>6 DEF MatchTypeOK
<1>2. CASE UNCHANGED matchVars
  BY <1>2 DEF matchVars, Answered, MatchTypeOK
<1> QED
  BY <1>1, <1>2 DEF MatchNext

\* The machine keeps to profiles of the right kind.
THEOREM MatchTypeCorrect == MatchSpec => []MatchTypeOK
<1>1. MatchInit => MatchTypeOK
  BY DEF MatchInit, MatchTypeOK
<1> QED
  BY <1>1, FillInAnswers, PTL DEF MatchSpec

\* What a step keeps of every hard constraint.
LEMMA HardOnesKeep ==
  ASSUME MatchTypeOK, Answered, ~Overrules
  PROVE  /\ HardOnes' = HardOnes /\ Misfit' = Misfit
         /\ \A c \in HardOnes :
              /\ Keeps(EvaluateConstraint(c), EvaluateConstraint(c)')
              /\ SameCallsign /\ ~c.orUnrepresented /\ Shut(EvaluateConstraint(c)) =>
                   EvaluateConstraint(c)' = EvaluateConstraint(c)
<1>1. \A c \in HardOnes : c \in program.constraints /\ c.tier.axis # "financial_need"
  BY DEF HardOnes, IsSoft
<1> QED
  BY <1>1, ConstraintKeeps DEF Answered, HardOnes, Misfit, IsSoft

\* Neither an admission nor a refusal is a guess: whatever a member fills in
\* later leaves it, but for the two answers that overrule an assumption.
THEOREM VerdictsAreFinal == MatchSpec => DecidedIsFinal
<1>1. ASSUME MatchTypeOK, [MatchNext]_matchVars, ~Overrules
      PROVE  /\ Eligible => Eligible'
             /\ Verdict.kind = "ineligible" => Verdict'.kind = "ineligible"
  <2>1. Answered
    BY <1>1, FillInAnswers
  <2>2. /\ HardOnes' = HardOnes /\ Misfit' = Misfit
        /\ \A c \in HardOnes : Keeps(EvaluateConstraint(c), EvaluateConstraint(c)')
    BY <1>1, <2>1, HardOnesKeep
  <2>3. Refused => Refused'
    <3>1. ASSUME NEW c \in HardOnes, EvaluateConstraint(c).status = "fail"
          PROVE  EvaluateConstraint(c)'.status = "fail"
      BY <2>2, <3>1, OutcomesDiffer DEF Keeps
    <3> QED
      BY <2>2, <3>1 DEF Refused
  <2>4. ASSUME ~Refused, ~Asking, ~Unfillable PROVE ~Refused' /\ ~Asking' /\ ~Unfillable'
    <3>1. ASSUME NEW c \in HardOnes
          PROVE  /\ EvaluateConstraint(c)' = EvaluateConstraint(c)
                 /\ EvaluateConstraint(c).status \notin {"fail", "unknown"}
      <4>1. EvaluateConstraint(c).status \notin {"fail", "unknown"}
        BY <2>4 DEF Refused, Asking, Unfillable
      <4> QED
        BY <2>2, <4>1, OutcomesDiffer DEF Keeps
    <3>2. program' = program
      BY <2>1 DEF Answered
    <3> QED
      BY <2>2, <2>4, <3>1, <3>2 DEF Refused, Asking, Unfillable, Shut
  <2> QED
    BY <2>2, <2>3, <2>4, VerdictIs, VerdictWillBe DEF VerdictRule
<1> QED
  BY <1>1, MatchTypeCorrect, PTL DEF MatchSpec, DecidedIsFinal

\* "Nothing you could fill in would change that" is true, but for a route
\* nobody can represent and an organization's callsign.
THEOREM NothingToFillInStays == MatchSpec => NothingToFillInIsFinal
<1>1. ASSUME MatchTypeOK, [MatchNext]_matchVars, ~Overrules, ~Unrepresented,
             ~(kind = "organization" /\ profile.callsign # profile'.callsign),
             Verdict = [kind |-> "unknown", missing |-> {}]
      PROVE  Verdict' = Verdict
  <2>1. Answered /\ SameCallsign
    BY <1>1, FillInAnswers DEF SameCallsign
  <2>2. /\ HardOnes' = HardOnes /\ Misfit' = Misfit /\ program' = program
        /\ \A c \in HardOnes :
             /\ Keeps(EvaluateConstraint(c), EvaluateConstraint(c)')
             /\ ~c.orUnrepresented /\ Shut(EvaluateConstraint(c)) =>
                  EvaluateConstraint(c)' = EvaluateConstraint(c)
    BY <1>1, <2>1, HardOnesKeep DEF Answered
  <2>3. ~Misfit /\ ~Refused /\ ~Asking /\ Unfillable
    BY <1>1, VerdictIs DEF VerdictRule
  <2>4. ASSUME NEW c \in HardOnes
        PROVE  EvaluateConstraint(c)' = EvaluateConstraint(c)
    <3>1. ~c.orUnrepresented
      BY <1>1 DEF Unrepresented, HardOnes
    <3>2. CASE EvaluateConstraint(c).status = "unknown"
      BY <2>2, <2>3, <3>1, <3>2 DEF Asking
    <3>3. CASE EvaluateConstraint(c).status # "unknown"
      BY <2>2, <2>3, <3>3, OutcomesDiffer DEF Keeps, Refused
    <3> QED
      BY <3>2, <3>3
  <2>5. \A f : Resolvable(f)' <=> Resolvable(f)
    BY <2>1 DEF Answered, Resolvable
  <2>6. ~Misfit' /\ ~Refused' /\ ~Asking' /\ Unfillable'
    BY <2>2, <2>3, <2>4, <2>5 DEF Refused, Asking, Unfillable, Shut
  <2> QED
    BY <1>1, <2>6, VerdictWillBe DEF VerdictRule
<1> QED
  BY <1>1, MatchTypeCorrect, PTL DEF MatchSpec, NothingToFillInIsFinal

---------------------------------------------------------------------------
(* The questions *)

\* Every field an unknown names that this profile has is still open.
Honest(r) ==
  r.status = "unknown" =>
    \A f \in r.missing : Resolvable(f) => f \in FieldsOf(kind) /\ Unsettled(f)

LEMMA AskHonest ==
  ASSUME NEW f \in FieldsOf(kind), f \notin {"gender", "fieldOfStudy"}, NEW met
  PROVE  Honest(Ask(f, met))
BY OutcomesDiffer DEF Honest, Ask, Decided, Unsettled

LEMMA BothHonest ==
  ASSUME NEW B, \A r \in B : Honest(r)
  PROVE  Honest(Either(B)) /\ Honest(Every(B))
<1>1. Honest(Unknown(Missing(B)))
  BY OutcomesDiffer DEF Honest, Missing
<1> QED
  BY <1>1, OutcomesDiffer DEF Honest, Either, Every

LEMMA ThenHonest ==
  ASSUME NEW r, NEW q, Honest(r), Honest(q)
  PROVE  Honest(Then(r, q))
BY DEF Then

LEMMA OutcomesHonest ==
  /\ Honest(Pass) /\ Honest(Fail) /\ Honest(Barred) /\ Honest(NotEvaluable) /\ Honest(Unknown({}))
  /\ \A met, otherwise : Honest(otherwise) => Honest(Decided(met, otherwise))
BY OutcomesDiffer DEF Honest, Decided

LEMMA OneHonest ==
  ASSUME NEW f \in FieldsOf(kind), Unsettled(f)
  PROVE  Honest(Unknown({f}))
BY OutcomesDiffer DEF Honest

LEMMA GeographyHonest ==
  ASSUME kind \in {"student", "organization"}, NEW t, t.type \in GeoTypes
  PROVE  Honest(Geography(t))
<1>1. {"state", "lat", "lon", "callsign"} \subseteq FieldsOf(kind)
  BY DEF FieldsOf, StudentFields, OrgFields
<1>2. kind = "student" => {"county", "callDistrict"} \subseteq FieldsOf(kind)
  BY DEF FieldsOf, StudentFields
<1>3. Honest(County(t))
  BY <1>1, <1>2, OutcomesDiffer DEF County, Honest, Unsettled, Resolvable
<1>4. Honest(Radius(t))
  BY <1>1, OutcomesDiffer DEF Radius, Decided, Honest, Unsettled
<1>5. District = Blank => Honest(Unknown({"callDistrict"}))
  BY <1>2, OutcomesDiffer DEF District, Honest, Unsettled, Resolvable
<1>6. Honest(Ask("state", profile.state \in t.values))
  BY <1>1, AskHonest
<1> QED
  BY <1>3, <1>4, <1>5, <1>6, OutcomesHonest DEF Geography, GeoTypes

LEMMA TierHonest ==
  ASSUME kind \in {"student", "organization"}, NEW t, TierOK(t), NEW opened
  PROVE  Honest(EvaluateTier(t, opened))
<1>1. CASE t.axis = "geography"
  BY <1>1, GeographyHonest DEF EvaluateTier, TierOK
<1>2. CASE t.axis = "arrl_membership"
  <2>1. kind = "student" => "arrlMonths" \in FieldsOf(kind)
    BY DEF FieldsOf, StudentFields
  <2>2. kind # "student" => "arrlAffiliated" \in FieldsOf(kind)
    BY DEF FieldsOf, OrgFields
  <2> QED
    BY <1>2, <2>1, <2>2, AskHonest, OutcomesHonest DEF EvaluateTier, Membership
<1>3. CASE t.axis \in {"recommendation", "other"}
  BY <1>3, OutcomesHonest DEF EvaluateTier
<1>4. CASE t.axis \notin {"geography", "arrl_membership", "recommendation", "other"} /\ kind # "student"
  BY <1>4, OutcomesHonest DEF EvaluateTier
<1>5. ASSUME kind = "student"
      PROVE  \A f \in StudentFields : f \in FieldsOf(kind)
  BY <1>5 DEF FieldsOf
<1>6. CASE t.axis = "license" /\ kind = "student"
  <2>1. "licenseClass" \in FieldsOf(kind) /\ "licensedMonths" \in FieldsOf(kind)
    BY <1>5, <1>6 DEF StudentFields
  <2> QED
    BY <1>6, <2>1, AskHonest, ThenHonest, OutcomesHonest DEF EvaluateTier, License
<1>7. CASE t.axis = "field_of_study" /\ kind = "student"
  <2>1. "fieldOfStudy" \in FieldsOf(kind)
    BY <1>5, <1>7 DEF StudentFields
  <2>2. Unsettled("fieldOfStudy") <=> profile.fieldOfStudy = Blank \/ Words(profile.fieldOfStudy) = {}
    BY DEF Unsettled
  <2>3. Honest(FieldOfStudy(t, opened))
    BY <2>1, <2>2, OneHonest, OutcomesHonest DEF FieldOfStudy
  <2> QED
    BY <1>7, <2>3 DEF EvaluateTier
<1>8. CASE t.axis = "institution" /\ kind = "student"
  <2>1. {"degreeLevel", "accredited", "partTime"} \subseteq FieldsOf(kind)
    BY <1>5, <1>8 DEF StudentFields
  <2>2. /\ profile.degreeLevel = Blank => Honest(Unknown({"degreeLevel"}))
        /\ profile.accredited = Blank => Honest(Unknown({"accredited"}))
        /\ profile.partTime = Blank => Honest(Unknown({"partTime"}))
    BY <2>1, OutcomesDiffer DEF Honest, Unsettled
  <2>3. Honest(Institution(t))
    BY <2>2, ThenHonest, OutcomesHonest DEF Institution
  <2> QED
    BY <1>8, <2>3 DEF EvaluateTier
<1>9. CASE t.axis = "gpa" /\ kind = "student"
  <2>1. {"gpa", "classRankTopPct"} \subseteq FieldsOf(kind)
    BY <1>5, <1>9 DEF StudentFields
  <2>2. /\ Honest(Ask("gpa", profile.gpa >= t.min))
        /\ Honest(Ask("classRankTopPct", profile.classRankTopPct <= t.classRank))
    BY <2>1, AskHonest
  <2>3. Honest(Gpa(t))
    BY <2>2, BothHonest DEF Gpa, When
  <2> QED
    BY <1>9, <2>3 DEF EvaluateTier
<1>10. CASE t.axis = "citizenship" /\ kind = "student"
  <2>1. "citizenship" \in FieldsOf(kind)
    BY <1>5, <1>10 DEF StudentFields
  <2> QED
    BY <1>10, <2>1, AskHonest, OutcomesHonest DEF EvaluateTier, Citizenship
<1>11. CASE t.axis = "age_stage" /\ kind = "student"
  <2>1. {"stage", "age"} \subseteq FieldsOf(kind)
    BY <1>5, <1>11 DEF StudentFields
  <2>2. /\ Honest(Ask("stage", StagesSatisfied \cap t.stages # {}))
        /\ Honest(Ask("age", profile.age >= t.ageMin))
        /\ Honest(Ask("age", profile.age <= t.ageMax))
    BY <2>1, AskHonest
  <2>3. Honest(AgeStage(t))
    BY <2>2, BothHonest DEF AgeStage, When
  <2> QED
    BY <1>11, <2>3 DEF EvaluateTier
<1>12. CASE t.axis = "ham_activity" /\ kind = "student"
  <2>1. {"activityKinds", "cwWpm"} \subseteq FieldsOf(kind)
    BY <1>5, <1>12 DEF StudentFields
  <2>2. /\ Honest(Ask("activityKinds", profile.activityKinds \cap t.kinds # {}))
        /\ Honest(Ask("cwWpm", profile.cwWpm >= t.cwWpm))
    BY <2>1, AskHonest
  <2>3. Honest(HamActivity(t, opened))
    BY <2>2, BothHonest, OutcomesHonest DEF HamActivity, When
  <2> QED
    BY <1>12, <2>3 DEF EvaluateTier
<1>13. CASE t.axis = "financial_need" /\ kind = "student"
  BY <1>13, OutcomesHonest DEF EvaluateTier, FinancialNeed
<1>14. CASE t.axis = "gender" /\ kind = "student"
  <2>1. "gender" \in FieldsOf(kind)
    BY <1>5, <1>14 DEF StudentFields
  <2>2. profile.gender \in {Blank, "other", "prefer_not_to_say"} => Honest(Unknown({"gender"}))
    BY <2>1, OneHonest DEF Unsettled
  <2> QED
    BY <1>14, <2>2, OutcomesHonest DEF EvaluateTier, Gender
<1> QED
  BY <1>1, <1>2, <1>3, <1>4, <1>6, <1>7, <1>8, <1>9, <1>10, <1>11, <1>12, <1>13, <1>14
  DEF TierOK, Axes

\* No verdict sends a member to a field the profile lacks or has settled.
THEOREM QuestionsStayOpen == MatchSpec => []QuestionsAreOpen
<1>1. ASSUME MatchTypeOK, NEW f \in Verdict.missing
      PROVE  f \in FieldsOf(kind) /\ Unsettled(f)
  <2>1. kind \in {"student", "organization"} /\ program \in Catalogue
    BY <1>1 DEF MatchTypeOK
  <2>2. PICK c \in program.constraints :
          /\ EvaluateConstraint(c).status = "unknown"
          /\ f \in EvaluateConstraint(c).missing /\ Resolvable(f)
    BY <1>1 DEF Verdict
  <2>3. \A t \in Routes(c) : Honest(EvaluateTier(t, c.opened))
    BY <2>1, <2>2, CatalogueAssumption, TierHonest DEF Routes, TierOK
  <2> DEFINE E == {EvaluateTier(t, c.opened) : t \in Routes(c)}
  <2>4. Honest(EvaluateTier(c.tier, c.opened)) /\ Honest(Either(E))
    BY <2>3, BothHonest DEF Routes
  <2>5. EvaluateConstraint(c) = Weigh(EvaluateTier(c.tier, c.opened), E, c.orUnrepresented)
    BY ConstraintWeighs
  <2> HIDE DEF E
  <2>6. Honest(EvaluateConstraint(c))
    BY <2>4, <2>5, OutcomesHonest DEF Weigh
  <2> QED
    BY <2>2, <2>6 DEF Honest
<1>2. MatchTypeOK => QuestionsAreOpen
  BY <1>1 DEF QuestionsAreOpen
<1> QED
  BY <1>2, MatchTypeCorrect, PTL
===========================================================================
