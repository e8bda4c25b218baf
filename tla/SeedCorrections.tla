---------------------------- MODULE SeedCorrections ----------------------------
(***************************************************************************)
(* How the corpus an image ships meets the records a deployment holds:     *)
(* the first import (packages/server/src/seed/import.ts), the corrections  *)
(* a boot makes on its own (corrections.ts), the ones an administrator     *)
(* consents to (consentedCorrections.ts, api/seedCorrectionsRouter.ts) and *)
(* the screen that lists them (components/PendingImageChanges.tsx of the   *)
(* web client).  shippedValues.ts is the ledger of what was ever shipped.  *)
(*                                                                         *)
(* A boot and a request are synchronous, so each is one step; the list an  *)
(* administrator reads is from one moment and is acted on at another, with *)
(* new images, decisions of the review queue and removals in between.      *)
(*                                                                         *)
(* Of a record, figure stands for the sentences nothing reads (summary,    *)
(* amountRaw, quotes), note for the deadline's, which also carries the     *)
(* repeat rule, and rule and sentence for a constraint: what the matcher   *)
(* applies and what the page displays of it.                               *)
(***************************************************************************)
EXTENDS Integers, FiniteSets

CONSTANTS
  Programs,
  Images,     (* how many images there are, in the order they were built    *)
  Shipped,    (* [1..Images -> [Programs -> the record it ships, or Absent]]*)
  Keyed,      (* the programmes the corpus binds to a crawler's identity    *)
  Says,       (* [notes and sentences -> what the product reads out of them]*)
  Candidates, (* [Programs -> what the review queue may publish]            *)
  Absent,     (* no record                                                  *)
  None,       (* a record without this field                                *)
  MaxWrites   (* bound: decisions of the review queue                       *)

VARIABLES
  image,    (* the image the process runs                                   *)
  stored,   (* [Programs -> the record held here, or Absent]                *)
  twins,    (* programmes a crawl has published under another id            *)
  list,     (* the proposals on an administrator's screen                   *)
  audited,  (* <<program, path, text>> the last act wrote to the audit log  *)
  settled,  (* nothing was written since a boot that made its corrections   *)
  writes

vars == <<image, stored, twins, list, audited, settled, writes>>

Correctable == {"figure", "note", "sentence"}
Paths == Correctable \cup {"rule"}

Held == {p \in Programs : stored[p] # Absent}

(* A record is what some image ships or the queue may publish, or a mixture*)
(* of their fields.                                                        *)
Known ==
  (UNION {{Shipped[v][p] : v \in 1..Images} \cup Candidates[p] : p \in Programs}) \ {Absent}
Texts == UNION {{record[path] : path \in Paths} : record \in Known}
Records == [Paths -> Texts]

ASSUME SeedAssumption ==
  /\ IsFiniteSet(Programs) /\ Programs # {} /\ Keyed \subseteq Programs
  /\ Images \in Nat \ {0} /\ MaxWrites \in Nat
  /\ Shipped \in [1..Images -> [Programs -> Records \cup {Absent}]]
  /\ Candidates \in [Programs -> SUBSET Records]
  /\ Absent \notin Records
  /\ \A record \in Known : record.rule = None <=> record.sentence = None

-----------------------------------------------------------------------------
(* shippedValues.ts and planForProgram.                                    *)

(* Mutant: a field the ledger has heard of is ours, whatever it says.      *)
HeardOf(v, p, path, text) ==
  \E w \in 1..v : Shipped[w][p] # Absent

(* The ledger of image v is a union: whatever an image until v carried.    *)
Witnessed(v, p, path, text) ==
  \E w \in 1..v : Shipped[w][p] # Absent /\ Shipped[w][p][path] = text

(* Mutant: what the matcher reads out of a displayed sentence is missed.   *)
MeaningWithoutReadings(record) == <<record.rule, Says[record.note]>>

(* meaningOf: all that anything reasons over, the prose blanked out.       *)
Meaning(record) ==
  <<record.rule, Says[record.note],
    IF record.sentence = None THEN None ELSE Says[record.sentence]>>

(* What may be corrected: fields both sides carry, that differ, and whose  *)
(* text here is one the project shipped.                                   *)
Plan(v, p) ==
  {path \in Correctable :
     /\ stored[p][path] # Shipped[v][p][path]
     /\ None \notin {stored[p][path], Shipped[v][p][path]}
     /\ Witnessed(v, p, path, stored[p][path])}

WithCorrection(record, v, p, path) == [record EXCEPT ![path] = Shipped[v][p][path]]

RulesDiffer(v, p) ==
  /\ stored[p].rule # Shipped[v][p].rule
  /\ Witnessed(v, p, "rule", stored[p].rule)

InBoth(v) == {p \in Held : Shipped[v][p] # Absent}

-----------------------------------------------------------------------------
(* applySeedCorrections.                                                   *)

(* Mutant: a record is corrected as a whole or not at all.                 *)
CorrectedWhole(v, p) ==
  LET all == [path \in Paths |->
               IF path \in Plan(v, p) THEN Shipped[v][p][path] ELSE stored[p][path]]
  IN IF Meaning(all) = Meaning(stored[p]) THEN all ELSE stored[p]

(* One correction after another, each kept if the record still means what  *)
(* it meant.                                                               *)
WithIfSame(record, v, p, path) ==
  LET next == WithCorrection(record, v, p, path) IN
  IF path \in Plan(v, p) /\ Meaning(next) = Meaning(stored[p]) THEN next ELSE record

Corrected(v, p) ==
  LET figured == WithIfSame(stored[p], v, p, "figure")
      noted   == WithIfSame(figured, v, p, "note")
  IN  WithIfSame(noted, v, p, "sentence")

ImportSeed(v) == stored' = Shipped[v] /\ audited' = {}

(* Of every field it overwrites the audit log keeps what was there.        *)
ApplySeedCorrections(v) ==
  /\ stored' = [p \in Programs |-> IF p \in InBoth(v) THEN Corrected(v, p) ELSE stored[p]]
  /\ audited' = UNION {{<<p, path, stored[p][path]>> :
                          path \in {q \in Correctable : stored[p][q] # stored'[p][q]}} :
                         p \in InBoth(v)}

(* A process starts with image v: into an empty database the corpus is     *)
(* imported, into any other the corrections are made.                      *)
Boot(v) ==
  /\ image' = v
  /\ IF Held = {} /\ twins = {} THEN ImportSeed(v) ELSE ApplySeedCorrections(v)
  /\ settled' = TRUE
  /\ UNCHANGED <<twins, list, writes>>

(* The ledger or the corpus cannot be read: nothing is written, and the    *)
(* server starts all the same.                                             *)
BootUncorrected(v) ==
  /\ Held # {} \/ twins # {}
  /\ image' = v
  /\ audited' = {}
  /\ settled' = FALSE
  /\ UNCHANGED <<stored, twins, list, writes>>

-----------------------------------------------------------------------------
(* pendingChanges and applyConsented.                                      *)
Proposal(kind, p, path, from, to) ==
  [kind |-> kind, program |-> p, path |-> path, from |-> from, to |-> to]

(* withShippedRules: the sentences do not move, but for those of a rule    *)
(* that is added or dropped.                                               *)
WithShippedRules(record, shipped) ==
  [record EXCEPT !.rule = shipped.rule,
                 !.sentence = IF None \in {record.sentence, shipped.sentence}
                                THEN shipped.sentence ELSE record.sentence]

(* Only what the boot will not do: it changes what a record means.         *)
Reworded(p) ==
  {path \in Plan(image, p) :
     Meaning(WithCorrection(stored[p], image, p, path)) # Meaning(stored[p])}

Wording ==
  UNION {{Proposal("wording", p, path, stored[p][path], Shipped[image][p][path]) :
            path \in Reworded(p)} : p \in InBoth(image)}

Rules ==
  {Proposal("rules", p, "rule", stored[p].rule, Shipped[image][p].rule) :
     p \in {q \in InBoth(image) : RulesDiffer(image, q)}}

(* A record the crawl has brought here under another id is not offered.    *)
Additions ==
  {Proposal("record", p, "record", Absent, Shipped[image][p]) :
     p \in {q \in Programs \ (Held \cup twins) : Shipped[image][q] # Absent}}

Pending == Wording \cup Rules \cup Additions

(* Mutant: a proposal is named by the field it is about.                   *)
IdOfField(proposal) == <<proposal.kind, proposal.program, proposal.path>>

(* proposalId: a digest of the bytes it moves.                             *)
Id(proposal) ==
  <<proposal.kind, proposal.program, proposal.path, proposal.from, proposal.to>>

KindsOf(act) == IF act = "correct" THEN {"wording", "rules"} ELSE {"record"}

Read ==
  /\ list # Pending
  /\ list' = Pending
  /\ UNCHANGED <<image, stored, twins, audited, settled, writes>>

(* What the chosen proposals make of a record: the wordings, then the      *)
(* rules, as the screen sends them.                                        *)
Mine(p, chosen) == {q \in chosen : q.program = p}

Worded(p, chosen) ==
  [path \in Paths |->
     LET moves == {q \in Mine(p, chosen) : q.kind = "wording" /\ q.path = path} IN
     IF moves = {} THEN stored[p][path] ELSE (CHOOSE q \in moves : TRUE).to]

Consented(p, chosen) ==
  IF \E q \in Mine(p, chosen) : q.kind = "record" THEN Shipped[image][p]
  ELSE IF \E q \in Mine(p, chosen) : q.kind = "rules"
    THEN WithShippedRules(Worded(p, chosen), Shipped[image][p])
  ELSE IF Mine(p, chosen) # {} THEN Worded(p, chosen)
  ELSE stored[p]

(* The whole of what is replaced: of a change of rules, the constraints as *)
(* they stood, sentences included.                                         *)
Rows(p, chosen) ==
  {<<q.program, q.path, q.from>> : q \in {r \in chosen : r.program = p /\ r.kind # "record"}}
    \cup {<<p, "sentence", stored[p].sentence>> :
            q \in {r \in chosen : r.program = p /\ r.kind = "rules"}}

(* POST /apply and /add with ids from the screen: the plan is computed     *)
(* again, and an id that no longer names a proposal is refused.            *)
Consent(act, ids) ==
  LET chosen == {q \in Pending : Id(q) \in ids /\ q.kind \in KindsOf(act)} IN
  /\ chosen # {}
  /\ stored' = [p \in Programs |-> Consented(p, chosen)]
  /\ audited' = UNION {Rows(p, chosen) : p \in Programs}
  /\ settled' = FALSE
  /\ UNCHANGED <<image, twins, list, writes>>

-----------------------------------------------------------------------------
(* The review queue: an approval or an edit publishes a record, a crawl's  *)
(* find may be published under an id of its own, a removal is approved.    *)
Publish(p, record) ==
  /\ writes < MaxWrites
  /\ stored[p] \notin {Absent, record}
  /\ stored' = [stored EXCEPT ![p] = record]
  /\ writes' = writes + 1
  /\ audited' = {} /\ settled' = FALSE
  /\ UNCHANGED <<image, twins, list>>

PublishTwin(p) ==
  /\ writes < MaxWrites
  /\ p \in Keyed \ (Held \cup twins)
  /\ twins' = twins \cup {p}
  /\ writes' = writes + 1
  /\ audited' = {} /\ settled' = FALSE
  /\ UNCHANGED <<image, stored, list>>

Withdraw(p) ==
  /\ writes < MaxWrites
  /\ p \in Held
  /\ stored' = [stored EXCEPT ![p] = Absent]
  /\ writes' = writes + 1
  /\ audited' = {} /\ settled' = FALSE
  /\ UNCHANGED <<image, twins, list>>

Init ==
  /\ image \in 1..Images
  /\ stored = Shipped[image]
  /\ twins = {} /\ list = {} /\ audited = {}
  /\ settled = TRUE
  /\ writes = 0

Next ==
  \/ \E v \in 1..Images : Boot(v) \/ BootUncorrected(v)
  \/ Read
  \/ \E act \in {"correct", "add"} : \E ids \in SUBSET {Id(q) : q \in list} : Consent(act, ids)
  \/ \E p \in Programs :
       \/ \E record \in Candidates[p] : Publish(p, record)
       \/ PublishTwin(p)
       \/ Withdraw(p)

Spec == Init /\ [][Next]_vars

-----------------------------------------------------------------------------
(* Every variable keeps its type.                                          *)
TypeOK ==
  /\ image \in 1..Images
  /\ stored \in [Programs -> Records \cup {Absent}]
  /\ twins \subseteq Programs
  /\ settled \in BOOLEAN
  /\ writes \in 0..MaxWrites

(* What a record tells a member: when it closes, and whom its rule refuses,*)
(* which depends on whether its sentence calls the list an illustration.   *)
Told(record) ==
  [closes |-> Says[record.note], rule |-> record.rule,
   open |-> record.rule # None /\ Says[record.sentence] = "open"]

Boots == image' # image \/ (settled' /\ ~settled)

(* A boot never changes what members are told, whatever was edited and     *)
(* whichever image it brings: no record appears or goes (except into an    *)
(* empty database), and none that stays closes at another time or refuses  *)
(* somebody else.                                                          *)
BootsChangeNoAnswer ==
  [][Boots /\ (Held # {} \/ twins # {}) =>
       \A p \in Programs :
         /\ (stored'[p] = Absent) <=> (stored[p] = Absent)
         /\ p \in Held => Told(stored'[p]) = Told(stored[p])]_vars

(* Text no image ever shipped is somebody's work here.                     *)
Foreign(p, path, text) ==
  text # None /\ \A w \in 1..Images : Shipped[w][p] # Absent => Shipped[w][p][path] # text

(* Neither door overwrites what somebody here wrote, however images come   *)
(* and go and however old the list consented from; a sentence goes only    *)
(* with a rule the corpus dropped, and then the audit log has it.          *)
WorkHereStands ==
  [][writes' = writes =>
       \A p \in Held : \A path \in Paths :
         Foreign(p, path, stored[p][path]) =>
           \/ stored'[p][path] = stored[p][path]
           \/ /\ path = "sentence" /\ stored'[p].rule = None
              /\ <<p, path, stored[p][path]>> \in audited']_vars

(* No correction is left without a way in: after a boot, whatever the image*)
(* has otherwise and the ledger proves ours is on the administrator's list,*)
(* and so is every record that is missing and was not brought by a crawl.  *)
NothingIsStranded ==
  settled =>
    /\ \A p \in InBoth(image) : \A path \in Paths :
         LET here == stored[p][path]  there == Shipped[image][p][path] IN
         here # there /\ (path # "rule" => None \notin {here, there})
             /\ Witnessed(image, p, path, here)
           => \E q \in Pending : <<q.program, q.path, q.from, q.to>> = <<p, path, here, there>>
    /\ \A p \in Programs \ (Held \cup twins) :
         Shipped[image][p] # Absent => \E q \in Pending : q.program = p

(* What a consent changes is what was read: every field it moves had on    *)
(* the administrator's screen the text it replaces and the text it puts    *)
(* there, although the change is computed anew when it is sent.  But for   *)
(* the sentence that comes or goes with a rule: the id of a change of rules*)
(* is a digest of the rules alone.                                         *)
ShownAdded(p) == \E q \in list : q.program = p /\ q.kind = "record" /\ q.to = stored'[p]

ShownMoved(p, path) ==
  \E q \in list :
    /\ q.program = p
    /\ \/ q.path = path /\ path \in Paths /\ q.from = stored[p][path] /\ q.to = stored'[p][path]
       \/ /\ path = "sentence" /\ None \in {stored[p].rule, stored'[p].rule}
          /\ q.kind = "rules" /\ q.from = stored[p].rule /\ q.to = stored'[p].rule

Consents == writes' = writes /\ image' = image /\ ~settled' /\ stored' # stored

ConsentMovesWhatWasRead ==
  [][Consents => \A p \in Programs :
       IF stored[p] = Absent
         THEN stored'[p] # Absent => ShownAdded(p)
         ELSE /\ stored'[p] # Absent
              /\ \A path \in Paths :
                   stored'[p][path] # stored[p][path] => ShownMoved(p, path)]_vars
=============================================================================
