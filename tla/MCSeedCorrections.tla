-------------------------- MODULE MCSeedCorrections --------------------------
(* Three images: of p a rule is added, then changed with its sentence, and  *)
(* the deadline moves twice; q comes with the second image, and the third   *)
(* drops its rule.                                                          *)
EXTENDS SeedCorrections, TLC

CONSTANTS p, q, f1, f2, n1, n2, n3, s1, s2, s3, handmade, hard, soft

Record(figure, note, rule, sentence) ==
  [figure |-> figure, note |-> note, rule |-> rule, sentence |-> sentence]

MCShipped ==
  << (p :> Record(f1, n1, None, None)) @@ (q :> Absent),
     (p :> Record(f2, n3, hard, s1))   @@ (q :> Record(None, n1, hard, s1)),
     (p :> Record(f2, n2, soft, s2))   @@ (q :> Record(f2, n1, None, None)) >>

MCSays ==
  (n1 :> "may") @@ (n2 :> "may") @@ (n3 :> "june") @@
  (s1 :> "closed") @@ (s2 :> "open") @@ (s3 :> "closed") @@ (handmade :> "closed")

(* Edits of one field of a record some image carried, and of several.       *)
MCCandidates ==
  (p :> {Record(handmade, n1, None, None), Record(f1, n1, hard, s2), Record(f2, n3, hard, handmade)}) @@
  (q :> {Record(None, n1, hard, s3), Record(f2, handmade, soft, s1)})
=============================================================================
