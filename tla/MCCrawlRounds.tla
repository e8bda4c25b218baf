---------------------------- MODULE MCCrawlRounds ----------------------------
(* Small instances of CrawlRounds.                                         *)
EXTENDS CrawlRounds

CONSTANTS catalog, grantA, grantB, own, december, january, arrl, ares, typo, nobody

States(p) == {<<p, [from |-> own, dates |-> d]>> : d \in {{december}, {january}}}
Rides(p, q) == {<<p, [from |-> q, dates |-> {}]>>}

\* A grant that rides a grant that rides the catalogue.
Chain == States(catalog) \cup Rides(grantA, catalog) \cup Rides(grantB, grantA)

\* ... and may be edited into a loop.
Looping == Chain \cup Rides(grantA, grantB)

\* All the sources, or one of them and a name nobody knows.
AllOrTypo == {Sources, {arrl, typo}}
===========================================================================
