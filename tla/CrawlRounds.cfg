SPECIFICATION FairRounds
CONSTANTS
    catalog = catalog
    grantA = grantA
    grantB = grantB
    own = own
    december = december
    january = january
    arrl = arrl
    ares = ares
    typo = typo
    nobody = nobody
    Programs = {catalog, grantA, grantB}
    Rules = {december, january}
    Candidates <- Looping
    Removable = {catalog}
    Own = own
    Sources = {arrl, ares}
    Requests <- AllOrTypo
    CrawlEnabled = TRUE
    NoSource = nobody
    MaxRestarts = 1
INVARIANTS
    DirectRidersMatch
PROPERTIES
    PausedIsLeftAlone
    CyclesHeal
    EnabledIsAsked
    CrawlNowReopens
