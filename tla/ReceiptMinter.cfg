CONSTANTS
    t1 = t1
    t2 = t2
    p1 = p1
    p2 = p2
    boot = boot
    brief = brief
    acted = acted
    Threads <- MCThreads
    Principals <- MCPrincipals
    Events <- MCEvents
    Taxonomy <- MCTaxonomy
    Limit <- MCLimit
    Minute = 1
    Hour = 2
    MaxTime = 2
    MaxRequests = 4
SYMMETRY MCSymmetry
SPECIFICATION Spec
INVARIANTS
    TypeOK
    RateBound
    BatchAccounted
    ReceiptedOnce
    ReceiptsHonest
