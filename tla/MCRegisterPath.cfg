CONSTANTS
    Lines = {l1, l2}
    Macs = {m1, m2}
    Hosts = {h1, h2}
    Fields = {load}
    MaxContacts = 2
    Budgets <- Scenarios
SPECIFICATION PathSpec
CHECK_DEADLOCK FALSE
INVARIANTS OrderInv StatusInv KnownAsRegistered FactsKept StatusOfLastLine SkipsOnlyBriefed
SYMMETRY Symmetry
