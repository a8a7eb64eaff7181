SPECIFICATION Spec
CONSTANTS
    Calls = {c1,c2,c3,c4}
    Founder = Founder
    Nobody = Nobody
    Job = Job
    MaxFaults = 2
SYMMETRY Symmetry
CHECK_DEADLOCK FALSE
INVARIANTS TypeOK TenantIsWhole FreeSlugIsClean TramplingTakesTwo
PROPERTY UndoesOnlyItsOwn
