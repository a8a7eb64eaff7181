SPECIFICATION FairSpec
CONSTANTS
    p1 = p1
    p2 = p2
    hourly = hourly
    daily = daily
    Pipelines = {p1, p2}
    Requests = {r1, r2}
    Crons = {hourly, daily}
    Patches <- MCPatches
    Unset = Unset
    Creation = Creation
    NoOne = NoOne
INVARIANTS
    TypeOK
    LastPatchIsAttached
    LonePatchReplaces
PROPERTIES
    NoLostUpdate
    RequestsEnd
CHECK_DEADLOCK FALSE
