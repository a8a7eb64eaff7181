SPECIFICATION Spec
CONSTANTS
    None = None
    Requests = {r1, r2}
    Workloads <- MCWorkloads
    Names = {"m", "n"}
    Texts = {"v1"}
    Positions = {2}
    FilterLists <- MCFilterLists
    Layouts <- MCLayouts
    RoleSets <- MCRoleSets
    UserEmails = {"a", "b"}
    MaxRuns = 2
INVARIANTS
    TypeOK
    BoardsStayWhole
    ClaimsAreKept
    NoAdminFromWithin
PROPERTIES
    BoardChangesAreWhole
    FilesAreRepaired
SYMMETRY Symmetry
CHECK_DEADLOCK FALSE
