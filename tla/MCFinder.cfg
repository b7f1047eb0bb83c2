CONSTANTS
    None = None
    MaxSafe = 100
    Families = 2
    LongestContext = 8
    Lifetime = 1
    LastInstant = 1
    MaxSearches = 2
    MaxNow = 1
    Visits <- AllVisits
    Providers <- AllProviders
    Candidates = {"c1", "c2"}
    Edits = {"request", "hardware", "policy"}
    Stores <- AllStores
    Paths = {"p", "q", "r"}
    Preparations <- AllPreparations
    Planners <- AllPlanners
SPECIFICATION Spec
CHECK_DEADLOCK FALSE
INVARIANTS
    DerivedRecordsAreAdmitted
    AdmittedRecordsAreAssessed
    NothingFitsIsKnown
    RepresentativesAreUndominated
    BundlesBindOneEvaluation
    PreparedPlansTraceBack
