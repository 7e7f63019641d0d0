SPECIFICATION Spec
CONSTANTS
    NoConfig = NoConfig
    NoFilter = NoFilter
    VarNames <- MCVarNames
    KeyFamily <- MCKeyFamily
    Blobs <- MCBlobs
    FirstMachines <- MCFirstMachines
    Values <- MCValues
    MaxChanges = 1
    Requests <- MCRequests
    Entries = {"adlc", "script"}
INVARIANT TypeOK
INVARIANT RecordsAreTrue
INVARIANT SentOnlyAsOptedIn
INVARIANT OkMeansUsable
PROPERTY OkOpensGate
