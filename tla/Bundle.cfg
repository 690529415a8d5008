CONSTANTS
    ArgLists <- MC_ArgLists
    Tokens <- MC_Tokens
    MaxArgs <- MC_MaxArgs
    MaxRuns <- MC_MaxRuns
SPECIFICATION Spec
INVARIANT ParseMatchesReference
INVARIANT NoNodeModulesPaths
INVARIANT NoStaleOutputs
CHECK_DEADLOCK FALSE
