CONSTANTS
    a = a
    b = b
    Names <- MC_Names
    Ids <- MC_Ids
    MaxEpoch <- MC_MaxEpoch
    FirstEpochs <- MC_FirstEpochs
    FileSize <- MC_FileSize
    MaxSize <- MC_MaxSize
    None = None
SPECIFICATION Spec
INVARIANT MissingFileOpensEmpty
