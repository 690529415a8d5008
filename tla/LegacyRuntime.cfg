CONSTANTS
    Ids <- MC_Ids
    MaxSize <- MC_MaxSize
    None = None
SPECIFICATION Spec
INVARIANT TypeOK
INVARIANT ReadReturnsWindow
INVARIANT OpenedFileIsReadable
PROPERTY FileTableSpec
