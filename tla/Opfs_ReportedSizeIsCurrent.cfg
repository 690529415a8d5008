CONSTANTS
    f1 = f1
    f2 = f2
    FileIds <- MC_OneFileId
    MaxSize <- MC_MaxSize
    None = None
SPECIFICATION Spec
INVARIANT ReportedSizeIsCurrent
