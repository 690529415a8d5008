CONSTANTS
    Sizes <- MC_Sizes
    ReadLens <- MC_ReadLens
    ReadLocs <- MC_ReadLocs
    OpenFlagSets <- MC_OpenFlagSets
    Protocols <- MC_AllProtocols
    HeadModes <- MC_AllHeadModes
    GlobalEpochs <- MC_GlobalEpochs
    MaxGlobalEpoch <- MC_MaxGlobalEpoch
    None = None
SPECIFICATION Spec
INVARIANT AtMostOneFullDownload
