--------------------------- MODULE MC_HttpRuntime ---------------------------
(* Model-checking instance of HttpRuntime: resources of 1 or 2 bytes, reads *)
(* of 0..2 bytes at offsets 0..2 (so reads at and past the end happen), and *)
(* every flag combination openFile distinguishes.                          *)
EXTENDS HttpRuntime

MC_Sizes == {1, 2}
MC_ReadLens == {0, 1, 2}
MC_ReadLocs == {0, 1, 2}
MC_OpenFlagSets == {{READ}, {WRITE}, {READ, WRITE}, {WRITE, APPEND},
                    {WRITE, CREATE}, {WRITE, CREATE_NEW}, {}}
MC_AllProtocols == {"HTTP", "S3"}
MC_AllHeadModes == {"range", "plain", "forbidden", "neterr"}
\* For the glob run: an s3:// resource whose HEAD is refused.
MC_S3 == {"S3"}
MC_Forbidden == {"forbidden"}
\* The global settings start at epoch 1 and may change once.
MC_GlobalEpochs == {1}
MC_MaxGlobalEpoch == 2
==============================================================================
