--------------------------- MODULE MC_BrowserFiles ---------------------------
(* Two names, so a file can be moved onto another name or onto itself,   *)
(* and a reused id or a metadata change can be told apart; two file ids, *)
(* so two cache entries can hold the same dataUrl and an id can be       *)
(* closed and reused while another is open; epochs up to 2, so a record  *)
(* can change twice.  The two Files differ in size (1 and 2 bytes), and  *)
(* reads of up to 2 bytes at offsets up to 2 reach both a short read and *)
(* a read past the end.                                                   *)
EXTENDS BrowserFiles, TLC

CONSTANTS a, b

MC_Names == {a, b}
MC_Ids == {1, 2}
MC_MaxEpoch == 2
MC_FirstEpochs == {1}
MC_FileSize == (a :> 1) @@ (b :> 2)
MC_MaxSize == 2
==============================================================================
