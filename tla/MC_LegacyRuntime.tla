-------------------------- MODULE MC_LegacyRuntime --------------------------
(* Two file ids, so an id can be reused while another is open; resources *)
(* of 0..2 bytes, so reads can be empty, inside, cut at the end, at the   *)
(* end and past it.                                                       *)
EXTENDS LegacyRuntime

MC_Ids == {1, 2}
MC_MaxSize == 2
==============================================================================
