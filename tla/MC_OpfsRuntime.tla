--------------------------- MODULE MC_OpfsRuntime ---------------------------
(* Model-checking instance of OpfsRuntime: two engine file ids open the    *)
(* same OPFS name, whose file holds at most 2 bytes.                       *)
EXTENDS OpfsRuntime, TLC

CONSTANTS f1, f2

MC_FileIds == {f1, f2}
MC_MaxSize == 2
\* One file id: a close and a reopen of the name by the same id.
MC_OneFileId == {f1}
\* The file ids are interchangeable: no handler compares them.
Perms == Permutations(MC_FileIds)
==============================================================================
