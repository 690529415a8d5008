------------------------------ MODULE FileTable ------------------------------
(***************************************************************************)
(* The File Descriptor Table the runtimes promise (spec.md 4.1): the      *)
(* engine's file ids each map to at most one file record, opened and      *)
(* closed by the engine, and every call on an id acts on the record the   *)
(* id maps to at that moment -- resolve(fileId).  An open may fail, in    *)
(* which case the id stays unmapped.  The engine may change an open id's  *)
(* metadata (spec.md 3: the cacheEpoch is bumped when it does).            *)
(*                                                                         *)
(* `seen` is the pair <<id, record>> the last call on a file id acted on. *)
(***************************************************************************)
CONSTANTS
    Ids,        \* the engine's file ids
    Infos,      \* file records
    None        \* no record

VARIABLES table, seen

Init ==
    /\ table = [i \in Ids |-> None]
    /\ seen = None

\* The engine opens a free id for a record; the runtime may refuse it.
Open(id, info) ==
    /\ table[id] = None
    /\ seen' = <<id, info>>
    /\ table' \in {table, [table EXCEPT ![id] = info]}

\* A call on an open id acts on the record the id maps to.
Resolve(id) ==
    /\ table[id] # None
    /\ seen' = <<id, table[id]>>
    /\ UNCHANGED table

\* Closing acts on the id's record and unmaps the id.
Close(id) ==
    /\ table[id] # None
    /\ seen' = <<id, table[id]>>
    /\ table' = [table EXCEPT ![id] = None]

\* The engine changes an open id's record; no call acts on it in this step.
Update(id, info) ==
    /\ table[id] # None
    /\ table' = [table EXCEPT ![id] = info]
    /\ UNCHANGED seen

Next ==
    \E id \in Ids :
        \/ \E info \in Infos : Open(id, info) \/ Update(id, info)
        \/ Resolve(id)
        \/ Close(id)

Spec == Init /\ [][Next]_<<table, seen>>
==============================================================================
