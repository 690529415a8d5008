----------------------------- MODULE OpfsRuntime -----------------------------
(***************************************************************************)
(* The origin-private file system (OPFS, dataProtocol BROWSER_FSACCESS)   *)
(* part of the browser runtime: the asynchronous pre-open openFileAsync   *)
(* (src/.../runtime_browser_async_methods.ts) and the synchronous         *)
(* openFile, readFile, writeFile, truncateFile, closeFile and checkFile   *)
(* of BROWSER_RUNTIME (src/unnamed/part_001), for one registered name     *)
(* opened by several engine file ids.                                     *)
(*                                                                         *)
(* openFileAsync suspends at each await (getFileHandle, getFile,          *)
(* createSyncAccessHandle); other calls into the runtime -- from another  *)
(* file id of the same name -- may run while it is suspended.  Each await *)
(* is split into the step that issues it and the step that resumes.       *)
(***************************************************************************)
EXTENDS Naturals, FiniteSets

CONSTANTS
    FileIds,    \* engine file ids that refer to the registered name
    MaxSize,    \* bound on the OPFS file's length
    None        \* a model value: undefined

ASSUME MaxSize \in Nat

Sizes == 0..MaxSize

(***************************************************************************)
(* reg is the OPFSFileHandle in _files: fileHandle / dirHandle present,   *)
(* file (the File snapshot's size, or None), accessHandle (present or    *)
(* not) and emptyAsAbsent.  disk / onDisk: the OPFS file itself.  lock: the        *)
(* browser's exclusive lock of createSyncAccessHandle.  eng[f]: the file  *)
(* id's state -- st, the await openFileAsync is suspended at (pc), and    *)
(* the size the last open reported.                                       *)
(***************************************************************************)
VARIABLES reg, disk, onDisk, lock, eng, res

vars == <<reg, disk, onDisk, lock, eng, res>>

Regs == [fileHandle: BOOLEAN, dirHandle: BOOLEAN, file: Sizes \cup {None},
         accessHandle: {"none", "live"}, emptyAsAbsent: BOOLEAN]
Pcs == {"idle", "getFileHandle", "getFile", "createSyncAccessHandle"}
Engs == [st: {"closed", "open"}, pc: Pcs, size: Sizes]
NoRes == [op |-> "none", f |-> None, ok |-> TRUE, val |-> 0, file |-> None]

\* The registry entry as registerFileHandle leaves it (its code is not under
\* src/): a file handle or a directory, perhaps a File already fetched.
Init ==
    /\ onDisk \in BOOLEAN
    /\ disk \in (IF onDisk THEN Sizes ELSE {0})
    /\ reg \in {r \in Regs : /\ r.accessHandle = "none"
                             /\ r.fileHandle \/ r.dirHandle
                             /\ r.fileHandle => onDisk
                             /\ r.file \in (IF r.fileHandle THEN {None, disk} ELSE {None})}
    /\ lock = FALSE
    /\ eng = [f \in FileIds |-> [st |-> "closed", pc |-> "idle", size |-> 0]]
    /\ res = NoRes

\* Variant of NextAwait that never fetches the File snapshot.
NextAwaitNoGetFile(r) ==
    CASE ~r.fileHandle              -> "getFileHandle"
      [] r.accessHandle = "none"    -> "createSyncAccessHandle"
      [] OTHER                      -> "idle"

\* openFileAsync's next await, given the registry when it checks
\* (lines 20-27): each missing piece is acquired in this order.
NextAwait(r) ==
    CASE ~r.fileHandle              -> "getFileHandle"
      [] r.file = None              -> "getFile"
      [] r.accessHandle = "none"    -> "createSyncAccessHandle"
      [] OTHER                      -> "idle"

\* openFileAsync resumes (or starts) with registry r: it suspends at the
\* next await, or returns new OpenedFile(handle.file.size) (line 28).
Proceed(f, r) ==
    LET a == NextAwait(r) IN
    /\ eng' = [eng EXCEPT ![f] = IF a = "idle"
                                 THEN [st |-> "open", pc |-> "idle", size |-> r.file]
                                 ELSE [@ EXCEPT !.pc = a]]
    /\ res' = IF a = "idle" THEN [NoRes EXCEPT !.op = "open", !.f = f, !.val = r.file]
              ELSE res

\* A thrown error in openFileAsync: caught, failWith, return 1 (lines 35-37).
FailOpen(f) ==
    /\ eng' = [eng EXCEPT ![f].pc = "idle"]
    /\ res' = [NoRes EXCEPT !.op = "open", !.f = f, !.ok = FALSE]

(***************************************************************************)
(* openFileAsync(fileId) up to its first await (lines 10-22): the cache   *)
(* entry is dropped, the info read, and a registry entry without a file   *)
(* handle needs its directory.                                            *)
(***************************************************************************)
openFileAsync(f) ==
    /\ eng[f].st = "closed" /\ eng[f].pc = "idle"
    /\ IF ~reg.fileHandle /\ ~reg.dirHandle
       THEN FailOpen(f)
       ELSE Proceed(f, reg)
    /\ UNCHANGED <<reg, disk, onDisk, lock>>

\* `await dir.getFileHandle(fileName, {create: true})` resolves (lines 23-25).
ResumeGetFileHandle(f) ==
    /\ eng[f].pc = "getFileHandle"
    /\ reg' = [reg EXCEPT !.fileHandle = TRUE]
    /\ onDisk' = TRUE
    /\ Proceed(f, reg')
    /\ UNCHANGED <<disk, lock>>

\* `await handle.fileHandle.getFile()` resolves with a snapshot (line 27).
ResumeGetFile(f) ==
    /\ eng[f].pc = "getFile"
    /\ reg' = [reg EXCEPT !.file = disk]
    /\ Proceed(f, reg')
    /\ UNCHANGED <<disk, onDisk, lock>>

(***************************************************************************)
(* `await handle.fileHandle.createSyncAccessHandle()` settles (line 28):  *)
(* it rejects while another access handle holds the file's lock.          *)
(***************************************************************************)
ResumeCreateSyncAccessHandle(f) ==
    /\ eng[f].pc = "createSyncAccessHandle"
    /\ IF lock
       THEN /\ FailOpen(f)
            /\ UNCHANGED <<reg, lock>>
       ELSE /\ lock' = TRUE
            /\ reg' = [reg EXCEPT !.accessHandle = "live"]
            /\ Proceed(f, reg')
    /\ UNCHANGED <<disk, onDisk>>

(***************************************************************************)
(* The await of getFileHandle or getFile (lines 23, 27) rejects -- the    *)
(* name cannot be created in the directory, or the file was removed --    *)
(* and the catch at lines 35-37 fails the open; nothing was assigned.     *)
(***************************************************************************)
RejectAwait(f) ==
    /\ eng[f].pc \in {"getFileHandle", "getFile"}
    /\ FailOpen(f)
    /\ UNCHANGED <<reg, disk, onDisk, lock>>

(***************************************************************************)
(* openFile(fileId) for BROWSER_FSACCESS (part_001 lines 332-342): only   *)
(* succeeds if an earlier openFileAsync left a file handle, a File and an *)
(* access handle in the registry; reports the File's size.               *)
(***************************************************************************)
openFile(f) ==
    /\ eng[f].st = "closed" /\ eng[f].pc = "idle"
    /\ IF reg.fileHandle /\ reg.file # None /\ reg.accessHandle # "none"
       THEN /\ eng' = [eng EXCEPT ![f] = [st |-> "open", pc |-> "idle", size |-> reg.file]]
            /\ res' = [NoRes EXCEPT !.op = "open", !.f = f, !.val = reg.file]
       ELSE /\ res' = [NoRes EXCEPT !.op = "open", !.f = f, !.ok = FALSE]
            /\ UNCHANGED eng
    /\ UNCHANGED <<reg, disk, onDisk, lock>>

\* assertOPFSHandle(..., true): the registry's access handle can be used.
SessionUsable == reg.accessHandle = "live"

(***************************************************************************)
(* readFile (lines 518-521, 584-600): an empty read returns 0; otherwise  *)
(* accessHandle.read(data, {at: location}) returns the bytes available.   *)
(***************************************************************************)
readFile(f, bytes, location) ==
    /\ eng[f].st = "open"
    /\ res' = [NoRes EXCEPT !.op = "read", !.f = f,
                !.ok = bytes = 0 \/ SessionUsable,
                !.val = IF bytes = 0 \/ ~SessionUsable \/ location >= disk THEN 0
                        ELSE IF bytes < disk - location THEN bytes ELSE disk - location]
    /\ UNCHANGED <<reg, disk, onDisk, lock, eng>>

\* writeFile (lines 637-645): accessHandle.write(input, {at: location}).
writeFile(f, bytes, location) ==
    /\ eng[f].st = "open"
    /\ location + bytes <= MaxSize
    /\ IF SessionUsable
       THEN /\ disk' = IF location + bytes > disk THEN location + bytes ELSE disk
            /\ res' = [NoRes EXCEPT !.op = "write", !.f = f, !.val = bytes]
       ELSE /\ res' = [NoRes EXCEPT !.op = "write", !.f = f, !.ok = FALSE]
            /\ UNCHANGED disk
    /\ UNCHANGED <<reg, onDisk, lock, eng>>

\* truncateFile (lines 502-512): accessHandle.truncate(newSize).
truncateFile(f, newSize) ==
    /\ eng[f].st = "open"
    /\ IF SessionUsable
       THEN /\ disk' = newSize
            /\ res' = [NoRes EXCEPT !.op = "truncate", !.f = f, !.val = newSize]
       ELSE /\ res' = [NoRes EXCEPT !.op = "truncate", !.f = f, !.ok = FALSE]
            /\ UNCHANGED disk
    /\ UNCHANGED <<reg, onDisk, lock, eng>>

\* _closeFile's OPFS branch on the registry (lines 477-483): a present access
\* handle is flushed, closed and forgotten.
CloseAccessHandle(r) ==
    IF r.accessHandle = "live" THEN [r EXCEPT !.accessHandle = "none"] ELSE r

\* Variant of ReleasesLock for a close path that flushes but never calls close().
ReleasesLockNever(r) == FALSE

\* Whether _closeFile's accessHandle.close() releases the file's lock.
ReleasesLock(r) == r.accessHandle = "live"

(***************************************************************************)
(* closeFile(fileId) (lines 447-455, 464-485): the id's info is found,    *)
(* its cache entry dropped, and the name's access handle -- whichever id *)
(* opened it -- flushed, closed and cleared.                              *)
(***************************************************************************)
closeFile(f) ==
    /\ eng[f].st = "open"
    /\ reg' = CloseAccessHandle(reg)
    /\ lock' = (lock /\ ~ReleasesLock(reg))
    /\ eng' = [eng EXCEPT ![f].st = "closed"]
    /\ res' = [NoRes EXCEPT !.op = "close", !.f = f]
    /\ UNCHANGED <<disk, onDisk>>

(***************************************************************************)
(* checkFile(name) for a registered name (lines 413-420): false only for  *)
(* an emptyAsAbsent handle whose File reports size 0.                     *)
(***************************************************************************)
checkFile ==
    /\ res' = [NoRes EXCEPT !.op = "check", !.val = disk, !.file = reg.file,
                             !.ok = ~(reg.file = 0 /\ reg.emptyAsAbsent)]
    /\ UNCHANGED <<reg, disk, onDisk, lock, eng>>

Next ==
    \/ \E f \in FileIds :
          \/ openFileAsync(f)
          \/ ResumeGetFileHandle(f)
          \/ ResumeGetFile(f)
          \/ ResumeCreateSyncAccessHandle(f)
          \/ RejectAwait(f)
          \/ openFile(f)
          \/ closeFile(f)
          \/ \E n \in 0..MaxSize, l \in 0..MaxSize :
                \/ readFile(f, n, l)
                \/ writeFile(f, n, l)
          \/ \E n \in Sizes : truncateFile(f, n)
    \/ checkFile

Spec == Init /\ [][Next]_vars

-----------------------------------------------------------------------------
TypeOK ==
    /\ reg \in Regs
    /\ disk \in Sizes /\ onDisk \in BOOLEAN /\ lock \in BOOLEAN
    /\ eng \in [FileIds -> Engs]

(***************************************************************************)
(* The browser's exclusive lock on the OPFS file is held exactly when the *)
(* registry holds a live access handle: no close leaves the file locked   *)
(* with nobody able to release it, and no interleaving of openFileAsync   *)
(* calls leaves a live handle the registry does not know of.             *)
(***************************************************************************)
LockMatchesRegistry == (reg.accessHandle = "live") = lock

(***************************************************************************)
(* The spec (4.5, scenario in 8): opening a sandboxed file whose session  *)
(* is held by an earlier open fails with an exclusivity violation, so at  *)
(* most one engine file id has the name open at a time.                   *)
(***************************************************************************)
ExclusiveOpen ==
    \A f, g \in FileIds : f # g => ~(eng[f].st = "open" /\ eng[g].st = "open")

(***************************************************************************)
(* The size an open hands the engine (new OpenedFile(handle.file.size) in *)
(* openFileAsync, and openFile) is the OPFS file's length at that moment  *)
(* -- also when the file was written and closed since the registry's File *)
(* snapshot was obtained.                                                 *)
(***************************************************************************)
ReportedSizeIsCurrent == res.op = "open" /\ res.ok => res.val = disk
==============================================================================
