---------------------------- MODULE BrowserFiles ----------------------------
(***************************************************************************)
(* The browser runtime's process-wide file state (src/unnamed/part_001):  *)
(* the name registry `_files` (name -> registered handle) and the file    *)
(* info cache `_fileInfoCache` (file id -> record), as getFileInfo (lines *)
(* 39-72) validates the cache by epoch, openFile and closeFile invalidate *)
(* it, and moveFile (lines 684-699) rebinds a name and invalidates the    *)
(* cache entries of the old name.                                         *)
(*                                                                         *)
(* getFileInfo sends the epoch of the cached record (or 0 when nothing is *)
(* cached); the engine answers "unchanged" (n === 0) when that is the     *)
(* record's current epoch, else the record, which is cached.  The engine *)
(* side is not under src/ and follows spec.md (3, 6): each record has a   *)
(* cacheEpoch, bumped whenever its metadata changes; a new record starts  *)
(* at an epoch in FirstEpochs.  The engine registers a record under a     *)
(* free id and calls openFile, may change an open id's metadata, and      *)
(* calls closeFile before dropping an id.  A record is identified by its  *)
(* dataUrl; a handle by the name it was registered under.                 *)
(*                                                                         *)
(* The files are HTML5 File objects (dataProtocol BROWSER_FILEREADER):    *)
(* every handler looks the file's name up in the registry at the time it *)
(* runs; a File of handle h holds FileSize[h] bytes.                      *)
(***************************************************************************)
EXTENDS Naturals

CONSTANTS
    Names,          \* file names / data URLs
    Ids,            \* the engine's file ids
    FirstEpochs,    \* the epochs a new engine record may start at
    MaxEpoch,       \* bound on epoch bumps
    FileSize,       \* the size of the File registered under each name
    MaxSize,        \* bound on the lengths and offsets of reads
    None            \* a model value: null / undefined

ASSUME FirstEpochs \subseteq 0..MaxEpoch

Epochs == 0..MaxEpoch

(***************************************************************************)
(* rec: the engine's record for each id.  cache: _fileInfoCache.  files:  *)
(* the registry.  used: the <<id, dataUrl>> the last call on a file id    *)
(* acted on (None for null / undefined).  ret: the last moveFile's        *)
(* arguments and the handle `from` had.  res: what the last openFile or   *)
(* readFile handed the engine.                                            *)
(***************************************************************************)
VARIABLES rec, cache, files, used, ret, res

vars == <<rec, cache, files, used, ret, res>>

NoRes == [op |-> "none", ok |-> TRUE, val |-> 0, buffered |-> FALSE]

NoRet == [op |-> "none", from |-> None, to |-> None, handle |-> None]

\* Registrations (registerFileHandle, not under src/) put each name's own
\* handle under it; no file is open yet.
Init ==
    /\ rec = [i \in Ids |-> None]
    /\ cache = [i \in Ids |-> None]
    /\ files \in [Names -> {None} \cup Names]
    /\ \A n \in Names : files[n] \in {n, None}
    /\ used = None
    /\ ret = NoRet
    /\ res = NoRes

\* The epoch getFileInfo sends: `cached?.cacheEpoch || 0` (lines 42-47).
SentEpoch(c) == IF c = None THEN 0 ELSE c.epoch

(***************************************************************************)
(* getFileInfo(fileId) against cache c (lines 39-64): "unchanged" returns *)
(* `cached!` -- undefined when nothing is cached -- otherwise the engine's *)
(* record is returned and cached.                                          *)
(***************************************************************************)
FetchInfo(c, id) ==
    IF SentEpoch(c[id]) = rec[id].epoch THEN c[id] ELSE rec[id]

Refill(c, id) ==
    IF SentEpoch(c[id]) # rec[id].epoch THEN [c EXCEPT ![id] = rec[id]] ELSE c

\* The dataUrl of a fetched record, or None.
Contents(r) == IF r = None THEN None ELSE r.info

\* Variant of Invalidate whose key never matches an entry (a delete with a
\* key of another type than the one getFileInfo set).
InvalidateNothing(c, id) == c

\* `_fileInfoCache.delete(fileId)`: by openFile before getFileInfo (line
\* 142) and by _closeFile (line 465).
Invalidate(c, id) == [c EXCEPT ![id] = None]

(***************************************************************************)
(* What openFile hands the engine for an HTML5 file (lines 315-330): the  *)
(* registered File's size, or -- "Fall back to empty buffered file" -- a *)
(* buffered file of size 1 over a fresh malloc(1).                        *)
(***************************************************************************)
OpenedFile(id, name) ==
    IF files[name] # None
    THEN [NoRes EXCEPT !.op = "open", !.val = FileSize[files[name]]]
    ELSE [NoRes EXCEPT !.op = "open", !.val = 1, !.buffered = TRUE]

(***************************************************************************)
(* The engine registers a new record under a free id and calls openFile, *)
(* which drops the id's cache entry, fetches the record (lines 140-143)   *)
(* and opens the File registered under its name.                         *)
(***************************************************************************)
openFile(id, url, e) ==
    LET r == [info |-> url, epoch |-> e]
        c == Invalidate(cache, id)
        got == IF SentEpoch(c[id]) = e THEN c[id] ELSE r
    IN /\ rec[id] = None
       /\ rec' = [rec EXCEPT ![id] = r]
       /\ cache' = [c EXCEPT ![id] = got]
       /\ used' = <<id, Contents(got)>>
       /\ res' = OpenedFile(id, Contents(got))
       /\ UNCHANGED <<files, ret>>

\* The getFileInfo a handler on an open id starts with (e.g. line 523).
Lookup(id) ==
    /\ cache' = Refill(cache, id)
    /\ used' = <<id, Contents(FetchInfo(cache, id))>>

\* The bytes Blob.slice(location, location + bytes) holds of a File of
\* the given size.
SliceLength(size, location, bytes) ==
    LET lo == IF location < size THEN location ELSE size
        hi == IF location + bytes < size THEN location + bytes ELSE size
    IN hi - lo

(***************************************************************************)
(* readFile (lines 517-523, 573-582): an empty read returns 0 at once;    *)
(* otherwise the File registered under the record's name -- now -- is     *)
(* sliced and read, and a name without a File throws into failWith.      *)
(***************************************************************************)
readFile(id, bytes, location) ==
    LET h == files[Contents(FetchInfo(cache, id))] IN
    /\ rec[id] # None
    /\ IF bytes = 0
       THEN /\ res' = [NoRes EXCEPT !.op = "read"]
            /\ UNCHANGED <<cache, used>>
       ELSE /\ Lookup(id)
            /\ res' = IF h = None THEN [NoRes EXCEPT !.op = "read", !.ok = FALSE]
                      ELSE [NoRes EXCEPT !.op = "read",
                                         !.val = SliceLength(FileSize[h], location, bytes)]
    /\ UNCHANGED <<rec, files, ret>>

\* writeFile (lines 609-611, 633-635) and truncateFile (lines 488-501) of
\* an HTML5 file: getFileInfo, then failWith.
writeFile(id) ==
    /\ rec[id] # None
    /\ Lookup(id)
    /\ res' = [NoRes EXCEPT !.op = "write", !.ok = FALSE]
    /\ UNCHANGED <<rec, files, ret>>

(***************************************************************************)
(* closeFile(fileId) (lines 447-449, 465): getFileInfo; a null result    *)
(* returns at once, otherwise _closeFile deletes the id's cache entry.   *)
(* The engine drops the id.                                               *)
(***************************************************************************)
closeFile(id) ==
    LET file == FetchInfo(cache, id) IN
    /\ rec[id] # None
    /\ rec' = [rec EXCEPT ![id] = None]
    /\ cache' = IF file = None THEN Refill(cache, id) ELSE Invalidate(cache, id)
    /\ used' = <<id, Contents(file)>>
    /\ UNCHANGED <<files, ret, res>>

\* The engine changes an open id's metadata and bumps its epoch.
updateFile(id, url) ==
    /\ rec[id] # None
    /\ rec[id].epoch < MaxEpoch
    /\ rec' = [rec EXCEPT ![id] = [info |-> url, epoch |-> @.epoch + 1]]
    /\ UNCHANGED <<cache, files, used, ret, res>>

(***************************************************************************)
(* The registry after moveFile (lines 687-691): a registered handle is    *)
(* bound to `to`; `_files.delete(handle)` deletes the key `handle`, which *)
(* is no name, so `from` stays bound.                                     *)
(***************************************************************************)
Rebind(f, from, to) ==
    IF f[from] = None THEN f
    ELSE [f EXCEPT ![to] = f[from]]

(***************************************************************************)
(* moveFile(from, to) (lines 684-699): rebinds the registry, then deletes *)
(* the first cache entry whose dataUrl is `from` and stops (`break`).     *)
(* Which matching entry comes first depends on the Map's insertion order, *)
(* which the model does not keep: any one of them may be deleted.         *)
(***************************************************************************)
moveFile(from, to) ==
    LET matching == {i \in Ids : Contents(cache[i]) = from} IN
    /\ files' = Rebind(files, from, to)
    /\ IF matching = {} THEN UNCHANGED cache
       ELSE \E i \in matching : cache' = Invalidate(cache, i)
    /\ ret' = [op |-> "move", from |-> from, to |-> to, handle |-> files[from]]
    /\ UNCHANGED <<rec, used, res>>

(***************************************************************************)
(* closeFileByName(name) (lines 456-463): getFileInfoByName asks the      *)
(* engine for the record of that name (never from the cache, line 77); if *)
(* there is one, _closeFile drops that id's cache entry.  The engine      *)
(* keeps the id.                                                          *)
(***************************************************************************)
closeFileByName(name) ==
    /\ \E id \in Ids :
          /\ Contents(rec[id]) = name
          /\ cache' = Invalidate(cache, id)
    /\ UNCHANGED <<rec, files, used, ret, res>>

Next ==
    \/ \E id \in Ids :
          \/ \E url \in Names, e \in FirstEpochs : openFile(id, url, e)
          \/ \E n, l \in 0..MaxSize : readFile(id, n, l)
          \/ writeFile(id)
          \/ closeFile(id)
          \/ \E url \in Names : updateFile(id, url)
    \/ \E from, to \in Names : moveFile(from, to)
    \/ \E name \in Names : closeFileByName(name)

Spec == Init /\ [][Next]_vars

-----------------------------------------------------------------------------
\* The engine's table of open ids and the dataUrls of their records.
Table == [i \in Ids |-> Contents(rec[i])]

(***************************************************************************)
(* The epoch-validated cache implements the File Descriptor Table: every *)
(* call on a file id acts on the record the engine has for that id at    *)
(* that moment -- after metadata changes, after moves that leave cache   *)
(* entries behind, and after an id is closed and reused for a record     *)
(* that starts again at the same epoch.                                   *)
(***************************************************************************)
FT == INSTANCE FileTable WITH table <- Table, seen <- used, Infos <- Names

FileTableSpec == FT!Spec

(***************************************************************************)
(* The spec (3, 6): moving a file creates a new mapping and rebinds the   *)
(* registry entry, so no two names are bound to one handle (two names on *)
(* one OPFS handle share its access session).                             *)
(***************************************************************************)
NamesShareNoHandle ==
    \A n, m \in Names : n # m /\ files[n] # None => files[n] # files[m]

(***************************************************************************)
(* The comment at line 324 ("Fall back to empty buffered file"): opening  *)
(* an HTML5 file whose name has no File registered -- never registered,   *)
(* or moved away -- hands the engine an empty file.                       *)
(***************************************************************************)
MissingFileOpensEmpty ==
    res.op = "open" /\ res.buffered => res.val = 0
==============================================================================
