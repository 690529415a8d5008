---------------------------- MODULE LegacyRuntime ----------------------------
(***************************************************************************)
(* The legacy browser runtime, BROWSER_RUNTIME of                         *)
(* src/packages/duckdb-wasm/src/bindings/runtime_browser.ts: HTTP files   *)
(* that must support range requests, and NATIVE files (a Blob registered  *)
(* under the file's name), with a per-id file info cache that has no      *)
(* epochs.  The engine (not under src/) opens a free file id for a file   *)
(* record and calls openFile; it drops the id when openFile throws, and   *)
(* after closeFile.  Every handler is a synchronous call: one action.     *)
(*                                                                         *)
(* Byte i of a resource is the number i, so a body or a slice of it is   *)
(* the window [from |-> first position, n |-> length].                    *)
(***************************************************************************)
EXTENDS Naturals, FiniteSets

CONSTANTS
    Ids,        \* the engine's file ids
    MaxSize,    \* bound on a resource's length
    None        \* a model value: null / undefined

ASSUME MaxSize \in Nat

Sizes == 0..MaxSize

\* The two kinds of file record the legacy runtime serves: a URL over HTTP,
\* and a name whose Blob the page registers (DuckDBDataProtocol.NATIVE).
HttpFile == [proto |-> "HTTP", name |-> "url"]
NativeFile == [proto |-> "NATIVE", name |-> "file"]
Infos == {HttpFile, NativeFile}

(***************************************************************************)
(* How the URL's server answers: whether the resource exists, whether a  *)
(* GET honours Range, whether HEAD advertises ranges (answering a ranged *)
(* HEAD with 206, or sending `Accept-Ranges: bytes`) -- a proxy or a CDN  *)
(* in front of the origin may advertise ranges its GETs then ignore --    *)
(* whether CORS lets the page read Accept-Ranges, whether it answers      *)
(* HEAD at all, whether HEAD carries Content-Length, and the size.        *)
(***************************************************************************)
Servers ==
    {s \in [exists: BOOLEAN, ranges: BOOLEAN, advertises: BOOLEAN, headPartial: BOOLEAN,
            exposeAR: BOOLEAN, headAllowed: BOOLEAN, sendsLength: BOOLEAN, size: Sizes] :
        /\ s.headPartial => s.advertises
        /\ s.exposeAR => s.advertises
        /\ ~s.exists => (~s.ranges /\ ~s.advertises /\ s.headAllowed /\ s.sendsLength
                          /\ s.size = 0)}

\* A server whose HEAD answers say what its GETs do.
Honest(s) == s.advertises = s.ranges

Windows == [from: Sizes, n: Sizes]
NoWin == [from |-> 0, n |-> 0]
\* The current time, as getLastFileModificationTime returns it for HTTP files:
\* a timestamp distinct from every size.
Now == MaxSize + 1

(***************************************************************************)
(* srv: the URL's server.  handle: the size of the Blob registered under *)
(* NativeFile's name in _files, or None.  eng: the engine's open ids.     *)
(* cache: fileInfoCache.  used: the <<id, record>> the last call on a     *)
(* file id acted on.  res: the last call's outcome.  globbed: whether     *)
(* glob added the URL.                                                    *)
(***************************************************************************)
VARIABLES srv, handle, eng, cache, used, res, globbed

vars == <<srv, handle, eng, cache, used, res, globbed>>

NoRes == [op |-> "none", id |-> None, proto |-> None, ok |-> TRUE, val |-> 0,
          win |-> NoWin, bytes |-> 0, loc |-> 0]

Min2(a, b) == IF a < b THEN a ELSE b

(***************************************************************************)
(* getFileInfo (lines 19-35): a cached record is returned as is;          *)
(* otherwise the engine's record for the id is fetched and cached (an id *)
(* the engine does not know yields null, which is not cached).            *)
(***************************************************************************)
GetFileInfo(id) == IF cache[id] # None THEN cache[id] ELSE eng[id]

Cached(id) ==
    IF cache[id] = None /\ eng[id] # None THEN [cache EXCEPT ![id] = eng[id]] ELSE cache

\* HEAD with `Range: bytes=0-` (lines 47-51, 83-87): the status.
ProbeStatus(s) ==
    CASE ~s.exists                      -> 404
      [] ~s.headAllowed                 -> 405
      [] s.headPartial /\ s.size = 0    -> 416
      [] s.headPartial                  -> 206
      [] OTHER                          -> 200

\* Variant of SupportsRanges that trusts any 200 answer.
SupportsRangesAnyOk(s) == ProbeStatus(s) \in {200, 206}

\* supportsRanges (lines 53-60, 88-94): 206, or 200 with a readable
\* `Accept-Ranges: bytes` header.
SupportsRanges(s) ==
    \/ ProbeStatus(s) = 206
    \/ ProbeStatus(s) = 200 /\ s.exposeAR

(***************************************************************************)
(* The answers to a GET with `Range: bytes=a-b` (lines 130-134).  For an  *)
(* empty read b = a - 1: an invalid range, which a server may ignore      *)
(* (the whole body, 200) or reject (416).                                 *)
(***************************************************************************)
GetResponses(s, a, b) ==
    LET whole == [status |-> 200, body |-> [from |-> 0, n |-> s.size]]
        none(st) == [status |-> st, body |-> NoWin]
    IN CASE ~s.exists       -> {none(404)}
         [] b < a           -> {whole, none(416)}
         [] ~s.ranges       -> {whole}
         [] a >= s.size     -> {none(416)}
         [] OTHER           -> {[status |-> 206,
                                 body |-> [from |-> a, n |-> Min2(b, s.size - 1) - a + 1]]}

\* Variant of ReadAccepts that drops the `location == 0` condition.
ReadAcceptsAnyLocation(r, bytes, location) ==
    \/ r.status = 206
    \/ r.status = 200 /\ bytes = r.body.n

\* readFile's HTTP acceptance test (lines 135-138).
ReadAccepts(r, bytes, location) ==
    \/ r.status = 206
    \/ r.status = 200 /\ bytes = r.body.n /\ location = 0

\* Variant of Slice without the guard for a start past the Blob's end.
SliceNoEndCheck(sz, location, bytes) ==
    [from |-> location, n |-> Min2(location + bytes, sz) - location]

\* handle.slice(location, location + bytes) of a Blob of size sz (line 157).
Slice(sz, location, bytes) ==
    IF location >= sz THEN NoWin
    ELSE [from |-> location, n |-> Min2(location + bytes, sz) - location]

\* Variant of OpenInfo that does not drop the cached record first.
OpenInfoNoInvalidate(id, info) == IF cache[id] # None THEN cache[id] ELSE info

\* The record openFile acts on: the cache entry is deleted (line 38) and
\* getFileInfo fetches the engine's record, just registered (line 39).
OpenInfo(id, info) == info

(***************************************************************************)
(* openFile(fileId) (lines 37-75): the engine registers a record under a *)
(* free id and calls openFile.  HTTP files must pass the range probe,     *)
(* NATIVE files need a registered Blob; anything else throws, and the     *)
(* engine drops the id.  The record stays cached either way.              *)
(***************************************************************************)
openFile(id, info) ==
    LET file == OpenInfo(id, info)
        ok == IF file.proto = "HTTP" THEN SupportsRanges(srv) ELSE handle # None
    IN /\ eng[id] = None
       /\ cache' = [cache EXCEPT ![id] = file]
       /\ eng' = IF ok THEN [eng EXCEPT ![id] = info] ELSE eng
       /\ used' = <<id, file>>
       /\ res' = [NoRes EXCEPT !.op = "open", !.id = id, !.proto = file.proto, !.ok = ok]
       /\ UNCHANGED <<srv, handle, globbed>>

\* glob(path) for an http path (lines 76-101): the same range probe; on
\* success the path is added to the engine's glob result.
glob ==
    /\ globbed' = (globbed \/ SupportsRanges(srv))
    /\ res' = [NoRes EXCEPT !.op = "glob", !.ok = SupportsRanges(srv)]
    /\ UNCHANGED <<srv, handle, eng, cache, used>>

(***************************************************************************)
(* closeFile(fileId) (lines 103-112): the record is looked up, its cache *)
(* entry deleted, and a NATIVE file throws 'closeFile not implemented'.   *)
(* The engine drops the id.                                                *)
(***************************************************************************)
closeFile(id) ==
    LET file == GetFileInfo(id) IN
    /\ eng[id] # None
    /\ cache' = [cache EXCEPT ![id] = None]
    /\ eng' = [eng EXCEPT ![id] = None]
    /\ used' = <<id, file>>
    /\ res' = [NoRes EXCEPT !.op = "close", !.id = id, !.proto = file.proto,
                            !.ok = file.proto # "NATIVE"]
    /\ UNCHANGED <<srv, handle, globbed>>

\* The part every handler on an open id shares: getFileInfo, and the call's
\* record (with an outcome set by the handler).
OnOpenId(id) ==
    LET file == GetFileInfo(id) IN
    /\ eng[id] # None
    /\ cache' = Cached(id)
    /\ used' = <<id, file>>
    /\ UNCHANGED <<srv, handle, eng, globbed>>

Call(id, op) == [NoRes EXCEPT !.op = op, !.id = id, !.proto = GetFileInfo(id).proto]

(***************************************************************************)
(* readFile (lines 123-164): HTTP issues one ranged GET and copies at     *)
(* most `bytes` of an accepted body; any other answer throws.  NATIVE     *)
(* slices the registered Blob; a missing Blob throws.                     *)
(***************************************************************************)
readFile(id, bytes, location) ==
    LET call == [Call(id, "read") EXCEPT !.bytes = bytes, !.loc = location] IN
    /\ OnOpenId(id)
    /\ IF GetFileInfo(id).proto = "HTTP"
       THEN \E r \in GetResponses(srv, location, location + bytes - 1) :
              res' = IF ReadAccepts(r, bytes, location)
                     THEN [call EXCEPT !.win = [from |-> r.body.from,
                                                n |-> Min2(r.body.n, bytes)]]
                     ELSE [call EXCEPT !.ok = FALSE]
       ELSE res' = IF handle = None THEN [call EXCEPT !.ok = FALSE]
                   ELSE [call EXCEPT !.win = Slice(handle, location, bytes)]

\* truncateFile and writeFile (lines 113-122, 165-175) throw for both kinds.
truncateFile(id) ==
    /\ OnOpenId(id)
    /\ res' = [Call(id, "truncate") EXCEPT !.ok = FALSE]

writeFile(id) ==
    /\ OnOpenId(id)
    /\ res' = [Call(id, "write") EXCEPT !.ok = FALSE]

(***************************************************************************)
(* getFileSize (lines 176-205): the Blob's size, or a HEAD (no Range)     *)
(* whose 200 answer must carry Content-Length.                            *)
(***************************************************************************)
getFileSize(id) ==
    LET http == GetFileInfo(id).proto = "HTTP"
        ok == IF http THEN srv.exists /\ srv.headAllowed /\ srv.sendsLength
              ELSE handle # None
    IN /\ OnOpenId(id)
       /\ res' = [Call(id, "size") EXCEPT !.ok = ok,
                    !.val = IF ~ok THEN 0 ELSE IF http THEN srv.size ELSE handle]

\* getLastFileModificationTime (lines 206-221): the current time for HTTP,
\* 0 for a registered Blob.
getLastFileModificationTime(id) ==
    LET http == GetFileInfo(id).proto = "HTTP" IN
    /\ OnOpenId(id)
    /\ res' = [Call(id, "mtime") EXCEPT !.ok = http \/ handle # None,
                                        !.val = IF http THEN Now ELSE 0]

\* The page registers a Blob under the NATIVE file's name (registerFileHandle,
\* whose code is not under src/).
registerFileHandle ==
    /\ handle = None
    /\ \E sz \in Sizes : handle' = sz
    /\ res' = NoRes
    /\ UNCHANGED <<srv, eng, cache, used, globbed>>

Init ==
    /\ srv \in Servers
    /\ handle = None
    /\ eng = [i \in Ids |-> None]
    /\ cache = [i \in Ids |-> None]
    /\ used = None
    /\ res = NoRes
    /\ globbed = FALSE

Next ==
    \/ \E id \in Ids :
          \/ \E info \in Infos : openFile(id, info)
          \/ closeFile(id)
          \/ \E n, l \in Sizes : readFile(id, n, l)
          \/ truncateFile(id)
          \/ writeFile(id)
          \/ getFileSize(id)
          \/ getLastFileModificationTime(id)
    \/ glob
    \/ registerFileHandle

Spec == Init /\ [][Next]_vars

-----------------------------------------------------------------------------
TypeOK ==
    /\ srv \in Servers
    /\ handle \in Sizes \cup {None}
    /\ eng \in [Ids -> Infos \cup {None}]
    /\ cache \in [Ids -> Infos \cup {None}]
    /\ used \in {None} \cup (Ids \X Infos)
    /\ res.win \in Windows
    /\ res.val \in Sizes \cup {Now}

\* The length of the resource a record names.
SizeOf(proto) == IF proto = "HTTP" THEN srv.size ELSE handle

\* The bytes [location, location + bytes) of a resource of size sz.
Expected(sz, location, bytes) == Slice(sz, location, bytes)

SameBytes(w, v) == w.n = v.n /\ (w.n > 0 => w.from = v.from)

(***************************************************************************)
(* Every call on a file id acts on the record the engine has for that id *)
(* at that moment, and openFile registers exactly the record it checked: *)
(* fileInfoCache, filled by every handler and deleted only by openFile   *)
(* and closeFile, never hands a handler the record of an earlier file    *)
(* under a reused id -- also after an open that threw.                   *)
(***************************************************************************)
FT == INSTANCE FileTable WITH table <- eng, seen <- used

FileTableSpec == FT!Spec

(***************************************************************************)
(* A read that readFile reports successful returns exactly the bytes     *)
(* [location, location + bytes) of the resource, cut at its end -- also  *)
(* when a server ignoring Range answers with the whole body.             *)
(***************************************************************************)
ReadReturnsWindow ==
    res.op = "read" /\ res.ok =>
        SameBytes(res.win, Expected(SizeOf(res.proto), res.loc, res.bytes))

(***************************************************************************)
(* Every file openFile accepted can be read: a non-empty read inside the  *)
(* resource succeeds, for a server whose HEAD tells the truth.  The range *)
(* probe of openFile must admit only servers whose ranged GETs readFile  *)
(* accepts.                                                               *)
(***************************************************************************)
OpenedFileIsReadable ==
    LET inside == res.bytes > 0 /\ res.loc < SizeOf(res.proto)
    IN  res.op = "read" /\ inside /\ (res.proto = "HTTP" => Honest(srv)) => res.ok
==============================================================================
