----------------------------- MODULE HttpRuntime -----------------------------
(***************************************************************************)
(* The HTTP and S3 part of the browser runtime (BROWSER_RUNTIME in        *)
(* src/unnamed/part_001): the synchronous handlers the engine calls for a *)
(* file whose dataProtocol is HTTP or S3, run against one remote resource *)
(* whose server behaviour is chosen nondeterministically.                 *)
(*                                                                         *)
(* Every XMLHttpRequest is synchronous (xhr.open(..., false)), so each     *)
(* handler is one atomic step.  A resource's bytes are abstracted to their *)
(* positions: byte i of the resource is the number i, so a response body   *)
(* is the sequence of positions it carries.                                *)
(*                                                                         *)
(* glob and checkFile read the engine's global settings (allowFullHttpReads *)
(* and the S3 configuration) through getGlobalFileInfo, which keeps the   *)
(* last record in _globalFileInfo and asks the engine, with its epoch,    *)
(* whether it is still current; the engine may change the settings        *)
(* between calls, bumping their epoch.                                    *)
(***************************************************************************)
EXTENDS Naturals, Sequences, FiniteSets, FiniteSetsExt

CONSTANTS
    Sizes,          \* lengths a resource may have (all >= 1)
    ReadLens,       \* byte counts the engine passes to readFile
    ReadLocs,       \* offsets the engine passes to readFile
    OpenFlagSets,   \* the FileFlags bitsets the engine passes to openFile
    Protocols,      \* the dataProtocols a run considers, within {"HTTP", "S3"}
    HeadModes,      \* the HEAD behaviours a run considers (see Servers)
    GlobalEpochs,   \* the epochs the engine's global settings may start at
    MaxGlobalEpoch, \* bound on their changes
    None            \* a model value: header absent / no value

ASSUME Sizes \subseteq Nat \ {0} /\ ReadLens \subseteq Nat /\ ReadLocs \subseteq Nat

\* The FileFlags bits that openFile tests.
READ == "READ"
WRITE == "WRITE"
APPEND == "APPEND"
CREATE == "CREATE"
CREATE_NEW == "CREATE_NEW"
ASSUME OpenFlagSets \subseteq SUBSET {READ, WRITE, APPEND, CREATE, CREATE_NEW}

ASSUME Protocols \subseteq {"HTTP", "S3"}
ASSUME HeadModes \subseteq {"range", "plain", "forbidden", "neterr"}

(***************************************************************************)
(* How the server answers.  headMode: how HEAD is answered -- "range"      *)
(* (206 to a HEAD carrying a Range header), "plain" (200 even with Range), *)
(* "forbidden" (403, as for pre-signed URLs), "neterr" (xhr.send throws,   *)
(* e.g. a rejected CORS preflight).  getRange: GET honours Range (206) or  *)
(* ignores it (200, whole body).  exposeRange: the Content-Range header is *)
(* readable by the page (CORS Access-Control-Expose-Headers).              *)
(***************************************************************************)
Servers == [exists: BOOLEAN, headMode: HeadModes,
            getRange: BOOLEAN, exposeRange: BOOLEAN, size: Sizes]

\* The file info the engine hands over (getFileInfo): protocol and flags.
FileInfos == [dataProtocol: Protocols, reliableHeadRequests: BOOLEAN,
              allowFullHttpReads: BOOLEAN]

VARIABLES
    srv,    \* the remote resource and its server
    info,   \* the DuckDBFileInfo of the file (fixed for a run)
    file,   \* what the engine holds after openFile: mode, size, buffer
    res,    \* outcome of the last handler call, for the properties
    globbed,\* duckdb_web_fs_glob_add_path was called for the resource
    global, \* the engine's global settings: [allowFullHttpReads, epoch]
    gcache  \* _globalFileInfo

vars == <<srv, info, file, res, globbed, global, gcache>>

Window(a, n) == [i \in 1..n |-> a + i - 1]
Full(s) == Window(0, s.size)

\* An S3 request is signed for one method (addS3Headers); a request sent
\* with another method fails the signature check.
SignedOk(method, signedFor) == info.dataProtocol = "HTTP" \/ method = signedFor

\* Response to a HEAD, with or without the header Range: bytes=0-.
HeadReq(range) ==
    CASE srv.headMode = "neterr"    -> [thrown |-> TRUE,  status |-> 0,   len |-> None]
      [] srv.headMode = "forbidden" -> [thrown |-> FALSE, status |-> 403, len |-> None]
      [] ~srv.exists                -> [thrown |-> FALSE, status |-> 404, len |-> None]
      [] range /\ srv.headMode = "range"
                                    -> [thrown |-> FALSE, status |-> 206, len |-> srv.size]
      [] OTHER                      -> [thrown |-> FALSE, status |-> 200, len |-> srv.size]

\* Response to GET with Range: bytes=a-b (b inclusive), signed for method m.
GetRangeReq(a, b, m) ==
    CASE ~SignedOk("GET", m) \/ ~srv.exists
            -> [status |-> 403, body |-> <<>>, len |-> None, crange |-> None]
      [] srv.getRange /\ a >= srv.size
            -> [status |-> 416, body |-> <<>>, len |-> None, crange |-> None]
      [] srv.getRange
            -> LET w == Window(a, Min({b, srv.size - 1}) - a + 1)
               IN [status |-> 206, body |-> w, len |-> Len(w),
                   crange |-> IF srv.exposeRange THEN srv.size ELSE None]
      [] OTHER
            -> [status |-> 200, body |-> Full(srv), len |-> srv.size, crange |-> None]

\* Response to GET without Range.
GetWholeReq == IF srv.exists
          THEN [status |-> 200, body |-> Full(srv), len |-> srv.size]
          ELSE [status |-> 404, body |-> <<>>, len |-> None]

Modes == {"closed", "ranged", "buffered", "writer", "silent"}
Closed == [mode |-> "closed", size |-> 0, buf |-> <<>>, fulls |-> 0]
NoRes == [op |-> "none", ok |-> TRUE, loc |-> 0, bytes |-> 0, data |-> <<>>]
Failed(op) == [NoRes EXCEPT !.op = op, !.ok = FALSE]

\* Variant of PresumedLength that takes the Content-Length of the 1-byte
\* answer where the total of its Content-Range is meant.
PresumedLengthFromContentLength(g, sent2, cl) ==
    CASE g.crange # None             -> g.len
      [] sent2 /\ cl # None /\ cl > 1 -> cl
      [] OTHER                       -> None

\* Variant of PresumedLength that never reads the Content-Range total.
PresumedLengthNoContentRange(g, sent2, cl) ==
    CASE sent2 /\ cl # None /\ cl > 1 -> cl
      [] OTHER                       -> None

\* The length the ladder presumes after GET bytes=0-0 (lines 241-265): the
\* total of Content-Range, else the Content-Length of a second HEAD if > 1.
PresumedLength(g, sent2, cl) ==
    CASE g.crange # None             -> g.crange
      [] sent2 /\ cl # None /\ cl > 1 -> cl
      [] OTHER                       -> None

(***************************************************************************)
(* openFile for READ: the capability ladder (part_001 lines 192-312).     *)
(* h1: HEAD with Range, sent only if reliableHeadRequests or full reads   *)
(* are disallowed, its exception caught into `error`; g: GET bytes=0-0;   *)
(* h2: a second HEAD when Content-Range is unreadable and HEAD is not     *)
(* reliable (its exception is not caught); full: a GET without Range.     *)
(* The result is the file the engine holds; fulls counts the responses    *)
(* that carried the whole resource.                                       *)
(***************************************************************************)
OpenRead ==
    LET sent1 == info.reliableHeadRequests \/ ~info.allowFullHttpReads
        h1 == HeadReq(TRUE)
        len1 == IF sent1 /\ ~h1.thrown THEN h1.len ELSE None
        error == sent1 /\ h1.thrown
        g == GetRangeReq(0, 0, "GET")
        sent2 == g.crange = None /\ ~info.reliableHeadRequests
        h2 == HeadReq(TRUE)
        cl == IF sent2 THEN h2.len ELSE len1
        presumed == PresumedLength(g, sent2, cl)
        gFull == IF g.status = 200 THEN 1 ELSE 0
        full == GetWholeReq
        Ranged(n) == [mode |-> "ranged", size |-> n, buf |-> <<>>, fulls |-> 0]
        Buffered(b, k) == [mode |-> "buffered", size |-> Len(b), buf |-> b, fulls |-> k]
        Silent(k) == [Closed EXCEPT !.mode = "silent", !.fulls = k]
    IN CASE sent1 /\ len1 # None /\ h1.status = 206     -> Ranged(len1)
         [] ~info.allowFullHttpReads /\ error           -> Closed
         [] ~info.allowFullHttpReads                    -> Silent(0)
         [] sent2 /\ h2.thrown                          -> Closed
         [] g.status = 206 /\ g.len = 1 /\ presumed # None -> Ranged(presumed)
         [] g.status = 200 /\ cl # None /\ g.len = cl   -> Buffered(g.body, 1)
         [] full.status = 200                           -> Buffered(full.body, gFull + 1)
         [] error                                       -> Closed
         [] OTHER                                       -> Silent(gFull)

\* openFile for WRITE: a HEAD without Range must answer 200 or 404 (lines 156-187).
OpenWrite(flags) ==
    LET h == HeadReq(FALSE)
    IN IF ~h.thrown /\ h.status \in {200, 404}
          /\ (h.status = 404 => flags \cap {CREATE, CREATE_NEW} # {})
       THEN [Closed EXCEPT !.mode = "writer"]
       ELSE Closed

Init ==
    /\ srv \in Servers
    /\ info \in FileInfos
    /\ file = Closed
    /\ res = NoRes
    /\ globbed = FALSE
    /\ global \in [allowFullHttpReads : BOOLEAN, epoch : GlobalEpochs]
    /\ gcache = None

(***************************************************************************)
(* openFile(fileId, flags), part_001 lines 140-313 for HTTP and S3: flag  *)
(* checks, then the write probe or the read ladder.  A thrown error is    *)
(* failWith: the engine holds no file.  "silent" is a return of 0 with no *)
(* failWith.                                                               *)
(***************************************************************************)
openFile(flags) ==
    /\ file.mode = "closed"
    /\ LET f == CASE {READ, WRITE} \subseteq flags -> Closed
                  [] APPEND \in flags             -> Closed
                  [] WRITE \in flags              -> OpenWrite(flags)
                  [] READ \notin flags            -> Closed
                  [] OTHER                        -> OpenRead
       IN /\ file' = f
          /\ res' = [NoRes EXCEPT !.op = "open", !.ok = (f.mode # "closed")]
    /\ UNCHANGED <<srv, info, globbed, global, gcache>>

\* Variant of ReadCopy that accepts any whole 200 answer of `bytes` bytes as
\* the window, without the check location == 0.
ReadCopyAnyWhole(r, bytes, location) ==
    LET n == Len(r.body) IN
    CASE r.status = 206 \/ (r.status = 200 /\ bytes = n)
            -> SubSeq(r.body, 1, Min({n, bytes}))
      [] r.status = 200 /\ location <= n
            -> SubSeq(r.body, location + 1, location + Min({n - location, bytes}))
      [] OTHER -> None

\* The bytes readFile copies out of answer r (lines 543-567), None on error.
ReadCopy(r, bytes, location) ==
    LET n == Len(r.body) IN
    CASE r.status = 206 \/ (r.status = 200 /\ bytes = n /\ location = 0)
            -> SubSeq(r.body, 1, Min({n, bytes}))
      [] r.status = 200 /\ location <= n
            -> SubSeq(r.body, location + 1, location + Min({n - location, bytes}))
      [] OTHER -> None

(***************************************************************************)
(* readFile(fileId, buf, bytes, location) on a file opened with a size    *)
(* and no buffer (lines 517-572): an empty read returns 0 at once; else   *)
(* one ranged GET, a 206 (or a whole 200 that is exactly the window at 0) *)
(* is copied out, any other 200 is sliced at `location` (a RangeError     *)
(* when location is past the body), and any other status fails.          *)
(***************************************************************************)
readFile(bytes, location) ==
    /\ file.mode = "ranged"
    /\ LET d == IF bytes = 0 THEN <<>>
                ELSE ReadCopy(GetRangeReq(location, location + bytes - 1, "GET"),
                              bytes, location)
       IN res' = [op |-> "read", ok |-> d # None, loc |-> location, bytes |-> bytes,
                  data |-> IF d = None THEN <<>> ELSE d]
    /\ UNCHANGED <<srv, info, file, globbed, global, gcache>>

\* Variant of PutObject recording one byte less than was sent.
PutObjectShort(bytes) == [srv EXCEPT !.exists = TRUE, !.size = bytes - 1]

\* The remote object after a successful PUT of `bytes` bytes (lines 623-632).
PutObject(bytes) == [srv EXCEPT !.exists = TRUE, !.size = bytes]

(***************************************************************************)
(* writeFile (lines 609-633): HTTP refuses; S3 PUTs the written bytes as  *)
(* the whole object, which succeeds or fails (a 403 or a network error).  *)
(***************************************************************************)
writeFile(bytes) ==
    /\ file.mode = "writer"
    /\ \/ /\ info.dataProtocol = "HTTP"
          /\ res' = Failed("write")
          /\ UNCHANGED srv
       \/ /\ info.dataProtocol = "S3"
          /\ res' = [NoRes EXCEPT !.op = "write", !.bytes = bytes]
          /\ srv' = PutObject(bytes)
       \/ /\ info.dataProtocol = "S3"
          /\ res' = Failed("write")
          /\ UNCHANGED srv
    /\ UNCHANGED <<info, file, globbed, global, gcache>>

\* truncateFile (lines 488-496): refused for HTTP and S3, no request sent.
truncateFile ==
    /\ file.mode # "closed"
    /\ res' = Failed("truncate")
    /\ UNCHANGED <<srv, info, file, globbed, global, gcache>>

\* closeFile / _closeFile (lines 447-470): drop the cached info; nothing else.
closeFile ==
    /\ file.mode # "closed"
    /\ file' = Closed
    /\ res' = [NoRes EXCEPT !.op = "close"]
    /\ UNCHANGED <<srv, info, globbed, global, gcache>>

(***************************************************************************)
(* getGlobalFileInfo against _globalFileInfo = c (lines 97-122): it sends *)
(* `c?.cacheEpoch || 0`; the engine answers "unchanged" (n === 0) when    *)
(* that is the settings' epoch, and `c!` is returned, else the settings,  *)
(* which are cached.                                                      *)
(***************************************************************************)
GlobalFetch(c) ==
    IF (IF c = None THEN 0 ELSE c.epoch) = global.epoch THEN c ELSE global

\* The effect on _globalFileInfo of asking getGlobalFileInfo, when `asks`.
AskGlobal(asks) == gcache' = IF asks THEN GlobalFetch(gcache) ELSE gcache

(***************************************************************************)
(* checkFile on the resource's URL (lines 424-435): for s3:// the global  *)
(* settings are fetched for the signature; a HEAD answered 200/206.       *)
(***************************************************************************)
checkFile ==
    LET h == HeadReq(FALSE)
    IN /\ res' = [NoRes EXCEPT !.op = "check",
                               !.ok = ~h.thrown /\ h.status \in {200, 206}]
       /\ AskGlobal(info.dataProtocol = "S3")
       /\ UNCHANGED <<srv, info, file, globbed, global>>

\* Variant of GlobProbeOk that ignores the status of the GET fallback.
GlobProbeOkNoGetCheck(h, g, full) ==
    /\ ~h.thrown
    /\ \/ h.status \in {200, 206}
       \/ full

\* Whether glob's probes accept the path (lines 372-401): HEAD 2xx, or, with
\* full reads allowed (`full`), a 2xx to the ranged GET.
GlobProbeOk(h, g, full) ==
    /\ ~h.thrown
    /\ \/ h.status \in {200, 206}
       \/ full /\ g.status \in {200, 206}

(***************************************************************************)
(* glob on the resource's URL (lines 362-403): a HEAD, for s3:// after    *)
(* fetching the global settings; if it is not 2xx and the global settings *)
(* -- fetched again (line 377) -- allow full reads, a GET bytes=0-0, for  *)
(* S3 signed with the method 'HEAD' (line 385); a 2xx answer registers    *)
(* the path.  A thrown HEAD ends glob in failWith.                         *)
(***************************************************************************)
glob ==
    LET h == HeadReq(FALSE)
        fallback == ~h.thrown /\ h.status \notin {200, 206}
        got == GlobalFetch(gcache)
        full == got # None /\ got.allowFullHttpReads
        ok == GlobProbeOk(h, GetRangeReq(0, 0, "HEAD"), full)
    IN /\ res' = [NoRes EXCEPT !.op = "glob", !.ok = ok]
       /\ AskGlobal(info.dataProtocol = "S3" \/ fallback)
       /\ globbed' = (globbed \/ ok)
       /\ UNCHANGED <<srv, info, file, global>>

\* The engine changes its global settings and bumps their epoch.
updateGlobal(v) ==
    /\ global.epoch < MaxGlobalEpoch
    /\ global' = [allowFullHttpReads |-> v, epoch |-> global.epoch + 1]
    /\ UNCHANGED <<srv, info, file, res, globbed, gcache>>

Next ==
    \/ \E flags \in OpenFlagSets : openFile(flags)
    \/ \E n \in ReadLens, l \in ReadLocs : readFile(n, l)
    \/ \E n \in Sizes : writeFile(n)
    \/ truncateFile
    \/ closeFile
    \/ checkFile
    \/ glob
    \/ \E v \in BOOLEAN : updateGlobal(v)

Spec == Init /\ [][Next]_vars

-----------------------------------------------------------------------------
TypeOK ==
    /\ srv \in Servers
    /\ info \in FileInfos
    /\ file.mode \in Modes /\ file.fulls \in 0..2
    /\ res.op \in {"none", "open", "read", "write", "truncate", "close", "check", "glob"}
    /\ globbed \in BOOLEAN

\* The bytes a read of n bytes at loc must return: the window, cut at the end.
Expected(loc, n) == Window(loc, IF loc >= srv.size THEN 0 ELSE Min({n, srv.size - loc}))

(***************************************************************************)
(* Every readFile that succeeds hands the engine exactly the bytes of the *)
(* resource at [location, location+bytes), cut at its end -- whichever of *)
(* the 206, whole-200 or sliced-200 branches of readFile produced them,   *)
(* and whatever ladder step of openFile decided the file was ranged.      *)
(***************************************************************************)
ReadReturnsWindow ==
    res.op = "read" /\ res.ok => res.data = Expected(res.loc, res.bytes)

(***************************************************************************)
(* What openFile hands the engine describes the resource: a ranged file   *)
(* carries the resource's length (from HEAD Content-Length, Content-Range *)
(* or a second HEAD), a buffered file carries all of its bytes.           *)
(***************************************************************************)
OpenMatchesResource ==
    /\ file.mode = "ranged" => file.size = srv.size
    /\ file.mode = "buffered" => file.buf = Full(srv)

(***************************************************************************)
(* A server that honours Range on GET and lets the page read              *)
(* Content-Range is never downloaded whole by openFile: whatever its HEAD *)
(* answers and whatever the file's flags, the ladder ends ranged (the     *)
(* total of Content-Range, line 245) -- a one-byte resource included.     *)
(***************************************************************************)
RangeServerStaysRanged ==
    file.mode = "buffered" => ~(srv.getRange /\ srv.exposeRange)

(***************************************************************************)
(* glob registers a URL (duckdb_web_fs_glob_add_path) only if the         *)
(* resource exists: neither the HEAD nor the ranged-GET fallback lets a   *)
(* missing resource through.                                               *)
(***************************************************************************)
GlobOnlyExisting == globbed => srv.exists

(***************************************************************************)
(* The spec (4.3, 8): with full reads allowed, opening a resource whose   *)
(* server ignores Range costs exactly one download of the whole resource. *)
(***************************************************************************)
AtMostOneFullDownload == file.fulls <= 1

(***************************************************************************)
(* The spec (4.3 edge cases, scenario in 8): a read that starts exactly   *)
(* at the end of the resource returns zero bytes, never an error --       *)
(* whichever way the server answers the Range header readFile sends.      *)
(***************************************************************************)
ReadAtEndIsEmpty ==
    res.op = "read" /\ res.loc = srv.size => res.ok /\ res.data = <<>>

(***************************************************************************)
(* The comment at part_001 line 374: when HEAD is refused and full reads  *)
(* are enabled, glob falls back to a ranged GET -- so glob fails only for *)
(* a resource that a GET cannot fetch either.                             *)
(***************************************************************************)
GlobFallsBackToGet ==
    res.op = "glob" /\ ~res.ok /\ global.allowFullHttpReads => ~srv.exists
==============================================================================
