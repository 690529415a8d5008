# TLA+ models of the duckdb-wasm browser file-system runtime

This directory holds TLA+ models of the JavaScript side of the duckdb-wasm
virtual file system. That is the code the WebAssembly engine calls,
synchronously, whenever it opens, reads, writes, truncates, closes, globs or
checks a file. It also holds the TLC configurations that check the models.

## 1. Inventory of the system

| Component | Source | State it keeps | Operations |
|---|---|---|---|
| File info cache | `src/unnamed/part_001` 39-124 | `_fileInfoCache: fileId -> DuckDBFileInfo` with a `cacheEpoch`; `_globalFileInfo` | `getFileInfo` (sends the cached epoch; the engine answers "unchanged" or new JSON), `getFileInfoByName`, `getGlobalFileInfo` |
| HTTP/S3 handlers | `part_001` 140-313, 355-409, 410-443, 447-474, 488-572, 609-633 | none of their own: the remote resource and the engine's view of the open file | `openFile` (flag checks, a write probe, or the read capability ladder), `readFile` (ranged GET), `writeFile` (S3 PUT of the whole object), `truncateFile` (refused), `closeFile`, `checkFile` (HEAD), `glob` (HEAD, then a ranged-GET fallback) |
| OPFS sessions (BROWSER_FSACCESS) | `runtime_browser_async_methods.ts` 10-37; `part_001` 332-342, 475-485, 502-513, 584-600, 637-645, 410-421 | registry `_files: name -> OPFSFileHandle {fileHandle, dirHandle, file, accessHandle, emptyAsAbsent}`; in the browser, the OPFS file and the exclusive lock of its sync access handle | `openFileAsync` (awaits `getFileHandle`, `getFile`, `createSyncAccessHandle`), synchronous `openFile`, `readFile`, `writeFile`, `truncateFile`, `closeFile`, `checkFile` |
| HTML5 FileReader files | `part_001` 315-331, 573-583, 471-474 | registry entry (a `File`/`Blob`) | `openFile` (size, or an empty buffer for a missing file), `readFile` (slice), `closeFile` |
| Registry maintenance | `part_001` 684-699 | `_files`, `_fileInfoCache` | `moveFile` (rebind a name, invalidate cached info) |
| Legacy runtime | `runtime_browser.ts` | `fileInfoCache` without epochs | HTTP/NATIVE `openFile`, `readFile`, `closeFile`, `truncateFile`, `writeFile`, `getFileSize`, `glob` |
| Decimal cast lookup | `patches/duckdb/cast_function_set.patch` | none | a pure lookup over a map of cast entries |
| Build script | `packages/duckdb-wasm/bundle.mjs` | the files in `dist/` | argument parsing, cleaning `dist/`, unawaited wasm copies, awaited esbuild builds and declaration writes, the source-map patch loop |
| Stubs and glue | `part_001` 126-138, 666-711; `part_000`; `async_bindings_interface.ts` | none | directory stubs, UDF dispatch, node instantiation, interface |

How the components interact:

- The engine calls each handler synchronously through the WebAssembly
  imports, passing a numeric file id.
- A handler first asks the engine for the file's metadata through
  `getFileInfo`, a call back into the engine that is validated by the cache
  epoch.
- It then dispatches on `dataProtocol`.
- Errors go back to the engine through `failWith`. Some are thrown through
  the import boundary instead.
- HTTP and S3 use synchronous `XMLHttpRequest`. Each handler is therefore one
  atomic step, but what it does depends on how the server answers.
- OPFS access handles can only be acquired asynchronously. `openFileAsync`
  acquires them ahead of time and stores them in the shared registry, where
  the synchronous handlers of every file id of that name find them.

What is hard:

- **HTTP/S3.** The server's behaviour decides the outcome: whether HEAD is
  answered, whether Range is honoured, and which headers CORS lets the page
  read. Each combination takes a different path through the open ladder.
- **OPFS.** `openFileAsync` suspends at three awaits, and other calls can run
  in between. The registry and the browser's exclusive lock are shared by all
  file ids of a name. The `File` snapshot is cached and never refreshed.
- **Cache and registry.** The file info cache and the registry are
  process-wide. Move, close and reopen can leave them stale.

What makes each component correct:

- **HTTP/S3.**
  - The engine gets the right size or the whole content.
  - Reads return exactly the requested window.
  - A range-capable server is never fully downloaded.
  - A resource is downloaded in full at most once.
  - Failures are reported.
  - A read at end-of-file returns 0.
- **OPFS.**
  - The lock is held exactly when the registry holds a live handle.
  - An open reports a usable session and the file's current size.
  - Opens of one name are exclusive.
  - Every `openFileAsync` returns.
- **Cache.** The info a handler uses is the engine's current info for that id.
- **Registry.** A move keeps the handle at its new name and leaves no second
  name on it.
- **Legacy runtime.** Every file it opens can be read, and reads return the
  requested window.

## 2. Modules, runs and what they show

### HttpRuntime (MC_HttpRuntime)

State:

- `srv`: the remote resource and how its server answers. HEAD can be
  "range", "plain", "forbidden" or "neterr". GET either honours Range or
  ignores it. Content-Range is either exposed or hidden. The size is 1 or 2,
  and the resource may not exist.
- `info`: protocol HTTP/S3, `reliableHeadRequests`, `allowFullHttpReads`.
- `file`: what the engine holds after `openFile`. That is one of: ranged with
  a size, buffered with the bytes, writer, nothing, or "silent" (0 returned
  without an error).
- `res`: the last call's outcome.
- `globbed`: whether the path was registered.
- `global`, `gcache`: the engine's global settings (`allowFullHttpReads`,
  with an epoch) and `_globalFileInfo`.

Byte `i` of the resource is the number `i`, so a body is the sequence of
positions it carries. Each handler is one action. The ladder is `OpenRead`,
built from `HeadReq`, `GetRangeReq`, `GetWholeReq` and `PresumedLength`.
`glob` and, for s3:// paths, `checkFile` fetch the global settings through
`GlobalFetch`, which is `getGlobalFileInfo`'s epoch exchange. `glob` decides its
GET fallback from `allowFullHttpReads` (line 377). `updateGlobal` is the
engine changing its settings, and is spec-modelled.

Bounds:

- Reads of 0..2 bytes at offsets 0..2 against sizes 1 and 2. This covers
  empty reads, reads inside the resource, reads cut at the end, reads at the
  end and reads past it.
- Every flag combination that `openFile` tells apart.
- Global settings start at epoch 1 and may change once. That is enough for
  `_globalFileInfo` to hold a record the engine has since replaced.

Runs:

- `http_core` (pass, 64k states): `ReadReturnsWindow`,
  `OpenMatchesResource`, `RangeServerStaysRanged` and `GlobOnlyExisting`.
  `RangeServerStaysRanged` says that a server which honours Range and
  exposes Content-Range is never downloaded whole, whatever its HEAD
  answers and whatever the flags; a one-byte resource is included.
- The epoch check of `getGlobalFileInfo` is modelled, but no property is
  stated for it. With engine epochs that start at 1 and only grow, the
  check keeps the cache current by its own comparison. The cases that
  could go wrong are an engine epoch of 0 and an engine restart under a
  module-level cache, and both depend on engine code that is not in the
  sources.
- Violations, each a disagreement with spec.md or with a comment in the code:
  - `AtMostOneFullDownload`: two full downloads when HEAD is refused and
    Range is ignored.
  - `ReadAtEndIsEmpty` (run `http_read_at_end`): on a server that honours
    Range (HEAD 206, GET 206), a read that starts exactly at end-of-file
    gets a 416, and readFile throws (line 564).
  - `GlobFallsBackToGet`: the s3:// fallback GET is signed for HEAD.

### OpfsRuntime (MC_OpfsRuntime)

State:

- `reg`: the registry entry.
- `disk` / `onDisk`: the OPFS file, 0..2 bytes.
- `lock`: the browser's exclusive lock.
- `eng[f]`: for each of two file ids, open/closed and the await that
  `openFileAsync` is suspended at.
- `res`: the last call's outcome.

`openFileAsync` is one action up to its first await. Each await then resumes
in its own action: `ResumeGetFileHandle`, `ResumeGetFile`,
`ResumeCreateSyncAccessHandle`. `createSyncAccessHandle` rejects while the
lock is held. `RejectAwait` is a rejection of `getFileHandle` or `getFile`,
which the catch turns into a failed open.

Init has the registry entry that registration leaves: a file handle or a
directory handle, and perhaps a `File` already fetched.

No liveness is checked. `openFileAsync` is three straight-line awaits, so
its completion says nothing about the code.

Runs:

- `opfs_core` (pass, 16k states): `LockMatchesRegistry`. The lock is held
  exactly when the registry holds an access handle, across every
  interleaving of two ids' awaits, rejections and closes.
- Violations:
  - `ExclusiveOpen`: a second file id shares the session instead of failing.
  - `ReportedSizeIsCurrent`: the size an open hands the engine is the
    file's length now. The trace is open, a write that grows the file, close
    and reopen. The reopen reports the old size, because `handle.file` is
    fetched only once (line 27) and never cleared. `checkFile`'s
    emptyAsAbsent test reads the same snapshot (`part_001` line 418). That
    half is modelled but not checked by a run.
    The run uses a single file id, so this is independent of sharing.

Every property of a passing run has a mutant: a plausible bug in a mapped
definition that TLC then catches. The mutants are listed in PROJECT.json.

### FileTable

The abstract File Descriptor Table that spec.md 4.1 promises: each engine
file id maps to at most one file record, and every call on an id acts on the
record the id maps to at that moment. Its state is `table` (id -> record)
and `seen` (the `<<id, record>>` the last call acted on). Its actions are
`Open` (which may fail and leave the id unmapped), `Resolve`, `Close` and
`Update` (the engine changes an open id's metadata). It has no run of its
own. Two modules are shown to implement it, with
`FT == INSTANCE FileTable WITH ...` and `FileTableSpec == FT!Spec` checked as
a PROPERTY.

### BrowserFiles (MC_BrowserFiles)

This module composes the process-wide state of `BROWSER_RUNTIME` in
`part_001`:

- `rec`: the engine's record for each file id, `[info, epoch]`.
- `cache`: `_fileInfoCache`.
- `files`: the registry `_files`. A handle is named by the name it was
  registered under.
- `used`: the `<<id, dataUrl>>` the last call acted on.
- `ret`: the last `moveFile`.
- `res`: what the last `openFile`, `readFile` or `writeFile` handed the
  engine. The files are HTML5 `File`s (BROWSER_FILEREADER); the File
  registered under handle `h` has `FileSize[h]` bytes.

How the actions correspond to the code:

- `FetchInfo` and `Refill` are `getFileInfo`. It sends `cached?.cacheEpoch || 0`.
  On "unchanged" it returns `cached!`; otherwise it caches the engine's
  record.
- `openFile` deletes the id's cache entry, fetches the record, and opens
  the File registered under its name (`OpenedFile`): its size, or, when no
  File is registered, the "empty buffered file" fallback, which reports
  size 1 over a fresh `malloc(1)`.
- `readFile` returns 0 for an empty read before `getFileInfo`; otherwise it
  looks the name up in the registry now, fails if nothing is bound, and
  returns the length of `slice(location, location + bytes)`.
- `writeFile` calls `getFileInfo` and fails: a FileReader file cannot be
  written. `truncateFile` does the same and is not a separate action.
- `closeFile` returns on a null record, and otherwise deletes the entry.
- `closeFileByName` asks the engine for the record of a name through
  `getFileInfoByName`, which never uses the cache. It then drops that id's
  cache entry while the engine keeps the id open.
- `moveFile` rebinds the name. It then deletes the first cache entry whose
  `dataUrl` is `from` and breaks. Which entry is first is left open.
- The engine side is spec-modelled. A new record starts at an epoch in
  `FirstEpochs`, and `updateFile` bumps the epoch.

Bounds: two names, two ids and epochs up to 2. This lets an id be closed and
reused for the same name at the same epoch, two ids cache one `dataUrl`, and a
record change twice. `FirstEpochs = {1}`. The two Files have 1 and 2 bytes,
and reads of 0..2 bytes at offsets 0..2 reach short reads and reads past
the end.

Runs:

- `files_core` (pass, 47k states): `FileTableSpec`. The cache refines
  FileTable, also across moves (which leave entries behind) and
  `closeFileByName`.
- `files_shared_handle` (violation): `NamesShareNoHandle`. `moveFile` calls
  `_files.delete(handle)` with the handle as the key, so the old name stays
  bound to the moved handle.
- `files_missing_reader` (violation): `MissingFileOpensEmpty`. Opening a
  name with no File registered (never registered, or moved away) takes
  the branch commented "Fall back to empty buffered file", but hands the
  engine size 1 over an uninitialised byte.

A move over a name that an open id uses makes that id's later reads slice
the other File, past the size it was opened with. The model reaches this,
but no run checks it. It is recorded as a hazard.

### LegacyRuntime (MC_LegacyRuntime)

This module models `runtime_browser.ts`, the older runtime. It serves HTTP
files that must support ranges, and NATIVE files, which are Blobs registered
by name. Its file info cache has no epochs.

State:

- `srv`: how the server answers. This covers whether the resource exists,
  whether GET honours Range, and whether HEAD advertises ranges. A proxy may
  advertise ranges that its GETs then ignore. It also covers whether CORS
  exposes Accept-Ranges, whether HEAD is answered and carries
  Content-Length, and the size.
- `handle`: the registered Blob's size.
- `eng`: the engine's table of open ids.
- `cache`: `fileInfoCache`.
- `used`, `res`, `globbed`: what the last call acted on and returned.

Each handler is one action: `openFile` (the range probe `ProbeStatus` and
`SupportsRanges`), `readFile` (the ranged GET `GetResponses` and
`ReadAccepts`, or `Slice` of the Blob), `closeFile`, `truncateFile`,
`writeFile`, `getFileSize`, `getLastFileModificationTime` and `glob`.
`registerFileHandle` is spec-modelled.

Bounds: two ids, and sizes, offsets and lengths in 0..2. These cover empty
reads, reads cut at the end and reads past the end.

Runs:

- `legacy_core` (pass), 103k states:
  - `TypeOK`.
  - `ReadReturnsWindow`.
  - `OpenedFileIsReadable`: with an honest server, every opened file can
    be read.
  - `FileTableSpec`: `eng` and `used` refine FileTable. The cache is
    dropped by `openFile` and `closeFile`, so a reused id never acts on a
    stale record.

### Bundle (MC_Bundle)

This module covers `bundle.mjs`, the build script that writes `dist/`. It
is one Node process, possibly run again after a failure.

State:

- `cmd`, `flags`: the run's arguments and the flags parsed from them.
- `phase`: idle, running, done, failed (an awaited step rejected) or error
  (an unknown argument).
- `run`: the count of invocations.
- `pc`: the next awaited step.
- `toPatch`: the source maps the `readdir` listed that are not yet patched.
- `pending`: the wasm copies still in flight.
- `dist`: a partial function from output files `[out, ext]` to three
  things: the run that wrote them, and whether a map still holds
  `../node_modules/` paths.

How the actions correspond to the code:

- `Start` is the top level (lines 47-124). `ParseArgs` is the argument
  loop. It is a RECURSIVE operator over the token sequence, and an
  unknown token throws before anything is touched. Otherwise `dist/` is
  cleaned of eight extensions and the three `fs.copyFile`s start.
- `Copy(w)` is a copy's callback. The copy landed, or it failed and
  `printErr` only logged the error.
- `Step` is the next awaited step of the async function. The step is an
  esbuild build (guarded by `--no-blocking`, `--no-coi` or `--no-tests`),
  which writes the bundle and, in release, an external map; a declaration
  write, done whatever the flags; or the `readdir` of `dist/`.
- `PatchMap` is one turn of the patch loop. `IsSourceMap` is its filter.
- `Finish` is the function's end. `Fail` is an unhandled rejection: the
  process exits, and the copies in flight may or may not have landed.

Bounds:

- Four argument lists: none, `debug`, all three `--no-*` flags, and an
  unknown token.
- Two runs, so a failed run is followed by a rerun.
- The parser is also checked against a declarative reference (`ParseRef`:
  the last of `debug`/`release` wins, and any unknown token fails) over
  every sequence of up to 3 of 6 tokens.

Runs:

- `build_core` (pass, 5905 states). Checks three properties:
  - `ParseMatchesReference`.
  - `NoNodeModulesPaths`: after a run completes, no map in `dist/` keeps
    `../node_modules/` paths. This holds because the `readdir` comes after
    the last write.
  - `NoStaleOutputs`: after a run completes, every file in `dist/` was
    written by that run. This holds because a rerun cleans every extension
    a failed run may have left.

No liveness is checked. The async function is a finite run of awaits and a
for-of loop over the `readdir` snapshot, so it ends under any fair
scheduling, whatever the code does.

A wasm copy that fails is only logged, so a run can complete without it.
The model reaches this. No property is stated for it, because nothing in
the sources says the build must then fail.

## 3. Plan

Steps 1, 2, 3, 4 and 6 are done, along with the build script (Bundle).

1. **Done.** HttpRuntime.
2. **Done.** OpfsRuntime.
3. **Done.** File info cache with the epoch protocol, as a refinement of
   FileTable (BrowserFiles).
4. **Done.** Registry: `moveFile`, `closeFileByName` and the FileReader
   protocol. Dropping or moving a registered OPFS handle (which `_closeFile`
   does not guard against) is left to step 5.
5. **Compose.** Instantiate OpfsRuntime together with BrowserFiles over a
   shared `_files`. This would check that close and invalidation interleave
   correctly with `openFileAsync`, and that moving an open OPFS file keeps
   its session.
6. **Done.** LegacyRuntime, with its own refinement of FileTable.
7. **Dropped.** CastLookup, the decimal cast lookup. See "Not modelled".

Some questions the models reach are not separate runs. These are recorded in
the PROJECT.json hazards:

- `openFile` returning 0 silently.
- Edge reads in the legacy runtime.
- The NATIVE `closeFile` throwing.
- `cached!` when a record starts at epoch 0.

## 4. Not modelled, and why

- Directory calls: stubs with no state.
- The decimal cast lookup patch (`cast_function_set.patch`). It is one
  hunk of DuckDB's C++ lookup. The function around it, the type map and
  `RelaxedTypeMatch` are not in the sources, and spec.md does not mention
  casts. So nothing in this repository says what the lookup must return,
  and the hunk on its own would only restate itself.
- UDF dispatch: its code is not in the sources.
- Node instantiation and the bindings interface
  (`async_bindings_interface.ts` declares types only): no behaviour to
  check.
- In `bundle.mjs`, `patch_arrow` rewrites apache-arrow's `package.json`.
  No modelled step reads that file, and arrow is external to every
  bundle. The `KEEP_DEBUG_LOGS` define and the logging are also left out.
- In `bundle.mjs`, `patchFile`'s sed on the emscripten glue files. The glue
  is generated by emscripten outside the sources, so what it requires is
  unknown. A model would have to take that from the patch call itself,
  which would make any property about it hold by construction.
- Runs retired to stay within the run budget: a range-capable server whose
  Content-Range is hidden is downloaded whole (HttpRuntime), and the legacy
  runtime refuses a range-capable server whose Accept-Ranges header CORS
  hides. Both were seen while modelling. The hazards list them with the
  passing properties that still cover those paths.
- Memory bounds of full-read buffering: not expressible with byte positions.
- Request timeouts: the code has none.
- The engine (C++) side: modelled only as the caller that issues calls on
  the files it holds. `registerFileHandle` and `DuckDBFileInfo` come from
  code outside src/ and are marked `spec_modelled` in the map.
