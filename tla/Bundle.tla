------------------------------- MODULE Bundle -------------------------------
(***************************************************************************)
(* The build script src/packages/duckdb-wasm/bundle.mjs, as its effect on *)
(* the output directory dist/.  The script's top level runs at once: it   *)
(* parses the command line, patches apache-arrow's package.json, removes  *)
(* the previous outputs from dist/, starts three fs.copyFile calls of the *)
(* wasm binaries without awaiting them, and starts an async function that *)
(* awaits, in turn, each esbuild.build, the four declaration writes, a    *)
(* readdir of dist/ and, for each source map it lists, a read and a       *)
(* write that strips `../node_modules/` from it.  The copies' callbacks   *)
(* run whenever the event loop gets to them.  Any awaited step may        *)
(* reject; the rejection is unhandled and ends the process, and the       *)
(* copies still running with it.  The developer may run the script again.*)
(*                                                                         *)
(* A file of dist/ is [out, ext]; dist maps each present file to the run  *)
(* that wrote it and whether its text still holds `../node_modules/`      *)
(* (raw: esbuild's source maps do, as the bundles pull in node_modules).  *)
(* The edit of apache-arrow's package.json, and patchFile's sed on the    *)
(* emscripten glue files (generated outside the sources, so what they     *)
(* require is unknown here), touch no file of dist/ and are left out.     *)
(***************************************************************************)
EXTENDS Naturals, Sequences, SequencesExt

CONSTANTS
    ArgLists,   \* the command lines the script is run with
    Tokens,     \* the arguments the parser is checked on
    MaxArgs,    \* bound on their number in that check
    MaxRuns     \* bound on the runs of the script, one after another

VARIABLES
    cmd,        \* the command line of the current (or last) run
    phase,      \* "idle", "running", "done", "failed" (rejected), "error" (bad argument)
    run,        \* the number of the current (or last) run
    flags,      \* is_debug, enable_blocking, enable_coi, enable_tests
    pc,         \* the awaited step of Program(flags) the async function is at
    toPatch,    \* the source maps the readdir listed and the loop has still to patch
    pending,    \* the wasm copies whose callbacks have not run
    dist        \* the files of dist/

vars == <<cmd, phase, run, flags, pc, toPatch, pending, dist>>

Defaults == [debug |-> FALSE, blocking |-> TRUE, coi |-> TRUE, tests |-> TRUE]

\* Variant of Effect that forgets the `release` case.
EffectNoRelease ==
    ("--no-blocking" :> <<"blocking", FALSE>>) @@ ("--no-coi" :> <<"coi", FALSE>>)
    @@ ("--no-tests" :> <<"tests", FALSE>>) @@ ("debug" :> <<"debug", TRUE>>)

\* The flag each known argument sets, and to what (lines 57-61).
Effect ==
    ("--no-blocking" :> <<"blocking", FALSE>>) @@ ("--no-coi" :> <<"coi", FALSE>>)
    @@ ("--no-tests" :> <<"tests", FALSE>>) @@ ("debug" :> <<"debug", TRUE>>)
    @@ ("release" :> <<"debug", FALSE>>)

(***************************************************************************)
(* Lines 47-64: no argument only warns; each argument sets its flag, in   *)
(* order; an unknown one throws.  The result is [ok, flags].              *)
(***************************************************************************)
RECURSIVE ParseArgs(_, _)
ParseArgs(args, fl) ==
    IF args = <<>> THEN [ok |-> TRUE, flags |-> fl]
    ELSE IF Head(args) \notin DOMAIN Effect THEN [ok |-> FALSE, flags |-> fl]
    ELSE LET e == Effect[Head(args)] IN ParseArgs(Tail(args), [fl EXCEPT ![e[1]] = e[2]])

Wasm == {[out |-> w, ext |-> "wasm"] : w \in {"duckdb-mvp", "duckdb-eh", "duckdb-coi"}}

\* Variant of CleanExts without the `*.cjs.map` pattern.
CleanExtsNoCjsMap == {"wasm", "d.ts", "js", "js.map", "mjs", "mjs.map", "cjs"}

\* The extensions rimrafSync removes from dist/ (lines 101-108).
CleanExts == {"wasm", "d.ts", "js", "js.map", "mjs", "mjs.map", "cjs", "cjs.map"}

Clean(d) == [f \in {g \in DOMAIN d : g.ext \notin CleanExts} |-> d[f]]

(***************************************************************************)
(* The esbuild.build calls, in the order they are awaited (lines          *)
(* 126-345): the outfile, and the flag that guards the call.              *)
(***************************************************************************)
B(out, ext, needs) == [op |-> "build", out |-> out, ext |-> ext, needs |-> needs]
Builds ==
    << B("duckdb-browser", "cjs", "always"), B("duckdb-browser", "mjs", "always"),
       B("duckdb-browser-blocking", "cjs", "blocking"),
       B("duckdb-browser-blocking", "mjs", "blocking"),
       B("duckdb-browser-mvp.worker", "js", "always"),
       B("duckdb-browser-eh.worker", "js", "always"),
       B("duckdb-browser-coi.worker", "js", "coi"),
       B("duckdb-browser-coi.pthread.worker", "js", "coi"),
       B("duckdb-node", "cjs", "always"), B("duckdb-node-blocking", "cjs", "blocking"),
       B("duckdb-node-mvp.worker", "cjs", "always"),
       B("duckdb-node-eh.worker", "cjs", "always"),
       B("tests-browser", "js", "tests"), B("tests-node", "cjs", "tests") >>

\* The declaration files written after the builds, whatever the flags
\* (lines 347-370).
Decls ==
    [i \in 1..4 |-> [op |-> "decl", out |-> << "duckdb-browser", "duckdb-browser-blocking",
                                            "duckdb-node", "duckdb-node-blocking" >>[i],
                     ext |-> "d.ts"]]

\* Every awaited step of the async function up to the readdir (line 375).
Program(fl) ==
    SelectSeq(Builds, LAMBDA b : b.needs = "always" \/ fl[b.needs]) \o Decls
        \o << [op |-> "list"] >>

MapExt == ("js" :> "js.map") @@ ("mjs" :> "mjs.map") @@ ("cjs" :> "cjs.map")

\* What one esbuild.build writes: the outfile and, with `sourcemap: true`
\* (release), its external map; `'inline'` (debug) writes no map.
Outputs(b, fl) ==
    LET bundle == [out |-> b.out, ext |-> b.ext]
        map == [out |-> b.out, ext |-> MapExt[b.ext]]
    IN (bundle :> [run |-> run, raw |-> FALSE])
       @@ (IF fl.debug THEN <<>> ELSE map :> [run |-> run, raw |-> TRUE])

\* Variant of IsSourceMap testing `file.endsWith('.js.map')`.
IsSourceMapDotJs(f) == f.ext = "js.map"

\* The loop's filter `file.endsWith('js.map')` (line 377): true for
\* .js.map, .mjs.map and .cjs.map alike.
IsSourceMap(f) == f.ext \in {"js.map", "mjs.map", "cjs.map"}

Init ==
    /\ cmd = <<>>
    /\ phase = "idle"
    /\ run = 0
    /\ flags = Defaults
    /\ pc = 0
    /\ toPatch = {}
    /\ pending = {}
    /\ dist = <<>>

\* The process of the previous run has exited (node waits for pending
\* callbacks unless a rejection ended it).
Exited ==
    \/ phase \in {"idle", "failed", "error"}
    \/ phase = "done" /\ pending = {}

(***************************************************************************)
(* `node bundle.mjs args`: the top level (lines 47-124), up to the first  *)
(* await of the async function.  A bad                                    *)
(* argument throws before anything is touched.                           *)
(***************************************************************************)
Start ==
    /\ Exited
    /\ run < MaxRuns
    /\ \E args \in ArgLists :
          LET p == ParseArgs(args, Defaults) IN
          /\ cmd' = args
          /\ run' = run + 1
          /\ flags' = p.flags
          /\ IF p.ok
                THEN /\ phase' = "running"
                     /\ dist' = Clean(dist)
                     /\ pending' = Wasm
                     /\ pc' = 1
                ELSE /\ phase' = "error"
                     /\ UNCHANGED <<dist, pending, pc>>
          /\ toPatch' = {}

\* The next awaited step resolves: a build writes its outputs, a
\* declaration write its file, and the readdir lists the maps to patch.
Step ==
    LET s == Program(flags)[pc] IN
    /\ phase = "running"
    /\ pc <= Len(Program(flags))
    /\ pc' = pc + 1
    /\ CASE s.op = "build" -> dist' = Outputs(s, flags) @@ dist /\ UNCHANGED toPatch
         [] s.op = "decl"  -> dist' = ([out |-> s.out, ext |-> s.ext] :> [run |-> run, raw |-> FALSE]) @@ dist
                              /\ UNCHANGED toPatch
         [] s.op = "list"  -> toPatch' = {f \in DOMAIN dist : IsSourceMap(f)} /\ UNCHANGED dist
    /\ UNCHANGED <<cmd, phase, run, flags, pending>>

\* One turn of the loop (lines 376-385): read the map, strip every
\* `../node_modules/`, write it back.  The model takes the files in a fixed
\* order, as readdir returns them.
PatchMap ==
    LET f == CHOOSE g \in toPatch : TRUE IN
    /\ phase = "running"
    /\ toPatch # {}
    /\ dist' = [dist EXCEPT ![f].raw = FALSE]
    /\ toPatch' = toPatch \ {f}
    /\ UNCHANGED <<cmd, phase, run, flags, pc, pending>>

\* The async function returns after the last map.
Finish ==
    /\ phase = "running"
    /\ pc > Len(Program(flags))
    /\ toPatch = {}
    /\ phase' = "done"
    /\ UNCHANGED <<cmd, run, flags, pc, toPatch, pending, dist>>

(***************************************************************************)
(* A copyFile callback (lines 114-116): the copy is in dist/, or it       *)
(* failed and printErr only logs the error.                               *)
(***************************************************************************)
Copy(w) ==
    /\ phase \in {"running", "done"}
    /\ w \in pending
    /\ pending' = pending \ {w}
    /\ \/ dist' = (w :> [run |-> run, raw |-> FALSE]) @@ dist
       \/ UNCHANGED dist
    /\ UNCHANGED <<cmd, phase, run, flags, pc, toPatch>>

(***************************************************************************)
(* An awaited step rejects (line 386): nothing catches it, so the process *)
(* exits; copies in flight may or may not have landed.                    *)
(***************************************************************************)
Fail ==
    /\ phase = "running"
    /\ phase' = "failed"
    /\ pending' = {}
    /\ \E landed \in SUBSET pending :
          dist' = [w \in landed |-> [run |-> run, raw |-> FALSE]] @@ dist
    /\ UNCHANGED <<cmd, run, flags, pc, toPatch>>

Next ==
    \/ Start
    \/ Step
    \/ PatchMap
    \/ Finish
    \/ \E w \in Wasm : Copy(w)
    \/ Fail

Spec == Init /\ [][Next]_vars

-----------------------------------------------------------------------------
(***************************************************************************)
(* The command line as the usage line means it: a flag is off exactly    *)
(* when its --no- argument is given, the build is a debug build exactly   *)
(* when the last of debug / release given is debug, and a command line    *)
(* is refused exactly when it holds an unknown argument.                  *)
(***************************************************************************)
ParseRef(args) ==
    LET last == SelectLastInSeq(args, LAMBDA a : a \in {"debug", "release"}) IN
    [ok |-> \A i \in 1..Len(args) : args[i] \in {"--no-blocking", "--no-coi",
                                                 "--no-tests", "debug", "release"},
     flags |-> [debug |-> last # 0 /\ args[last] = "debug",
                blocking |-> ~Contains(args, "--no-blocking"),
                coi |-> ~Contains(args, "--no-coi"),
                tests |-> ~Contains(args, "--no-tests")]]

\* bundle.mjs's argument loop (lines 53-64) computes ParseRef: a run
\* builds with the flags ParseRef reads from its command line, or stops on
\* a refused one; and so on every command line of up to MaxArgs arguments
\* (ordering and repetition, a `release` after `debug`, unknown arguments).
ParseMatchesReference ==
    /\ run > 0 => /\ (phase = "error") = ~ParseRef(cmd).ok
                  /\ phase # "error" => flags = ParseRef(cmd).flags
    /\ \A args \in BoundedSeq(Tokens, MaxArgs) :
        LET p == ParseArgs(args, Defaults) IN
        p.ok = ParseRef(args).ok /\ (p.ok => p.flags = ParseRef(args).flags)

(***************************************************************************)
(* When the async function returns, no file of dist/ still points into    *)
(* ../node_modules/: the readdir runs after every build has resolved, and *)
(* the loop's filter takes every kind of map esbuild writes -- also after *)
(* a run that failed half-way left raw maps behind.                       *)
(***************************************************************************)
NoNodeModulesPaths ==
    phase = "done" => \A f \in DOMAIN dist : ~dist[f].raw

(***************************************************************************)
(* When a run finishes, every file of dist/ was written by that run: the  *)
(* clean-up removes every kind of output an earlier run -- a release run  *)
(* with its maps, or one that failed half-way -- may have left, so a      *)
(* debug run, or one with fewer bundles, ships nothing stale.             *)
(***************************************************************************)
NoStaleOutputs ==
    phase = "done" => \A f \in DOMAIN dist : dist[f].run = run
==============================================================================
