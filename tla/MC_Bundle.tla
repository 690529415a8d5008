------------------------------ MODULE MC_Bundle ------------------------------
(* Command lines: none (a release build with every bundle), a debug      *)
(* build, a release build without the optional bundles, and a bad        *)
(* argument; two runs, so a run meets what the previous one, finished    *)
(* or failed, left in dist/.  The parser is checked on every list of up  *)
(* to three arguments.                                                    *)
EXTENDS Bundle

MC_ArgLists == {<<>>, <<"debug">>, <<"--no-blocking", "--no-coi", "--no-tests">>, <<"bogus">>}
MC_Tokens == {"--no-blocking", "--no-coi", "--no-tests", "debug", "release", "bogus"}
MC_MaxArgs == 3
MC_MaxRuns == 2
==============================================================================
