---------------------------- MODULE MCEggInst ----------------------------
(* Two versions of one project, the second without an _info.json of its    *)
(* own and with one file fewer, and an egg of another project that shares  *)
(* a file with the first version.                                          *)
EXTENDS EggInst, TLC

CONSTANTS a1, a2, b1, a, b, mod, script, data, own

MCEggs == {a1, a2, b1}
MCNames == {a, b}
MCPaths == {mod, script, data, own}
MCEggName == (a1 :> a) @@ (a2 :> a) @@ (b1 :> b)
MCPayload == (a1 :> {mod, data}) @@ (a2 :> {mod}) @@ (b1 :> {own, data})
MCGenerated == (a1 :> {script}) @@ (a2 :> {script}) @@ (b1 :> {})
MCWithInfo == {a1, b1}
============================================================================
