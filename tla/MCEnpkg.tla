------------------------------ MODULE MCEnpkg ------------------------------
(* An application and a library it depends on, the library in two          *)
(* versions, one of them also in a lower prefix; each egg is one file.     *)
EXTENDS Enpkg, TLC

CONSTANTS l1, l2, a1, lib, app, libFile, appFile

MCEggs == {l1, l2, a1}
MCNames == {lib, app}
MCPaths == {libFile, appFile}
MCEggName == (l1 :> lib) @@ (l2 :> lib) @@ (a1 :> app)
MCPayload == (l1 :> {libFile}) @@ (l2 :> {libFile}) @@ (a1 :> {appFile})
MCGenerated == [e \in MCEggs |-> {}]
MCVersion == (l1 :> 1) @@ (l2 :> 2) @@ (a1 :> 1)
MCPlans == {<<l1>>, <<l1, a1>>, <<l2, a1>>}
MCDepNames == (lib :> {}) @@ (app :> {lib})
OneBelow == {l1}
============================================================================
