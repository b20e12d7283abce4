--------------------------- MODULE MCCommandLine ---------------------------
(* A library in two versions, and a tool that is from PyPI and needs the   *)
(* newest; a newer tool that cannot be had; epd, which wants the older     *)
(* library; enstaller in two versions.                                     *)
EXTENDS MachineCLI

P(name, version, product, available) ==
    [name |-> name, version |-> version, product |-> product, available |-> available]

lib1 == P("lib", 1, "free", TRUE)
lib2 == P("lib", 2, "free", TRUE)
tool1 == P("tool", 1, "pypi", TRUE)
tool2 == P("tool", 2, "pypi", FALSE)
epd1 == P("epd", 1, "full", TRUE)
enst1 == P("enstaller", 1, "free", TRUE)
enst2 == P("enstaller", 2, "free", TRUE)

MCRemote == {lib1, lib2, tool1, tool2, epd1, enst2}
MCBelow == {lib1}
MCCached == {lib1}
MCLines == <<enst1, enst2, epd1, lib1, lib2, tool1, tool2>>
MCClosure == [p \in MCRemote |->
    CASE p = tool1 -> <<lib2, tool1>> [] p = tool2 -> <<>>
      [] p = epd1 -> <<lib1, epd1>> [] OTHER -> <<p>>]

AnyOf(n) == Requirement(n, 0)
One == Requirement("", 1)
Words == {<<AnyOf("lib")>>, <<AnyOf("lib"), One>>, <<AnyOf("tool"), One>>, <<AnyOf("tool")>>,
          <<AnyOf("enstaller")>>, <<AnyOf("enstaller"), One>>, <<AnyOf("epd")>>,
          <<Requirement("lib", 1), AnyOf("enstaller")>>, <<AnyOf("epd"), AnyOf("lib")>>}

Flags == {{"no_autoupdate"}, {"yes", "no_autoupdate"}, {"dry_run", "yes", "no_autoupdate"}}

MCCommands ==
    {Command({option} \cup flags, <<>>) :
        option \in {"update_all", "remove_enstaller", "requirements"}, flags \in Flags}
    \cup {Command(options \cup flags, words) :
        options \in {{}, {"remove"}}, words \in Words, flags \in Flags}
    \cup {Command({option}, <<>>) :
        option \in {"freeze", "revert", "env", "log", "list", "imports", "search", "info",
                    "no_autoupdate"}}
    \cup {Command({"no_deps"}, <<AnyOf("tool"), One>>),
          Command({"no_deps", "update_all", "yes", "no_autoupdate"}, <<>>),
          Command({"info"}, <<AnyOf("lib")>>), Command({"whats_new", "dry_run"}, <<>>),
          Command({"force", "no_autoupdate"}, <<>>),
          Command({"force", "forceall"}, <<>>), Command({"remove", "freeze"}, <<>>)}

MCCalls ==
    {Command({"machine", "install"}, <<req>>) : req \in {AnyOf("lib"), AnyOf("tool"),
        Requirement("lib", 1), Requirement("tool", 1)}}
    \cup {Command({"machine", "remove"}, <<AnyOf(name)>>) : name \in {"lib", "enstaller"}}
    \cup {Command({"machine", "update_all"}, <<>>),
          Command({"machine", "install", "token"}, <<AnyOf("lib")>>)}
=============================================================================
