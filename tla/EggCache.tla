------------------------------ MODULE EggCache ------------------------------
(***************************************************************************)
(* What the download cache promises its users: an egg in it changes in one *)
(* step, to the content the index of a fetching process announces.  Where  *)
(* rename does not replace files, and only there, an egg may be missing    *)
(* while others are fetching it.                                           *)
(***************************************************************************)
CONSTANTS
    Procs,     \* the processes that share the cache
    Contents,  \* what may be in the cache at first
    NoFile     \* no egg is in the cache

VARIABLES
    file,      \* the egg in the cache
    want,      \* want[p]: the content p is to fetch
    status,    \* status[p]: how far p has come
    posix      \* does rename replace an existing file in one step?

vars == <<file, want, status, posix>>

Init ==
    /\ file \in Contents \cup {NoFile}
    /\ status = [p \in Procs |-> "idle"]
    /\ posix \in BOOLEAN

Begin(p) ==
    /\ status[p] = "idle"
    /\ status' = [status EXCEPT ![p] = "fetching"]
    /\ UNCHANGED <<file, want, posix>>

(* The egg is fetched, or one is there already. *)
Succeed(p) ==
    /\ status[p] = "fetching"
    /\ status' = [status EXCEPT ![p] = "ok"]
    /\ file' = want[p] \/ (file # NoFile /\ file' = file)
    /\ UNCHANGED <<want, posix>>

Fail(p) ==
    /\ status[p] = "fetching"
    /\ status' = [status EXCEPT ![p] = "failed"]
    /\ UNCHANGED <<file, want, posix>>

Vanish(p) ==
    /\ ~ posix /\ status[p] = "fetching"
    /\ file' = NoFile
    /\ UNCHANGED <<want, status, posix>>

Next == \E p \in Procs : Begin(p) \/ Succeed(p) \/ Fail(p) \/ Vanish(p)

Spec == Init /\ [][Next]_vars
=============================================================================
