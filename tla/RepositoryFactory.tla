-------------------------- MODULE RepositoryFactory --------------------------
(***************************************************************************)
(* cli/utils.repository_factory: the indices of all configured stores are  *)
(* fetched by a pool of threads, each inside an etag context of the one    *)
(* Session (module SessionEtag), and merged into one Repository in the     *)
(* order in which the threads end.                                         *)
(*                                                                         *)
(* Contexts are the stores: one task, one context, one index each.  The    *)
(* packages are those of one project, since the Repository keeps a list of *)
(* its own for each project; a package is an egg and the store it would be *)
(* downloaded from.                                                        *)
(*                                                                         *)
(* External: the pool (concurrent.futures) and what the stores answer.     *)
(***************************************************************************)
EXTENDS SessionEtag

CONSTANTS
    Stores,     \* the sequence of configured stores (the Contexts)
    Workers,    \* max_workers of the pool
    Eggs,       \* the eggs of the project
    Version,    \* Version[e]: orders the eggs
    Index,      \* Index[c]: the eggs that store c lists
    ForPython,  \* the eggs for the running Python version, or for any
    Answers     \* HTTP status codes the stores may answer with

ASSUME FactoryAssumption ==
    /\ Stores \in Seq(Contexts)
    /\ Contexts = {Stores[i] : i \in DOMAIN Stores}
    /\ \A i, j \in DOMAIN Stores : Stores[i] = Stores[j] => i = j
    /\ Workers \in Nat \ {0}
    /\ Version \in [Eggs -> Nat]
    /\ \A e, f \in Eggs : Version[e] = Version[f] => e = f
    /\ Index \in [Contexts -> SUBSET Eggs]
    /\ ForPython \subseteq Eggs
    /\ Answers \subseteq Nat

VARIABLES
    raiseOnError,   \* the argument raise_on_error
    picked,         \* how many tasks the threads have taken, in list order
    result,         \* result[c]: what the task of c has returned, or raised
    merged,         \* the tasks whose result the caller has looked at
    adding,         \* the packages of the last of them still to be added
    repository,     \* full_repository
    unavailables,   \* the stores without an index
    call            \* the call of repository_factory

factoryVars == <<raiseOnError, picked, result, merged, adding, repository,
                 unavailables, call>>
allVars == <<vars, factoryVars>>

Package == [egg : Eggs, store : Contexts]

FactoryInit ==
    /\ Init
    /\ raiseOnError \in BOOLEAN
    /\ picked = 0
    /\ result = [c \in Contexts |-> "pending"]
    /\ merged = {} /\ adding = {}
    /\ repository = <<>>
    /\ unavailables = {}
    /\ call = "waiting"

-----------------------------------------------------------------------------
(* The threads: _fetch_repository *)

Picked == {Stores[i] : i \in 1..picked}
Ended(c) == pc[c] \in {"done", "failed"}

(* A thread that is free takes the next task, also after the caller has    *)
(* left the loop: leaving the pool waits for every task.                   *)
Pick ==
    /\ picked < Len(Stores)
    /\ Cardinality({c \in Picked : ~ Ended(c)}) < Workers
    /\ picked' = picked + 1
    /\ UNCHANGED <<vars, raiseOnError, result, merged, adding, repository,
                   unavailables, call>>

ShouldRaise(status) == status \in {403, 404} => raiseOnError

(* Everything but 200 that is not raised, or that raise_for_status takes   *)
(* for no error, ends as if there were no index.                           *)
Outcome(status) ==
    IF status = 200 THEN "index"
    ELSE IF ShouldRaise(status) /\ status >= 400 THEN "error"
    ELSE "none"

SetResult(c, r) ==
    /\ result' = [result EXCEPT ![c] = r]
    /\ UNCHANGED <<raiseOnError, picked, merged, adding, repository,
                   unavailables, call>>

(* The response ends the body with the result the task will have when its  *)
(* context is left.                                                        *)
Respond(c) ==
    /\ EndResponse(c)
    /\ \E status \in Answers : SetResult(c, Outcome(status))

(* The connection breaks, or what came is no JSON. *)
Break(c) == EndResponse(c) /\ SetResult(c, "error")

FailToOpen(c) == OpenFails(c) /\ SetResult(c, "error")

(* The store answers, or the connection to it ends. *)
Answered(c) == c \in Picked /\ (Respond(c) \/ Break(c))

(* What the thread does by itself. *)
OwnStep(c) ==
    /\ c \in Picked
    /\ \/ FailToOpen(c)
       \/ /\ \/ Enter(c) \/ Open(c) \/ Join(c) \/ Mount(c) \/ Count(c)
             \/ \E p \in Prefixes : Send(c, p)
             \/ Leave(c) \/ TearDown(c) \/ Stay(c)
             \/ Umount(c) \/ Restore(c) \/ Close(c) \/ Uncount(c)
          /\ UNCHANGED factoryVars

-----------------------------------------------------------------------------
(* The caller: as_completed yields the tasks that have ended, in any order *)

Completed == {c \in Picked : Ended(c)} \ merged

(* Mutant of Parse: the eggs for other Python versions are kept. *)
ParseAll(c) == Index[c]

(* parse_index *)
Parse(c) == Index[c] \cap ForPython

(* Repository.add_package appends and sorts, and the sort is stable: the   *)
(* package comes after those of its own version that are there already.    *)
AddPackage(package, packages) ==
    LET n == Cardinality({i \in DOMAIN packages :
                Version[packages[i].egg] <= Version[package.egg]})
    IN  SubSeq(packages, 1, n) \o <<package>>
            \o SubSeq(packages, n + 1, Len(packages))

(* The caller is in the loop over the tasks, not in the one over the       *)
(* packages of a task.                                                     *)
NextTask(c) == call = "waiting" /\ adding = {} /\ c \in Completed /\ merged' = merged \cup {c}

Merge(c) ==
    /\ NextTask(c) /\ result[c] = "index"
    /\ adding' = {[egg |-> e, store |-> c] : e \in Parse(c)}
    /\ UNCHANGED <<vars, raiseOnError, picked, result, repository, unavailables, call>>

Add(p) ==
    /\ p \in adding
    /\ repository' = AddPackage(p, repository)
    /\ adding' = adding \ {p}
    /\ UNCHANGED <<vars, raiseOnError, picked, result, merged, unavailables, call>>

NoIndex(c) ==
    /\ NextTask(c) /\ result[c] = "none"
    /\ unavailables' = unavailables \cup {c}
    /\ UNCHANGED <<vars, raiseOnError, picked, result, adding, repository, call>>

(* task.result() raises. *)
Raise(c) ==
    /\ NextTask(c) /\ result[c] = "error"
    /\ call' = "raising"
    /\ UNCHANGED <<vars, raiseOnError, picked, result, adding, repository, unavailables>>

(* Mutant of AllEnded: leaving the pool waits for what runs already only.  *)
PickedEnded == \A c \in Picked : Ended(c)

AllEnded == \A c \in Contexts : c \in Picked /\ Ended(c)

(* executor.__exit__ waits for the tasks that run or are queued. *)
LeavePool ==
    /\ AllEnded
    /\ \/ call = "waiting" /\ merged = Contexts /\ adding = {} /\ call' = "returned"
       \/ call = "raising" /\ call' = "raised"
    /\ UNCHANGED <<vars, raiseOnError, picked, result, merged, adding, repository,
                   unavailables>>

CallerStep ==
    \/ \E c \in Contexts : Merge(c) \/ NoIndex(c) \/ Raise(c)
    \/ \E p \in Package : Add(p)
    \/ LeavePool

TaskStep(c) == OwnStep(c) \/ Answered(c)

FactoryNext == Pick \/ CallerStep \/ \E c \in Contexts : TaskStep(c)

FactorySafety == FactoryInit /\ [][FactoryNext]_allVars

(* The threads and the caller run.  The lock need not be fair: every       *)
(* context wants it twice only.  Nothing is assumed of the stores: without *)
(* a timeout, one may stop answering and never hang up.                    *)
FactorySpec ==
    /\ FactorySafety
    /\ WF_allVars(Pick) /\ WF_allVars(CallerStep)
    /\ \A c \in Contexts : WF_allVars(OwnStep(c))

-----------------------------------------------------------------------------
(* Properties *)

(* What find_latest_package and the solver take. *)
Latest == repository[Len(repository)]

Fetched == {c \in Contexts : result[c] = "index"}

(* A call that returns has every package of every index that was fetched,  *)
(* once, reports every other store as unavailable, and has met no error: a *)
(* missing index is never taken for an empty one, and no failure of a      *)
(* thread gets lost.                                                       *)
(* (repository_factory: task.result(), unavailables)                       *)
RepositoryComplete ==
    call = "returned" =>
        /\ \A c \in Contexts : result[c] # "error"
        /\ unavailables = Contexts \ Fetched
        /\ \A p \in Package :
            Cardinality({i \in DOMAIN repository : repository[i] = p}) =
                IF p.store \in Fetched /\ p.egg \in Index[p.store] \cap ForPython
                THEN 1 ELSE 0

(* When the call is over, by a result or by an exception, no thread is     *)
(* left that uses the session, which is then as it was made.               *)
NothingLeftRunning ==
    call \in {"returned", "raised"} =>
        /\ \A c \in Contexts : Ended(c)
        /\ caches = {} /\ \A p \in Prefixes : adapter[p] = Plain

(* A task that a thread has taken ends, or waits for ever for the answer   *)
(* of its own store: whatever fails in the others, and wherever they are   *)
(* stuck, the lock comes free.  So the call ends, unless some store never  *)
(* answers.  (_etag_setup and _etag_tear, no timeout of session.get)       *)
WaitsForStore(c) == [](pc[c] = "response")

CallEnds ==
    /\ \A c \in Contexts : c \in Picked ~> (Ended(c) \/ WaitsForStore(c))
    /\ <>(\/ call \in {"returned", "raised"}
         \/ \E c \in Contexts : WaitsForStore(c))

(* config_templates.py: "When enpkg searches for an egg, it tries each     *)
(* repository in this list in order and selects the first one that         *)
(* matches, ignoring remaining repositories."                              *)
Position(c) == CHOOSE i \in DOMAIN Stores : Stores[i] = c

FirstStoreSelected ==
    call = "returned" /\ repository # <<>> =>
        \A c \in Fetched :
            Latest.egg \in Index[c] => Position(Latest.store) <= Position(c)
=============================================================================
