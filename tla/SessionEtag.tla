---------------------------- MODULE SessionEtag ----------------------------
(***************************************************************************)
(* enstaller/session.py: the etag() context of a Session that several      *)
(* threads share (cli/utils.repository_factory fetches each index in a     *)
(* thread of a pool, see _fetch_repository).  The first context in opens a *)
(* DBCache and mounts an adapter that uses it on each URL prefix; the last *)
(* one out takes the adapters off the stacks and closes the cache.         *)
(*                                                                         *)
(* A context is entered once, makes a request and is left.  A context      *)
(* nested in another one of the same thread behaves like one of another    *)
(* thread that happens to end first: the lock is not held in the body.     *)
(*                                                                         *)
(* External: the cache and its database (sqlite_cache), the adapters       *)
(* (requests, cachecontrol) and the server.                                *)
(***************************************************************************)
EXTENDS Naturals, FiniteSets, Sequences

CONSTANTS
    Contexts,   \* the contexts; a cache is named after the one opening it
    Plain,      \* the HTTPAdapter mounted by Session.__init__
    None        \* nobody, or no adapter

Prefixes == {"http://", "https://"}

ASSUME EtagAssumption ==
    /\ IsFiniteSet(Contexts)
    /\ Plain \notin Contexts /\ None \notin Contexts /\ Plain # None

VARIABLES
    lock,       \* the owner of _etag_context_lock
    count,      \* _in_etag_context
    stack,      \* stack[p]: _adapters_stack[p], top first
    adapter,    \* adapter[p]: the adapter requests would use for p
    caches,     \* the caches that are open
    pc,         \* pc[c]: the step of context c
    todo,       \* todo[c]: the prefixes the loop of c has to handle
    held        \* held[c]: the adapter c uses, or has taken off

vars == <<lock, count, stack, adapter, caches, pc, todo, held>>

Init ==
    /\ lock = None
    /\ count = 0
    /\ stack = [p \in Prefixes |-> <<Plain>>]
    /\ adapter = [p \in Prefixes |-> Plain]
    /\ caches = {}
    /\ pc = [c \in Contexts |-> "idle"]
    /\ todo = [c \in Contexts |-> <<>>]
    /\ held = [c \in Contexts |-> None]

GoTo(c, step) == pc' = [pc EXCEPT ![c] = step]

Acquire(c) == lock = None /\ lock' = c
Release == lock' = None

-----------------------------------------------------------------------------
(* etag, up to the yield: _etag_setup under the lock. *)
Enter(c) ==
    /\ pc[c] = "idle" /\ Acquire(c)
    /\ GoTo(c, "setup")
    /\ UNCHANGED <<count, stack, adapter, caches, todo, held>>

IsFirst == count = 0

Open(c) ==
    /\ pc[c] = "setup" /\ IsFirst
    /\ caches' = caches \cup {c}
    /\ todo' = [todo EXCEPT ![c] = <<"http://", "https://">>]
    /\ GoTo(c, "mount")
    /\ UNCHANGED <<lock, count, stack, adapter, held>>

(* Mutant of OpenFails: the lock is not released.                          *)
OpenFailsLocked(c) ==
    /\ pc[c] = "setup" /\ IsFirst
    /\ GoTo(c, "failed")
    /\ UNCHANGED <<lock, count, stack, adapter, caches, todo, held>>

(* The cache directory cannot be created: the exception leaves etag before *)
(* anything is counted.                                                    *)
OpenFails(c) ==
    /\ pc[c] = "setup" /\ IsFirst
    /\ Release
    /\ GoTo(c, "failed")
    /\ UNCHANGED <<count, stack, adapter, caches, todo, held>>

Join(c) ==
    /\ pc[c] = "setup" /\ ~ IsFirst
    /\ GoTo(c, "count")
    /\ UNCHANGED <<lock, count, stack, adapter, caches, todo, held>>

(* _PatchedRawSession.mount *)
Mount(c) ==
    /\ pc[c] = "mount"
    /\ LET p == Head(todo[c]) IN
        /\ stack' = [stack EXCEPT ![p] = <<c>> \o @]
        /\ adapter' = [adapter EXCEPT ![p] = c]
    /\ todo' = [todo EXCEPT ![c] = Tail(@)]
    /\ GoTo(c, IF Tail(todo[c]) = <<>> THEN "count" ELSE "mount")
    /\ UNCHANGED <<lock, count, caches, held>>

Count(c) ==
    /\ pc[c] = "count"
    /\ count' = count + 1
    /\ Release
    /\ GoTo(c, "body")
    /\ UNCHANGED <<stack, adapter, caches, todo, held>>

-----------------------------------------------------------------------------
(* The body: a request is sent through the adapter mounted at that moment, *)
(* which its response uses up to its end.                                  *)
Send(c, p) ==
    /\ pc[c] = "body"
    /\ held' = [held EXCEPT ![c] = adapter[p]]
    /\ GoTo(c, "response")
    /\ UNCHANGED <<lock, count, stack, adapter, caches, todo>>

(* The response is read, or an exception leaves the body. *)
EndResponse(c) ==
    /\ pc[c] = "response"
    /\ held' = [held EXCEPT ![c] = None]
    /\ GoTo(c, "leaving")
    /\ UNCHANGED <<lock, count, stack, adapter, caches, todo>>

-----------------------------------------------------------------------------
(* The finally clause: _etag_tear under the lock. *)
Leave(c) ==
    /\ pc[c] = "leaving" /\ Acquire(c)
    /\ GoTo(c, "tear")
    /\ UNCHANGED <<count, stack, adapter, caches, todo, held>>

(* Mutant of IsLast: every context tears the adapters down.                *)
NotAlone == count > 0

IsLast == count = 1

TearDown(c) ==
    /\ pc[c] = "tear" /\ IsLast
    /\ todo' = [todo EXCEPT ![c] = <<"https://", "http://">>]
    /\ GoTo(c, "umount")
    /\ UNCHANGED <<lock, count, stack, adapter, caches, held>>

Stay(c) ==
    /\ pc[c] = "tear" /\ ~ IsLast
    /\ GoTo(c, "uncount")
    /\ UNCHANGED <<lock, count, stack, adapter, caches, todo, held>>

(* _PatchedRawSession.umount: the adapter is taken off the prefix, then    *)
(* the one below on the stack is put there.                                *)
Umount(c) ==
    /\ pc[c] = "umount"
    /\ LET p == Head(todo[c]) IN
        /\ adapter' = [adapter EXCEPT ![p] = None]
        /\ held' = [held EXCEPT ![c] = Head(stack[p])]
        /\ stack' = [stack EXCEPT ![p] = Tail(@)]
    /\ GoTo(c, "restore")
    /\ UNCHANGED <<lock, count, caches, todo>>

Restore(c) ==
    /\ pc[c] = "restore"
    /\ LET p == Head(todo[c]) IN
       adapter' = IF stack[p] = <<>> THEN adapter
                  ELSE [adapter EXCEPT ![p] = Head(stack[p])]
    /\ GoTo(c, "close")
    /\ UNCHANGED <<lock, count, stack, caches, todo, held>>

(* adapter.cache.close() *)
Close(c) ==
    /\ pc[c] = "close"
    /\ caches' = caches \ {held[c]}
    /\ held' = [held EXCEPT ![c] = None]
    /\ todo' = [todo EXCEPT ![c] = Tail(@)]
    /\ GoTo(c, IF Tail(todo[c]) = <<>> THEN "uncount" ELSE "umount")
    /\ UNCHANGED <<lock, count, stack, adapter>>

Uncount(c) ==
    /\ pc[c] = "uncount"
    /\ count' = count - 1
    /\ Release
    /\ GoTo(c, "done")
    /\ UNCHANGED <<stack, adapter, caches, todo, held>>

-----------------------------------------------------------------------------
Step(c) ==
    \/ Enter(c) \/ Open(c) \/ OpenFails(c) \/ Join(c) \/ Mount(c) \/ Count(c)
    \/ \E p \in Prefixes : Send(c, p)
    \/ EndResponse(c)
    \/ Leave(c) \/ TearDown(c) \/ Stay(c)
    \/ Umount(c) \/ Restore(c) \/ Close(c) \/ Uncount(c)

Next == \E c \in Contexts : Step(c)

(* What contexts do to the session, whoever makes them run. *)
Spec == Init /\ [][Next]_vars

-----------------------------------------------------------------------------
(* Properties *)

Inside == {"body", "response", "leaving", "tear", "umount", "restore",
           "close", "uncount"}
Locked == {"setup", "mount", "count", "tear", "umount", "restore", "close",
           "uncount"}

Stacks == {<<Plain>>} \cup {<<c, Plain>> : c \in Contexts}
Loops == {<<>>, <<"http://">>, <<"https://">>,
          <<"http://", "https://">>, <<"https://", "http://">>}

TypeOK ==
    /\ lock \in Contexts \cup {None}
    /\ count \in Nat
    /\ stack \in [Prefixes -> Stacks]
    /\ adapter \in [Prefixes -> Contexts \cup {Plain, None}]
    /\ caches \subseteq Contexts
    /\ pc \in [Contexts -> Inside \cup Locked \cup {"idle", "done", "failed"}]
    /\ todo \in [Contexts -> Loops]
    /\ held \in [Contexts -> Contexts \cup {Plain, None}]

Occupants == {c \in Contexts : pc[c] \in Inside}

(* _in_etag_context is the number of contexts that are inside, so that the *)
(* first one in and the last one out know that they are, however entering  *)
(* and leaving threads interleave.                                         *)
CountsOccupants == count = Cardinality(Occupants)

(* The response a context is reading goes through an adapter with a cache, *)
(* and nobody closes this cache meanwhile. (etag: "While inside this       *)
(* context, GET responses with an ETAG header are automatically cached")   *)
ServedThroughCache ==
    \A c \in Contexts : pc[c] = "response" => held[c] \in caches

(* When nobody is inside the session is as it was made: no adapter of a    *)
(* context is left on a stack, and every cache that was opened is closed.  *)
Restored ==
    lock = None /\ Occupants = {} =>
        /\ \A p \in Prefixes : stack[p] = <<Plain>> /\ adapter[p] = Plain
        /\ caches = {}

(* The requests of all contexts that are inside share one open cache.      *)
OneCache ==
    \A c, d \in Contexts :
        pc[c] = "response" /\ pc[d] = "response" => held[c] = held[d]
=============================================================================
