------------------------------- MODULE Fetch -------------------------------
(***************************************************************************)
(* enstaller/fetch.py and enpkg.FetchAction over egginst.utils.atomic_file *)
(* and checked_content: several processes fetch the same egg into the same *)
(* cache, each with its own index entry, each at most once.                *)
(*                                                                         *)
(* A content is a sequence of chunks; a checksum identifies a content.     *)
(* The server answers a request with any content in Answers - the one the  *)
(* index announces, another one, one cut short by the network - or with an *)
(* error, or not at all: no request of session.py has a timeout.           *)
(* Temporary files have unique names, so each process has its own.         *)
(***************************************************************************)
EXTENDS Naturals, Sequences

CONSTANTS
    Procs,       \* the processes that share the cache
    Wanted,      \* the contents an index may announce for the egg
    Answers,     \* the contents the server may send
    MaxRetries,  \* max_retries of FetchAction
    NoFile       \* there is no such file

ASSUME FetchAssumption ==
    /\ MaxRetries \in Nat
    /\ NoFile \notin Wanted \cup Answers

VARIABLES
    file,        \* the egg in the cache directory
    temp,        \* temp[p]: the temporary file p writes, or left behind
    pc,          \* pc[p]: the step p is at
    want,        \* want[p]: the content whose md5 p's index entry gives
    force,       \* force[p]: the force argument
    attempt,     \* attempt[p]: the index of the loop of FetchAction.execute
    body,        \* body[p]: the rest of the response
    canceled,    \* canceled[p]: _canceled of the current context
    outcome,     \* outcome[p]: how execute ended
    posix        \* does rename replace an existing file in one step?

vars == <<file, temp, pc, want, force, attempt, body, canceled, outcome, posix>>

Steps == {"idle", "check", "open", "request", "body", "verify", "publish",
          "unlink", "replace", "done", "dead"}
Outcomes == {"none", "present", "fetched", "canceled", "invalid", "error",
             "unrenamed"}

Init ==
    /\ file \in {NoFile} \cup Answers    \* perhaps from an earlier index
    /\ temp = [p \in Procs |-> NoFile]
    /\ pc = [p \in Procs |-> "idle"]
    /\ want \in [Procs -> Wanted]
    /\ force \in [Procs -> BOOLEAN]
    /\ attempt = [p \in Procs |-> 0]
    /\ body = [p \in Procs |-> <<>>]
    /\ canceled = [p \in Procs |-> FALSE]
    /\ outcome = [p \in Procs |-> "none"]
    /\ posix \in BOOLEAN

(* Mutant of NeedsToDownload: force makes no difference.                   *)
NoEggYet(p) == file = NoFile

(* needs_to_download: with force, the cached egg will do if its md5 is the *)
(* wanted one; without, any cached egg will do.                            *)
NeedsToDownload(p) ==
    \/ file = NoFile
    \/ force[p] /\ file # want[p]

GoTo(p, step) == pc' = [pc EXCEPT ![p] = step]
End(p, how) == GoTo(p, "done") /\ outcome' = [outcome EXCEPT ![p] = how]

(* _cleanup of atomic_file *)
Cleanup(p) == temp' = [temp EXCEPT ![p] = NoFile]

-----------------------------------------------------------------------------
Start(p) ==
    /\ pc[p] = "idle"
    /\ GoTo(p, "check")
    /\ UNCHANGED <<file, temp, want, force, attempt, body, canceled, outcome>>

(* FetchAction.iter_execute makes a new context and asks it first. *)
Check(p) ==
    /\ pc[p] = "check"
    /\ canceled' = [canceled EXCEPT ![p] = FALSE]
    /\ IF NeedsToDownload(p)
       THEN GoTo(p, "open") /\ UNCHANGED outcome
       ELSE End(p, "present")
    /\ UNCHANGED <<file, temp, want, force, attempt, body>>

(* iter_content asks again, then opens the temporary file. *)
OpenTemp(p) ==
    /\ pc[p] = "open"
    /\ IF NeedsToDownload(p)
       THEN /\ temp' = [temp EXCEPT ![p] = <<>>]
            /\ GoTo(p, "request") /\ UNCHANGED outcome
       ELSE End(p, "present") /\ UNCHANGED temp
    /\ UNCHANGED <<file, want, force, attempt, body, canceled>>

Request(p, answer) ==
    /\ pc[p] = "request"
    /\ body' = [body EXCEPT ![p] = answer]
    /\ GoTo(p, "body")
    /\ UNCHANGED <<file, temp, want, force, attempt, canceled, outcome>>

(* An exception other than InvalidChecksum leaves execute: the cached egg  *)
(* cannot be read, the temporary file not be opened, written or closed, an *)
(* HTTP error status, a lost connection, an interrupt, a consumer that     *)
(* drops the iterator.  Before the rename, the handler of atomic_file      *)
(* removes the temporary file, if there is one.                            *)
Fail(p) ==
    /\ pc[p] \in {"check", "open", "request", "body", "verify"}
    /\ Cleanup(p)
    /\ body' = [body EXCEPT ![p] = <<>>]
    /\ End(p, "error")
    /\ UNCHANGED <<file, want, force, attempt, canceled>>

(* Mutant of ReceiveChunk: the chunks that are on their way are written.   *)
ReceiveAnyChunk(p) ==
    /\ pc[p] = "body" /\ body[p] # <<>>
    /\ temp' = [temp EXCEPT ![p] = Append(@, Head(body[p]))]
    /\ body' = [body EXCEPT ![p] = Tail(@)]
    /\ UNCHANGED <<file, pc, want, force, attempt, canceled, outcome>>

(* The next chunk arrives; only now does the loop look at _canceled. *)
ReceiveChunk(p) ==
    /\ pc[p] = "body" /\ body[p] # <<>> /\ ~ canceled[p]
    /\ temp' = [temp EXCEPT ![p] = Append(@, Head(body[p]))]
    /\ body' = [body EXCEPT ![p] = Tail(@)]
    /\ UNCHANGED <<file, pc, want, force, attempt, canceled, outcome>>

(* Mutant of AbortChunk: abort leaves the temporary file.                  *)
AbortWithoutCleanup(p) ==
    /\ pc[p] = "body" /\ body[p] # <<>> /\ canceled[p]
    /\ body' = [body EXCEPT ![p] = <<>>]
    /\ End(p, "canceled")
    /\ UNCHANGED <<file, temp, want, force, attempt, canceled>>

(* target.abort(): checked_content skips the checksum and atomic_file the  *)
(* rename; iter_content returns, and with it execute.                      *)
AbortChunk(p) ==
    /\ pc[p] = "body" /\ body[p] # <<>> /\ canceled[p]
    /\ Cleanup(p)
    /\ body' = [body EXCEPT ![p] = <<>>]
    /\ End(p, "canceled")
    /\ UNCHANGED <<file, want, force, attempt, canceled>>

EndOfBody(p) ==
    /\ pc[p] = "body" /\ body[p] = <<>>
    /\ GoTo(p, "verify")
    /\ UNCHANGED <<file, temp, want, force, attempt, body, canceled, outcome>>

(* Mutant of Accept: the size is compared, not the checksum.               *)
AcceptSize(p) ==
    /\ pc[p] = "verify" /\ Len(temp[p]) = Len(want[p])
    /\ GoTo(p, "publish")
    /\ UNCHANGED <<file, temp, want, force, attempt, body, canceled, outcome>>

(* checked_content compares the checksums when the block is left. *)
Accept(p) ==
    /\ pc[p] = "verify" /\ temp[p] = want[p]
    /\ GoTo(p, "publish")
    /\ UNCHANGED <<file, temp, want, force, attempt, body, canceled, outcome>>

(* Mutant of Reject: the retries are not counted.                          *)
RejectForever(p) ==
    /\ pc[p] = "verify" /\ temp[p] # want[p]
    /\ Cleanup(p)
    /\ GoTo(p, "check")
    /\ UNCHANGED <<file, want, force, attempt, body, canceled, outcome>>

(* InvalidChecksum: atomic_file cleans up, execute tries again with a new  *)
(* context or lets the exception go.                                       *)
Reject(p) ==
    /\ pc[p] = "verify" /\ temp[p] # want[p]
    /\ Cleanup(p)
    /\ IF attempt[p] < MaxRetries
       THEN /\ attempt' = [attempt EXCEPT ![p] = @ + 1]
            /\ GoTo(p, "check") /\ UNCHANGED outcome
       ELSE End(p, "invalid") /\ UNCHANGED attempt
    /\ UNCHANGED <<file, want, force, body, canceled>>

(* rename of the temporary file over the egg: one step where the system    *)
(* replaces files.  Where it refuses to, an unlink and a second rename     *)
(* follow.                                                                 *)
Publish(p) ==
    /\ pc[p] = "publish" /\ (posix \/ file = NoFile)
    /\ file' = temp[p]
    /\ Cleanup(p)
    /\ End(p, "fetched")
    /\ UNCHANGED <<want, force, attempt, body, canceled>>

(* Mutant of RenameRefused: an existing egg is always unlinked first.      *)
UnlinkFirst(p) ==
    /\ pc[p] = "publish" /\ file # NoFile
    /\ GoTo(p, "unlink")
    /\ UNCHANGED <<file, temp, want, force, attempt, body, canceled, outcome>>

RenameRefused(p) ==
    /\ pc[p] = "publish" /\ ~ posix /\ file # NoFile
    /\ GoTo(p, "unlink")
    /\ UNCHANGED <<file, temp, want, force, attempt, body, canceled, outcome>>

UnlinkTarget(p) ==
    /\ pc[p] = "unlink"
    /\ file' = NoFile
    /\ IF file # NoFile
       THEN GoTo(p, "replace") /\ UNCHANGED outcome
       ELSE End(p, "unrenamed")
    /\ UNCHANGED <<temp, want, force, attempt, body, canceled>>

RenameAgain(p) ==
    /\ pc[p] = "replace"
    /\ IF file = NoFile
       THEN file' = temp[p] /\ Cleanup(p) /\ End(p, "fetched")
       ELSE End(p, "unrenamed") /\ UNCHANGED <<file, temp>>
    /\ UNCHANGED <<want, force, attempt, body, canceled>>

(* The renames and the unlink are in the else branch of atomic_file, which *)
(* no handler covers: an OSError (the egg is open elsewhere, the directory *)
(* is gone) or an interrupt leaves the temporary file behind, as does a    *)
(* process that comes between, above.                                      *)
RenameFails(p) ==
    /\ pc[p] \in {"publish", "unlink", "replace"}
    /\ End(p, "unrenamed")
    /\ UNCHANGED <<file, temp, want, force, attempt, body, canceled>>

-----------------------------------------------------------------------------
(* FetchAction.cancel, from another thread of the process, once there is a *)
(* context to cancel.                                                      *)
Cancel(p) ==
    /\ pc[p] \in {"open", "request", "body", "verify", "publish"}
    /\ ~ canceled[p]
    /\ canceled' = [canceled EXCEPT ![p] = TRUE]
    /\ UNCHANGED <<file, temp, pc, want, force, attempt, body, outcome>>

(* The process is killed; its temporary file stays. *)
Kill(p) ==
    /\ pc[p] \notin {"idle", "done", "dead"}
    /\ GoTo(p, "dead")
    /\ body' = [body EXCEPT ![p] = <<>>]
    /\ UNCHANGED <<file, temp, want, force, attempt, canceled, outcome>>

(* What p does by itself, and what it waits for: the server's answer, its  *)
(* chunks and the end of them.  _canceled is not looked at in between.     *)
OwnStep(p) ==
    /\ \/ Check(p) \/ OpenTemp(p) \/ Accept(p) \/ Reject(p)
       \/ Publish(p) \/ RenameRefused(p) \/ UnlinkTarget(p) \/ RenameAgain(p)
    /\ UNCHANGED posix

ServerStep(p) ==
    /\ \/ \E answer \in Answers : Request(p, answer)
       \/ ReceiveChunk(p) \/ AbortChunk(p) \/ EndOfBody(p)
    /\ UNCHANGED posix

Event(p) ==
    /\ Start(p) \/ Fail(p) \/ RenameFails(p) \/ Cancel(p) \/ Kill(p)
    /\ UNCHANGED posix

Next == \E p \in Procs : OwnStep(p) \/ ServerStep(p) \/ Event(p)

(* A process that runs takes its own steps.  Nothing is assumed of the     *)
(* server: without a timeout, it may stop answering and never hang up.     *)
Spec == Init /\ [][Next]_vars /\ \A p \in Procs : WF_vars(OwnStep(p))
-----------------------------------------------------------------------------
(* Properties *)

Contents == Wanted \cup Answers

TypeOK ==
    /\ file \in Contents \cup {NoFile}
    /\ pc \in [Procs -> Steps]
    /\ want \in [Procs -> Wanted]
    /\ force \in [Procs -> BOOLEAN]
    /\ attempt \in [Procs -> 0..MaxRetries]
    /\ canceled \in [Procs -> BOOLEAN]
    /\ outcome \in [Procs -> Outcomes]
    /\ posix \in BOOLEAN

Succeeded(p) == outcome[p] \in {"present", "fetched"}
SameIndex(p) == \A q \in Procs : want[q] = want[p]

(* Whatever the server sends and however the processes interleave, the egg *)
(* in the cache changes only to a whole content that has the md5 which the *)
(* index of the process that puts it there announces.  (checked_content)   *)
OnlyVerifiedContent ==
    [][file' \in {file, NoFile} \/ \E p \in Procs :
        file' = want[p] /\ outcome'[p] = "fetched" /\ outcome[p] = "none"]_vars

(* Where rename replaces files, a forced fetch that reports success leaves *)
(* the announced egg in the cache, also when processes that read the same  *)
(* index fetch it at once.                                                 *)
ForcedFetchDelivers ==
    posix => \A p \in Procs :
        force[p] /\ Succeeded(p) /\ SameIndex(p) => file = want[p]

(* Where rename replaces files, once a fetch succeeded there is an egg for *)
(* InstallAction to open, and no other process takes it away, not even for *)
(* a moment.                                                               *)
EggStaysInCache == posix /\ (\E p \in Procs : Succeeded(p)) => file # NoFile

(* Every way out of a fetch but a kill removes the temporary file, unless  *)
(* it got as far as the rename and failed there; what is left then is the  *)
(* whole of the announced egg, under a name nobody asks for again.         *)
NoTempLeft ==
    \A p \in Procs : temp[p] # NoFile =>
        \/ pc[p] \in {"request", "body", "verify",
                      "publish", "unlink", "replace", "dead"}
        \/ outcome[p] = "unrenamed" /\ temp[p] = want[p]

(* A fetch canceled while chunks are still to come never puts anything in  *)
(* the cache. (_CancelableResponse.iter_content)                           *)
CancelPreventsPublication ==
    \A p \in Procs :
        [](canceled[p] /\ body[p] # <<>> => [](outcome[p] # "fetched"))

(* A fetch comes to an end, whatever the server answers and the other      *)
(* processes do - the retries are bounded, and no attempt waits for        *)
(* another process - or it waits for the server, for ever, and for nothing *)
(* else.  (FetchAction.execute)                                            *)
FetchEnds ==
    \A p \in Procs :
        pc[p] = "check" ~>
            (pc[p] \in {"done", "dead"} \/ [](pc[p] \in {"request", "body"}))

-----------------------------------------------------------------------------
(* The cache as its users see it (EggCache): a fetch is one step. *)
status ==
    [p \in Procs |->
        CASE pc[p] = "idle" -> "idle"
          [] Succeeded(p) -> "ok"
          [] pc[p] \in {"done", "dead"} /\ ~ Succeeded(p) -> "failed"
          [] OTHER -> "fetching"]

Cache == INSTANCE EggCache WITH Contents <- Answers

(* However the attempts, chunks and renames of the processes interleave,   *)
(* the users of the cache see an egg change in one step, to what a         *)
(* fetching process wants, or, only where rename does not replace files,   *)
(* be gone while others are fetching it.  (egginst.utils.rename)           *)
AtomicCache == Cache!Spec
=============================================================================
