--------------------------- MODULE Configuration ---------------------------
(***************************************************************************)
(* The file .enstaller4rc as enpkg commands read and rewrite it: main.py   *)
(* (from main to the point where the indices are fetched), config.py and   *)
(* auth/_impl.py.  Nothing locks the file, and nothing replaces it as a    *)
(* whole: a writer truncates it and then writes, or, for a new repository, *)
(* writes over what is there.                                              *)
(*                                                                         *)
(* Abstractions.  What is not a credential is one setting, the section     *)
(* IndexedRepos.  A text is written when its file is closed, at once: a    *)
(* process that is stopped leaves the file as it opened it.  What is      *)
(* garbled stays so.                                                       *)
(*                                                                         *)
(* External: the user at the prompt, and the authentication service.       *)
(***************************************************************************)
EXTENDS SharedFile, Naturals, FiniteSets

CONSTANTS
    Users,          \* pairs of a username and a password
    Encodable,      \* those that from_encoded_auth decodes: one colon, and
                    \* short enough for base64 to make one line of them
    Token,          \* the API token
    None,           \* no credentials
    Urls,           \* repositories that may be added
    NoFile,         \* there is no configuration file
    Garbled,        \* it holds what cannot be parsed
    InitialFiles    \* the files the model starts with

Auths == Users \cup {Token, None}

(* EPD_auth, EPD_username, api_token, is there a section IndexedRepos, and *)
(* what is in it. *)
Contents == [auth : Users \cup {None}, username : BOOLEAN, token : BOOLEAN,
             section : BOOLEAN, repos : SUBSET Urls]

ASSUME ConfigurationAssumption ==
    /\ Encodable \subseteq Users
    /\ "run" \notin Urls /\ "userpass" \notin Urls
    /\ Token \notin Users /\ None \notin Users /\ Token # None
    /\ NoFile \notin Contents /\ Garbled \notin Contents /\ NoFile # Garbled
    /\ InitialFiles \subseteq Contents \cup {NoFile}

VARIABLES
    file,       \* what the configuration file holds
    cmd,        \* cmd[p]: "run", "userpass", or the url to add
    trials,     \* trials[p]: how often p has asked for a username
    auth,       \* auth[p]: config.auth
    session,    \* session[p]: the credentials its Session is authenticated with
    data,       \* data[p]: the text p has read to rewrite it
    then,       \* then[p]: where configure_authentication_or_exit returns to
    accepted    \* the credentials the service has accepted at some time

locals == <<cmd, trials, auth, session, then>>
vars == <<file, pc, cmd, trials, auth, session, data, then, accepted, disturbed>>

NTrials == 3

Empty == [auth |-> None, username |-> FALSE, token |-> FALSE,
          section |-> FALSE, repos |-> {}]
Default == [Empty EXCEPT !.section = TRUE]

Over == {"done", "ready", "exited", "aborted", "raised"}

-----------------------------------------------------------------------------
(* The text of the file *)

(* parse_assignments: is the text nothing but assignments of literals? *)
Assigns(text) == text \in Contents

(* from_file: can it be read, and which credentials does it give?  With    *)
(* both, the setter that a dict yields last wins.                          *)
Parses(text) ==
    /\ Assigns(text)
    /\ text.auth \in Encodable \cup {None}

AuthsIn(text) ==
    LET given == ({text.auth} \ {None}) \cup (IF text.token THEN {Token} ELSE {})
    IN  IF given = {} THEN {None} ELSE given

(* Mutant of WithAuth: the api_token is left where it is. *)
WithAuthToo(text, u) ==
    IF text \notin Contents THEN Garbled
    ELSE [text EXCEPT !.auth = u, !.username = FALSE]

(* UserPasswordAuth.change_auth: EPD_auth takes the place of what is there. *)
WithAuth(text, u) ==
    IF text \notin Contents THEN Garbled
    ELSE [text EXCEPT !.auth = u, !.username = FALSE, !.token = FALSE]

(* Mutant of WithUrl: the section is replaced.                             *)
OnlyUrl(text, url) ==
    IF text \notin Contents THEN Garbled ELSE [text EXCEPT !.repos = {url}]

(* prepend_url *)
WithUrl(text, url) ==
    IF text \notin Contents THEN Garbled ELSE [text EXCEPT !.repos = @ \cup {url}]

(* A text is written from the start of the file.  It covers what is there  *)
(* if that is base or nothing; otherwise a tail of it may stay, which is   *)
(* harmless, or cannot be parsed, or has settings that come last and win.  *)
WithTail(text) ==
    IF text \notin Contents \/ file \notin Contents THEN {}
    ELSE [auth : {text.auth} \cup ({file.auth} \ {None}),
          username : {text.username, text.username \/ file.username},
          token : {text.token, text.token \/ file.token},
          section : {text.section, text.section \/ file.section},
          repos : {text.repos, file.repos}]

Written(text, base) ==
    IF file \in {base, Empty} THEN {text} ELSE {text, Garbled} \cup WithTail(text)

-----------------------------------------------------------------------------
(* p is at a step where its state is that of a process that has not begun. *)
Reset(p, step) ==
    /\ GoTo(p, step)
    /\ cmd' = [cmd EXCEPT ![p] = "run"]
    /\ trials' = [trials EXCEPT ![p] = 0]
    /\ auth' = [auth EXCEPT ![p] = None]
    /\ session' = [session EXCEPT ![p] = None]
    /\ data' = [data EXCEPT ![p] = NoFile]
    /\ then' = [then EXCEPT ![p] = "done"]
    /\ disturbed' = [disturbed EXCEPT ![p] = FALSE]
    /\ UNCHANGED <<file, accepted>>

(* An exception that nobody handles, or sys.exit. *)
Fail(p) == \E end \in {"exited", "raised"} : Reset(p, end)

Init ==
    /\ file \in InitialFiles
    /\ pc = [p \in Procs |-> "idle"]
    /\ cmd = [p \in Procs |-> "run"]
    /\ trials = [p \in Procs |-> 0]
    /\ auth = [p \in Procs |-> None]
    /\ session = [p \in Procs |-> None]
    /\ data = [p \in Procs |-> NoFile]
    /\ then = [p \in Procs |-> "done"]
    /\ accepted = {}
    /\ disturbed = [p \in Procs |-> FALSE]

(* main, _ensure_config_path *)
Begin(p, c) ==
    /\ pc[p] = "idle"
    /\ cmd' = [cmd EXCEPT ![p] = c]
    /\ GoTo(p, IF file = NoFile THEN "default" ELSE "load")
    /\ UNCHANGED <<file, trials, auth, session, data, then, accepted, disturbed>>

(* write_default_config raises if there is a file by now. *)
CheckDefault(p) ==
    /\ pc[p] = "default" /\ file = NoFile
    /\ GoTo(p, "openDefault")
    /\ UNCHANGED <<file, locals, data, accepted, disturbed>>

DefaultExists(p) ==
    /\ pc[p] = "default" /\ file # NoFile
    /\ Reset(p, "raised")

OpenDefault(p) ==
    /\ pc[p] = "openDefault"
    /\ file' = Empty /\ Disturb(p)
    /\ GoTo(p, "writeDefault")
    /\ UNCHANGED <<locals, data, accepted>>

WriteDefault(p) ==
    /\ pc[p] = "writeDefault"
    /\ file' \in Written(Default, Empty) /\ Disturb(p)
    /\ GoTo(p, "load")
    /\ UNCHANGED <<locals, data, accepted>>

-----------------------------------------------------------------------------
(* Configuration.from_file, then the command *)

(* Where the command goes with credentials a. *)
FirstStep(p, a) ==
    CASE cmd[p] = "userpass"          -> "prompt"
      [] cmd[p] = "run" /\ a = None   -> "prompt"
      [] cmd[p] = "run" /\ a # None   -> "authenticate"
      [] cmd[p] \in Urls              ->
            IF cmd[p] \in file.repos THEN "done" ELSE "readRepos"

Load(p) ==
    /\ pc[p] = "load" /\ Parses(file)
    /\ \E a \in AuthsIn(file) :
        /\ auth' = [auth EXCEPT ![p] = a]
        /\ GoTo(p, FirstStep(p, a))
    /\ then' = [then EXCEPT ![p] =
                    IF cmd[p] = "run" THEN "authenticate" ELSE "done"]
    /\ UNCHANGED <<file, cmd, trials, session, data, accepted, disturbed>>

LoadFails(p) ==
    /\ pc[p] = "load" /\ ~ Parses(file)
    /\ Reset(p, "aborted")

-----------------------------------------------------------------------------
(* configure_authentication_or_exit *)

NoUsername(p) ==
    /\ pc[p] = "prompt" /\ trials[p] + 1 < NTrials
    /\ trials' = [trials EXCEPT ![p] = @ + 1]
    /\ UNCHANGED <<file, pc, cmd, auth, session, data, then, accepted, disturbed>>

NoTrialLeft(p) ==
    /\ pc[p] = "prompt" /\ trials[p] + 1 = NTrials
    /\ Reset(p, "exited")

(* Mutant of Login: the credentials are written before they are tried.     *)
LoginUnchecked(p, u) ==
    /\ pc[p] = "prompt"
    /\ trials' = [trials EXCEPT ![p] = 0]
    /\ session' = [session EXCEPT ![p] = u]
    /\ auth' = [auth EXCEPT ![p] = u]
    /\ GoTo(p, "readAuth")
    /\ UNCHANGED <<file, cmd, data, then, accepted, disturbed>>

(* _checked_change_auth: authenticate, then update. *)
Login(p, u) ==
    /\ pc[p] = "prompt"
    /\ trials' = [trials EXCEPT ![p] = 0]
    /\ session' = [session EXCEPT ![p] = u]
    /\ auth' = [auth EXCEPT ![p] = u]
    /\ accepted' = accepted \cup {u}
    /\ GoTo(p, "readAuth")
    /\ UNCHANGED <<file, cmd, data, then, disturbed>>

(* "No modification was written", or an error that nobody handles. *)
LoginFails(p) ==
    /\ pc[p] = "prompt"
    /\ Fail(p)

(* change_auth *)
ReadAuth(p) ==
    /\ pc[p] = "readAuth"
    /\ data' = [data EXCEPT ![p] = file]
    /\ disturbed' = [disturbed EXCEPT ![p] = FALSE]
    /\ GoTo(p, "openAuth")
    /\ UNCHANGED <<file, locals, accepted>>

OpenAuth(p) ==
    /\ pc[p] = "openAuth"
    /\ file' = Empty /\ Disturb(p)
    /\ GoTo(p, "writeAuth")
    /\ UNCHANGED <<locals, data, accepted>>

WriteAuth(p) ==
    /\ pc[p] = "writeAuth"
    /\ file' \in Written(WithAuth(data[p], auth[p]), Empty) /\ Disturb(p)
    /\ GoTo(p, "userInfo")
    /\ UNCHANGED <<locals, data, accepted>>

(* UserInfo.from_session: asked for after the file was written. *)
ShowUser(p) ==
    /\ pc[p] = "userInfo"
    /\ GoTo(p, then[p])
    /\ UNCHANGED <<file, locals, data, accepted, disturbed>>

(* As in LoginFails, "No modification was written" is what the user reads. *)
ShowUserFails(p) ==
    /\ pc[p] = "userInfo"
    /\ Fail(p)

-----------------------------------------------------------------------------
(* ensure_authenticated_config *)

(* Mutant of Authenticate: who has just logged in needs no session.        *)
AuthenticateLater(p) ==
    /\ pc[p] = "authenticate"
    /\ GoTo(p, "username")
    /\ UNCHANGED <<file, locals, data, accepted, disturbed>>

Authenticate(p) ==
    /\ pc[p] = "authenticate"
    /\ session' = [session EXCEPT ![p] = auth[p]]
    /\ accepted' = accepted \cup {auth[p]}
    /\ GoTo(p, "username")
    /\ UNCHANGED <<file, cmd, trials, auth, data, then, disturbed>>

AuthenticateFails(p) ==
    /\ pc[p] = "authenticate"
    /\ Fail(p)

(* _is_using_epd_username reads the file once more. *)
CheckUsername(p) ==
    /\ pc[p] = "username" /\ Assigns(file)
    /\ GoTo(p, IF file.username /\ file.auth = None THEN "prompt" ELSE "ready")
    /\ then' = [then EXCEPT ![p] = "ready"]
    /\ UNCHANGED <<file, cmd, trials, auth, session, data, accepted, disturbed>>

(* SyntaxError *)
UsernameFails(p) ==
    /\ pc[p] = "username" /\ ~ Assigns(file)
    /\ Reset(p, "raised")

-----------------------------------------------------------------------------
(* prepend_url *)

ReadRepos(p) ==
    /\ pc[p] = "readRepos"
    /\ data' = [data EXCEPT ![p] = file]
    /\ disturbed' = [disturbed EXCEPT ![p] = FALSE]
    /\ GoTo(p, "writeRepos")
    /\ UNCHANGED <<file, locals, accepted>>

(* "Error: IndexedRepos section not found" *)
NoRepos(p) ==
    /\ pc[p] = "writeRepos"
    /\ data[p] = Garbled \/ (data[p] \in Contents /\ ~ data[p].section)
    /\ Reset(p, "exited")

WriteRepos(p) ==
    /\ pc[p] = "writeRepos"
    /\ data[p] = Garbled \/ (data[p] \in Contents /\ data[p].section)
    /\ file' \in Written(WithUrl(data[p], cmd[p]), data[p]) /\ Disturb(p)
    /\ GoTo(p, "done")
    /\ UNCHANGED <<locals, data, accepted>>

-----------------------------------------------------------------------------
(* The process ends, or is stopped before. *)
Return(p) == pc[p] \in Over /\ Reset(p, "idle")
Stop(p) == pc[p] \notin Over \cup {"idle"} /\ Reset(p, "idle")

Step(p) ==
    \/ CheckDefault(p) \/ DefaultExists(p) \/ OpenDefault(p) \/ WriteDefault(p)
    \/ Load(p) \/ LoadFails(p)
    \/ NoUsername(p) \/ NoTrialLeft(p) \/ (\E u \in Users : Login(p, u)) \/ LoginFails(p)
    \/ ReadAuth(p) \/ OpenAuth(p) \/ WriteAuth(p)
    \/ ShowUser(p) \/ ShowUserFails(p)
    \/ Authenticate(p) \/ AuthenticateFails(p) \/ CheckUsername(p)
    \/ UsernameFails(p)
    \/ ReadRepos(p) \/ NoRepos(p) \/ WriteRepos(p)

Next ==
    \E p \in Procs :
        \/ \E c \in Urls \cup {"run", "userpass"} : Begin(p, c)
        \/ Step(p) \/ Return(p) \/ Stop(p)

Spec == Init /\ [][Next]_vars

-----------------------------------------------------------------------------
(* Properties *)

Files == Contents \cup {NoFile, Garbled}
Steps == {"idle", "default", "openDefault", "writeDefault", "load", "prompt",
          "readAuth", "openAuth", "writeAuth", "userInfo", "authenticate",
          "username", "readRepos", "writeRepos"}

TypeOK ==
    /\ file \in Files
    /\ pc \in [Procs -> Steps \cup Over]
    /\ cmd \in [Procs -> Urls \cup {"run", "userpass"}]
    /\ trials \in [Procs -> 0..NTrials]
    /\ auth \in [Procs -> Auths]
    /\ session \in [Procs -> Auths]
    /\ data \in [Procs -> Files]
    /\ then \in [Procs -> {"done", "authenticate", "ready"}]
    /\ accepted \subseteq Auths \ {None}
    /\ disturbed \in [Procs -> BOOLEAN]

(* Credentials that were written, and that from_encoded_auth can decode,   *)
(* are what the next command gets from the file, beside the settings that  *)
(* were there, unless another process has written meanwhile: whatever      *)
(* processes that were stopped or mixed had left in the file.              *)
(* (change_auth, from_file)                                                *)
LoginReadBack ==
    \A p \in Procs :
        pc[p] = "userInfo" /\ ~ disturbed[p] /\ data[p] \in Contents
            /\ auth[p] \in Encodable =>
                /\ Parses(file) /\ AuthsIn(file) = {auth[p]}
                /\ file.section = data[p].section /\ file.repos = data[p].repos

(* The same of a repository that was added. (prepend_url, from_file)       *)
AddedUrlReadBack ==
    \A p \in Procs :
        pc[p] = "done" /\ cmd[p] \in Urls /\ ~ disturbed[p]
            /\ data[p] \in Contents =>
                /\ file.repos = data[p].repos \cup {cmd[p]}
                /\ AuthsIn(file) = AuthsIn(data[p])

(* Credentials get into the file only if the service has accepted them:    *)
(* no interleaving and no failure leaves there what was only typed in.     *)
(* (_checked_change_auth)                                                  *)
OnlyAcceptedCredentials ==
    file \in Contents =>
        file.auth \in accepted \cup {None}
                     \cup {f.auth : f \in InitialFiles \cap Contents}

(* A command goes on to fetch indices only with credentials, which are     *)
(* those of its configuration, and its session has them and the service    *)
(* has accepted them. (main, ensure_authenticated_config)                  *)
ReadyAuthenticated ==
    \A p \in Procs :
        pc[p] = "ready" => session[p] = auth[p] /\ auth[p] \in accepted
=============================================================================
