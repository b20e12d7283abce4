------------------------- MODULE SharedFileProofs -------------------------
(***************************************************************************)
(* The two files that processes share without a lock, for any number of    *)
(* processes, settings and eggs.                                           *)
(*                                                                         *)
(* Of the configuration: only credentials that the service has accepted    *)
(* get into it, only a session that was accepted goes on to fetch indices, *)
(* and what no other process wrote over is read back.                      *)
(*                                                                         *)
(* Of the log, as long as no process is stopped within a line: it can      *)
(* always be read, in one way only, unless it is empty; what is appended to*)
(* it adds a revision and changes no other; and an update that no other    *)
(* process wrote into makes it say what is installed.                      *)
(***************************************************************************)
EXTENDS Configuration, History, FiniteSetTheorems, Functions, TLAPS

-----------------------------------------------------------------------------
(* The configuration *)


(* The credentials the file began with, or that were accepted.             *)
Known == accepted \cup {None} \cup {f.auth : f \in InitialFiles \cap Contents}

KnownText(text) == text \in Contents => text.auth \in Known

(* No process has read anything else than the file has held. *)
TextsKnown == KnownText(file) /\ \A p \in Procs : KnownText(data[p])

Changing == {"readAuth", "openAuth", "writeAuth", "userInfo"}

(* What the process has at the step it is at: credentials, or a repository *)
(* to add. *)
Prepared(p) ==
    /\ pc[p] \in Changing \cup {"username", "ready"} =>
        session[p] = auth[p] /\ auth[p] \in accepted
    /\ pc[p] \in Changing => auth[p] \in Users
    /\ pc[p] = "authenticate" => auth[p] # None
    /\ pc[p] \in {"readRepos", "writeRepos"} => cmd[p] \in Urls

IInv == TypeOK /\ TextsKnown /\ \A p \in Procs : Prepared(p)

(* It holds when no process has started. *)
LEMMA InitIInv == Init => IInv
  <1> SUFFICES ASSUME Init PROVE IInv
    OBVIOUS
  <1>1. TypeOK
    BY ConfigurationAssumption DEF Init, TypeOK, Files, Steps, Over, Auths, NTrials
  <1>2. TextsKnown
    BY ConfigurationAssumption DEF Init, TextsKnown, KnownText, Known
  <1>3. \A p \in Procs : Prepared(p)
    BY DEF Init, Prepared, Changing
  <1> QED BY <1>1, <1>2, <1>3 DEF IInv

(* What is written is the text, with settings of the file or not, or it is *)
(* garbled. *)
LEMMA WrittenKnown ==
    ASSUME NEW text \in Files, NEW base \in Files, KnownText(text),
           file \in Files, KnownText(file), file' \in Written(text, base)
    PROVE  file' \in Files /\ (file' \in Contents => file'.auth \in Known)
  <1>1. CASE file' \in {text, Garbled}
    BY <1>1, ConfigurationAssumption DEF KnownText, Files
  <1>2. CASE file' \in WithTail(text)
    <2>1. text \in Contents /\ file \in Contents
      BY <1>2 DEF WithTail
    <2>2. file' \in Contents /\ file'.auth \in {text.auth, file.auth}
      BY <1>2, <2>1 DEF WithTail, Contents
    <2> QED BY <2>1, <2>2 DEF KnownText, Files
  <1> QED BY <1>1, <1>2 DEF Written

(* A process that is at its beginning or at its end claims nothing. *)
LEMMA ResetIInv ==
    ASSUME IInv, NEW p \in Procs, NEW step \in {"idle", "exited", "aborted", "raised"},
           Reset(p, step)
    PROVE  IInv'
  <1>1. TypeOK'
    BY ConfigurationAssumption
    DEF IInv, Reset, GoTo, TypeOK, Files, Steps, Over, Auths, NTrials
  <1>2. TextsKnown'
    BY ConfigurationAssumption
    DEF IInv, TypeOK, Reset, TextsKnown, KnownText, Known, Files
  <1>3. \A q \in Procs : Prepared(q)'
    BY DEF IInv, TypeOK, Reset, GoTo, Prepared, Changing
  <1> QED BY <1>1, <1>2, <1>3 DEF IInv

(* Steps that leave the file and what was read from it alone. *)
LEMMA SilentKnown ==
    ASSUME IInv, accepted \subseteq accepted', UNCHANGED <<file, data>>
    PROVE  TextsKnown'
  BY DEF IInv, TextsKnown, KnownText, Known

(* Steps that write a text p knows. *)
LEMMA WriteKnown ==
    ASSUME IInv, UNCHANGED <<data, accepted>>, KnownText(file')
    PROVE  TextsKnown'
  BY DEF IInv, TextsKnown, KnownText, Known

-----------------------------------------------------------------------------
(* Each kind of step preserves the invariant.                              *)

(* Steps up to the command. *)
LEMMA BeginIInv ==
    ASSUME IInv, NEW p \in Procs,
           \/ \E c \in Urls \cup {"run", "userpass"} : Begin(p, c)
           \/ CheckDefault(p) \/ Load(p) \/ NoUsername(p)
    PROVE  IInv'
  <1>1. TypeOK'
    <2>1. CASE \E c \in Urls \cup {"run", "userpass"} : Begin(p, c)
      BY <2>1 DEF IInv, TypeOK, Begin, GoTo, Steps
    <2>2. CASE CheckDefault(p)
      BY <2>2 DEF IInv, TypeOK, CheckDefault, GoTo, Steps, locals
    <2>3. CASE Load(p)
      <3>1. PICK a \in AuthsIn(file) :
                /\ auth' = [auth EXCEPT ![p] = a]
                /\ pc' = [pc EXCEPT ![p] = FirstStep(p, a)]
        BY <2>3 DEF Load, GoTo
      <3>2. a \in Auths
        BY <2>3 DEF Load, Parses, Assigns, AuthsIn, Contents, Auths
      <3>3. FirstStep(p, a) \in Steps \cup Over
        BY ConfigurationAssumption DEF IInv, TypeOK, FirstStep, Steps, Over
      <3> QED BY <2>3, <3>1, <3>2, <3>3 DEF IInv, TypeOK, Load
    <2>4. CASE NoUsername(p)
      BY <2>4 DEF IInv, TypeOK, NoUsername, NTrials
    <2> QED BY <2>1, <2>2, <2>3, <2>4
  <1>2. TextsKnown'
    BY SilentKnown DEF Begin, CheckDefault, Load, NoUsername
  <1>3. ASSUME NEW q \in Procs PROVE Prepared(q)'
    <2>1. CASE Load(p)
      <3>1. PICK a \in AuthsIn(file) :
                /\ auth' = [auth EXCEPT ![p] = a]
                /\ pc' = [pc EXCEPT ![p] = FirstStep(p, a)]
        BY <2>1 DEF Load, GoTo
      <3>2. /\ FirstStep(p, a) \notin Changing \cup {"username", "ready"}
            /\ FirstStep(p, a) = "authenticate" => a # None
            /\ FirstStep(p, a) = "readRepos" => cmd[p] \in Urls
            /\ FirstStep(p, a) # "writeRepos"
        BY ConfigurationAssumption DEF IInv, TypeOK, FirstStep, Changing
      <3> QED BY <2>1, <3>1, <3>2 DEF IInv, TypeOK, Load, Prepared
    <2>2. CASE ~ Load(p)
      BY <2>2 DEF IInv, TypeOK, Begin, CheckDefault, NoUsername, GoTo, locals,
                  Prepared, Changing
    <2> QED BY <2>1, <2>2
  <1> QED BY <1>1, <1>2, <1>3 DEF IInv

(* Steps in which the service accepts credentials. *)
LEMMA AcceptIInv ==
    ASSUME IInv, NEW p \in Procs,
           (\E u \in Users : Login(p, u)) \/ Authenticate(p)
    PROVE  IInv'
  <1>1. CASE \E u \in Users : Login(p, u)
    <2> SUFFICES ASSUME NEW u \in Users, Login(p, u) PROVE IInv'
      BY <1>1
    <2>1. TypeOK'
      BY ConfigurationAssumption
      DEF IInv, TypeOK, Login, GoTo, Steps, Auths, NTrials
    <2>2. TextsKnown'
      BY SilentKnown DEF Login
    <2>3. \A q \in Procs : Prepared(q)'
      BY DEF IInv, TypeOK, Login, GoTo, Prepared, Changing
    <2> QED BY <2>1, <2>2, <2>3 DEF IInv
  <1>2. CASE Authenticate(p)
    <2>1. auth[p] \in Auths \ {None}
      BY <1>2 DEF IInv, TypeOK, Authenticate, Prepared
    <2>2. TypeOK'
      BY <1>2, <2>1 DEF IInv, TypeOK, Authenticate, GoTo, Steps
    <2>3. TextsKnown'
      BY <1>2, SilentKnown DEF Authenticate
    <2>4. \A q \in Procs : Prepared(q)'
      BY <1>2 DEF IInv, TypeOK, Authenticate, GoTo, Prepared, Changing
    <2> QED BY <2>2, <2>3, <2>4 DEF IInv
  <1> QED BY <1>1, <1>2

(* Steps that read the file, or go on without. *)
LEMMA ReadIInv ==
    ASSUME IInv, NEW p \in Procs,
           ReadAuth(p) \/ ShowUser(p) \/ CheckUsername(p) \/ ReadRepos(p)
    PROVE  IInv'
  <1>1. TypeOK'
    <2>1. CASE ReadAuth(p) \/ ReadRepos(p)
      BY <2>1 DEF IInv, TypeOK, ReadAuth, ReadRepos, GoTo, Steps, locals
    <2>2. CASE ShowUser(p)
      BY <2>2 DEF IInv, TypeOK, ShowUser, GoTo, Steps, Over, locals
    <2>3. CASE CheckUsername(p)
      BY <2>3 DEF IInv, TypeOK, CheckUsername, GoTo, Steps, Over
    <2> QED BY <2>1, <2>2, <2>3
  <1>2. TextsKnown'
    <2>1. CASE ReadAuth(p) \/ ReadRepos(p)
      BY <2>1 DEF IInv, TypeOK, ReadAuth, ReadRepos, TextsKnown, KnownText, Known
    <2>2. CASE ShowUser(p) \/ CheckUsername(p)
      BY <2>2, SilentKnown DEF ShowUser, CheckUsername
    <2> QED BY <2>1, <2>2
  <1>3. ASSUME NEW q \in Procs PROVE Prepared(q)'
    <2>1. CASE ReadAuth(p) \/ ReadRepos(p)
      BY <2>1 DEF IInv, TypeOK, ReadAuth, ReadRepos, GoTo, locals, Prepared, Changing
    <2>2. CASE ShowUser(p)
      <3>1. auth[p] \in Users /\ auth[p] # None
        BY <2>2, ConfigurationAssumption DEF IInv, ShowUser, Prepared, Changing
      <3>2. pc' = [pc EXCEPT ![p] = then[p]]
            /\ then[p] \in {"done", "authenticate", "ready"}
        BY <2>2 DEF IInv, TypeOK, ShowUser, GoTo
      <3> QED BY <2>2, <3>1, <3>2
          DEF IInv, TypeOK, ShowUser, locals, Prepared, Changing
    <2>3. CASE CheckUsername(p)
      BY <2>3 DEF IInv, TypeOK, CheckUsername, GoTo, Prepared, Changing
    <2> QED BY <2>1, <2>2, <2>3
  <1> QED BY <1>1, <1>2, <1>3 DEF IInv

(* Steps that write the file. *)
LEMMA WriteIInv ==
    ASSUME IInv, NEW p \in Procs,
           \/ OpenDefault(p) \/ WriteDefault(p) \/ OpenAuth(p) \/ WriteAuth(p)
           \/ WriteRepos(p)
    PROVE  IInv'
  <1>1. file' \in Files /\ KnownText(file')
    <2>0. file \in Files /\ KnownText(file)
      BY DEF IInv, TypeOK, TextsKnown
    <2>1. None \in Known /\ Empty \in Files /\ Default \in Files
          /\ KnownText(Empty) /\ KnownText(Default)
      <3>1. Empty.auth = None /\ Default.auth = None
            /\ Empty \in Contents /\ Default \in Contents
        BY DEF Empty, Default, Contents
      <3> QED BY <3>1 DEF Known, Files, KnownText
    <2>2. CASE OpenDefault(p) \/ OpenAuth(p)
      BY <2>1, <2>2 DEF OpenDefault, OpenAuth
    <2>3. CASE WriteDefault(p)
      BY <2>0, <2>1, <2>3, WrittenKnown DEF WriteDefault, KnownText
    <2>4. CASE WriteAuth(p)
      <3>1. auth[p] \in Users /\ auth[p] \in Known /\ data[p] \in Files
        BY <2>4 DEF IInv, TypeOK, WriteAuth, Prepared, Changing, Known
      <3>2. WithAuth(data[p], auth[p]) \in Files
            /\ KnownText(WithAuth(data[p], auth[p]))
        BY <3>1, ConfigurationAssumption
        DEF WithAuth, Files, Contents, KnownText
      <3> QED BY <2>0, <2>1, <2>4, <3>2, WrittenKnown DEF WriteAuth, KnownText
    <2>5. CASE WriteRepos(p)
      <3>1. data[p] \in Files /\ KnownText(data[p]) /\ cmd[p] \in Urls
        BY <2>5 DEF IInv, TypeOK, TextsKnown, WriteRepos, Prepared
      <3>2. WithUrl(data[p], cmd[p]) \in Files
            /\ KnownText(WithUrl(data[p], cmd[p]))
        BY <3>1, ConfigurationAssumption
        DEF WithUrl, Files, Contents, KnownText
      <3> QED BY <2>0, <2>5, <3>1, <3>2, WrittenKnown DEF WriteRepos, KnownText
    <2> QED BY <2>2, <2>3, <2>4, <2>5
  <1>2. UNCHANGED <<data, accepted, cmd, trials, auth, session, then>>
        /\ disturbed' \in [Procs -> BOOLEAN]
        /\ \E step \in {"writeDefault", "load", "writeAuth", "userInfo", "done"} :
                /\ pc' = [pc EXCEPT ![p] = step]
                /\ step \in Changing => pc[p] \in Changing
    BY DEF OpenDefault, WriteDefault, OpenAuth, WriteAuth, WriteRepos, GoTo,
           Disturb, locals, Changing, IInv, TypeOK
  <1>3. TypeOK'
    BY <1>1, <1>2 DEF IInv, TypeOK, Steps, Over
  <1>4. TextsKnown'
    BY <1>1, <1>2, WriteKnown
  <1>5. \A q \in Procs : Prepared(q)'
    BY <1>2 DEF IInv, TypeOK, Prepared, Changing
  <1> QED BY <1>3, <1>4, <1>5 DEF IInv

(* The invariant holds in every reachable state. *)
THEOREM Invariance == Spec => []IInv
  <1>1. IInv /\ [Next]_vars => IInv'
    <2> SUFFICES ASSUME IInv, [Next]_vars PROVE IInv'
      OBVIOUS
    <2>1. CASE UNCHANGED vars
      BY <2>1 DEF vars, IInv, TypeOK, TextsKnown, KnownText, Known, Prepared
    <2>2. ASSUME NEW p \in Procs, NEW c \in Urls \cup {"run", "userpass"}, Begin(p, c)
          PROVE  IInv'
      BY <2>2, BeginIInv
    <2>3. ASSUME NEW p \in Procs, Step(p) PROVE IInv'
      <3>1. CASE \/ DefaultExists(p) \/ LoadFails(p) \/ NoTrialLeft(p) \/ LoginFails(p)
                 \/ ShowUserFails(p) \/ AuthenticateFails(p) \/ UsernameFails(p)
                 \/ NoRepos(p)
        <4>1. \E step \in {"idle", "exited", "aborted", "raised"} : Reset(p, step)
          BY <3>1 DEF DefaultExists, LoadFails, NoTrialLeft, LoginFails, Fail,
                      ShowUserFails, AuthenticateFails, UsernameFails, NoRepos
        <4> QED BY <4>1, ResetIInv
      <3>2. CASE CheckDefault(p) \/ Load(p) \/ NoUsername(p)
        BY <3>2, BeginIInv
      <3>3. CASE (\E u \in Users : Login(p, u)) \/ Authenticate(p)
        BY <3>3, AcceptIInv
      <3>4. CASE ReadAuth(p) \/ ShowUser(p) \/ CheckUsername(p) \/ ReadRepos(p)
        BY <3>4, ReadIInv
      <3>5. CASE \/ OpenDefault(p) \/ WriteDefault(p) \/ OpenAuth(p) \/ WriteAuth(p)
                 \/ WriteRepos(p)
        BY <3>5, WriteIInv
      <3> QED BY <2>3, <3>1, <3>2, <3>3, <3>4, <3>5 DEF Step
    <2>4. ASSUME NEW p \in Procs, Return(p) \/ Stop(p) PROVE IInv'
      BY <2>4, ResetIInv DEF Return, Stop
    <2> QED BY <2>1, <2>2, <2>3, <2>4 DEF Next
  <1> QED BY InitIInv, <1>1, PTL DEF Spec

(* The types of the state, for any number of processes. *)
THEOREM TypeCorrect == Spec => []TypeOK
  <1>1. IInv => TypeOK
    BY DEF IInv
  <1> QED BY Invariance, <1>1, PTL

(* Whatever processes read, write, mix and leave half done: the file never *)
(* holds credentials that the service has not accepted, unless it did from *)
(* the beginning. (_checked_change_auth)                                   *)
THEOREM AlwaysOnlyAccepted == Spec => []OnlyAcceptedCredentials
  <1>1. IInv => OnlyAcceptedCredentials
    BY DEF IInv, TextsKnown, KnownText, Known, OnlyAcceptedCredentials
  <1> QED BY Invariance, <1>1, PTL

(* A command goes on only with a session that was accepted, with one login *)
(* or two. (main, ensure_authenticated_config)                             *)
THEOREM AlwaysReadyAuthenticated == Spec => []ReadyAuthenticated
  <1>1. IInv => ReadyAuthenticated
    BY DEF IInv, Prepared, ReadyAuthenticated
  <1> QED BY Invariance, <1>1, PTL
-----------------------------------------------------------------------------
(* What is written is read back.                                           *)

Early == {"idle", "default", "openDefault", "writeDefault", "load"}

(* What p finds in the file while nobody else writes: nothing once it has  *)
(* opened it, and what it has written once it has written.  A command that *)
(* finds its url there has read nothing, and only one that adds a url gets *)
(* to its end without logging in.                                          *)
Undisturbed(p) ==
    /\ pc[p] \in Early => data[p] = NoFile
    /\ pc[p] \in Changing \cup {"prompt", "authenticate", "username"} => cmd[p] \notin Urls
    /\ ~ disturbed[p] =>
        /\ pc[p] = "writeAuth" => file = Empty
        /\ pc[p] = "userInfo" /\ data[p] \in Contents => file = WithAuth(data[p], auth[p])
        /\ pc[p] = "writeRepos" => file = data[p]
        /\ pc[p] = "done" /\ cmd[p] \in Urls /\ data[p] \in Contents =>
            file = WithUrl(data[p], cmd[p])

ReadBackInv == IInv /\ \A p \in Procs : Undisturbed(p)

(* Steps of p that leave the file alone: other processes notice nothing.   *)
LEMMA QuietUndisturbed ==
    ASSUME ReadBackInv, NEW p \in Procs, Undisturbed(p)',
           UNCHANGED file,
           \A q \in Procs \ {p} :
               UNCHANGED <<pc[q], cmd[q], auth[q], data[q], disturbed[q]>>
    PROVE  \A q \in Procs : Undisturbed(q)'
  BY DEF ReadBackInv, Undisturbed

(* Steps of p that write the file: they disturb every other process.       *)
LEMMA WritingUndisturbed ==
    ASSUME ReadBackInv, NEW p \in Procs, Undisturbed(p)', Disturb(p),
           \A q \in Procs \ {p} : UNCHANGED <<pc[q], cmd[q], auth[q], data[q]>>
    PROVE  \A q \in Procs : Undisturbed(q)'
  <1>1. ASSUME NEW q \in Procs \ {p} PROVE Undisturbed(q)'
    <2>1. disturbed'[q]
      BY DEF Disturb
    <2> QED BY <2>1 DEF ReadBackInv, Undisturbed
  <1> QED BY <1>1

(* A process that is started again, or over, has nothing in hand. *)
LEMMA ResetUndisturbed ==
    ASSUME ReadBackInv, NEW p \in Procs,
           NEW step \in {"idle", "exited", "aborted", "raised"}, Reset(p, step)
    PROVE  \A q \in Procs : Undisturbed(q)'
  <1>1. Undisturbed(p)'
    BY ConfigurationAssumption
    DEF ReadBackInv, IInv, TypeOK, Reset, GoTo, Undisturbed, Early, Changing
  <1>2. UNCHANGED file
        /\ \A q \in Procs \ {p} :
               UNCHANGED <<pc[q], cmd[q], auth[q], data[q], disturbed[q]>>
    BY DEF ReadBackInv, IInv, TypeOK, Reset, GoTo
  <1> QED BY <1>1, <1>2, QuietUndisturbed

(* Steps that read the file, or neither read nor write it.                 *)
LEMMA QuietStepUndisturbed ==
    ASSUME ReadBackInv, NEW p \in Procs,
           \/ \E c \in Urls \cup {"run", "userpass"} : Begin(p, c)
           \/ CheckDefault(p) \/ Load(p) \/ NoUsername(p)
           \/ \E u \in Users : Login(p, u)
           \/ ReadAuth(p) \/ ShowUser(p) \/ Authenticate(p) \/ CheckUsername(p)
           \/ ReadRepos(p)
    PROVE  \A q \in Procs : Undisturbed(q)'
  <1> USE DEF ReadBackInv, IInv, TypeOK
  <1>1. Undisturbed(p)'
    <2>1. CASE \E c \in Urls \cup {"run", "userpass"} : Begin(p, c)
      BY <2>1 DEF Begin, GoTo, Undisturbed, Early, Changing
    <2>2. CASE CheckDefault(p)
      BY <2>2 DEF CheckDefault, GoTo, locals, Undisturbed, Early, Changing
    <2>3. CASE Load(p)
      <3>1. data[p] = NoFile /\ NoFile \notin Contents
        BY <2>3, ConfigurationAssumption DEF Load, Undisturbed, Early
      <3>2. PICK a \in AuthsIn(file) : pc'[p] = FirstStep(p, a)
        BY <2>3 DEF Load, GoTo
      <3>3. /\ FirstStep(p, a) \in {"prompt", "authenticate", "done", "readRepos"}
            /\ FirstStep(p, a) \in {"prompt", "authenticate"} => cmd[p] \notin Urls
        BY ConfigurationAssumption DEF FirstStep
      <3> QED BY <2>3, <3>1, <3>2, <3>3 DEF Load, Undisturbed, Early, Changing
    <2>4. CASE NoUsername(p)
      BY <2>4 DEF NoUsername, Undisturbed, Early, Changing
    <2>5. CASE \E u \in Users : Login(p, u)
      BY <2>5 DEF Login, GoTo, Undisturbed, Early, Changing
    <2>6. CASE ReadAuth(p) \/ ReadRepos(p)
      BY <2>6 DEF ReadAuth, ReadRepos, GoTo, locals, Undisturbed, Early, Changing
    <2>7. CASE ShowUser(p)
      <3>1. pc'[p] \in {"done", "authenticate", "ready"} /\ cmd[p] \notin Urls
        BY <2>7 DEF ShowUser, GoTo, Undisturbed, Changing
      <3> QED BY <2>7, <3>1 DEF ShowUser, locals, Undisturbed, Early, Changing
    <2>8. CASE Authenticate(p) \/ CheckUsername(p)
      BY <2>8 DEF Authenticate, CheckUsername, GoTo, Undisturbed, Early, Changing
    <2> QED BY <2>1, <2>2, <2>3, <2>4, <2>5, <2>6, <2>7, <2>8
  <1>2. UNCHANGED file
        /\ \A q \in Procs \ {p} :
               UNCHANGED <<pc[q], cmd[q], auth[q], data[q], disturbed[q]>>
    BY DEF Begin, CheckDefault, Load, NoUsername, Login, ReadAuth, ShowUser,
           Authenticate, CheckUsername, ReadRepos, GoTo, locals
  <1> QED BY <1>1, <1>2, QuietUndisturbed

(* Steps that write the file. *)
LEMMA WritingStepUndisturbed ==
    ASSUME ReadBackInv, NEW p \in Procs,
           \/ OpenDefault(p) \/ WriteDefault(p) \/ OpenAuth(p) \/ WriteAuth(p)
           \/ WriteRepos(p)
    PROVE  \A q \in Procs : Undisturbed(q)'
  <1> USE DEF ReadBackInv, IInv, TypeOK
  <1>1. Disturb(p) /\ disturbed'[p] = disturbed[p]
    BY DEF OpenDefault, WriteDefault, OpenAuth, WriteAuth, WriteRepos, Disturb
  <1>2. UNCHANGED <<cmd, auth, data>>
    BY DEF OpenDefault, WriteDefault, OpenAuth, WriteAuth, WriteRepos, locals
  <1>3. \A q \in Procs \ {p} : UNCHANGED <<pc[q], cmd[q], auth[q], data[q]>>
    BY <1>2 DEF OpenDefault, WriteDefault, OpenAuth, WriteAuth, WriteRepos, GoTo
  <1>4. Undisturbed(p)'
    <2>1. CASE OpenDefault(p) \/ WriteDefault(p)
      BY <1>2, <2>1 DEF OpenDefault, WriteDefault, GoTo, Undisturbed, Early, Changing
    <2>2. CASE OpenAuth(p)
      BY <1>2, <2>2 DEF OpenAuth, GoTo, Undisturbed, Early, Changing
    <2>3. CASE WriteAuth(p)
      <3>1. ~ disturbed[p] => file' = WithAuth(data[p], auth[p])
        BY <2>3 DEF WriteAuth, Undisturbed, Written
      <3> QED BY <1>1, <1>2, <2>3, <3>1
          DEF WriteAuth, WithAuth, GoTo, Undisturbed, Early, Changing
    <2>4. CASE WriteRepos(p)
      <3>1. ~ disturbed[p] => file' = WithUrl(data[p], cmd[p])
        BY <2>4 DEF WriteRepos, Undisturbed, Written
      <3> QED BY <1>1, <1>2, <2>4, <3>1
          DEF WriteRepos, WithUrl, GoTo, Undisturbed, Early, Changing
    <2> QED BY <2>1, <2>2, <2>3, <2>4
  <1> QED BY <1>1, <1>3, <1>4, WritingUndisturbed

(* The invariant of the two theorems about reading back. *)
LEMMA ReadBackInvariance == Spec => []ReadBackInv
  <1>1. Init => ReadBackInv
    BY InitIInv DEF Init, ReadBackInv, Undisturbed, Early, Changing
  <1>2. ReadBackInv /\ IInv' /\ [Next]_vars => ReadBackInv'
    <2> SUFFICES ASSUME ReadBackInv, IInv', [Next]_vars
                 PROVE  \A q \in Procs : Undisturbed(q)'
      BY DEF ReadBackInv
    <2>1. CASE UNCHANGED vars
      BY <2>1 DEF vars, ReadBackInv, Undisturbed
    <2>2. ASSUME NEW p \in Procs, NEW c \in Urls \cup {"run", "userpass"}, Begin(p, c)
          PROVE  \A q \in Procs : Undisturbed(q)'
      BY <2>2, QuietStepUndisturbed
    <2>3. ASSUME NEW p \in Procs, Step(p) PROVE \A q \in Procs : Undisturbed(q)'
      <3>1. CASE \/ DefaultExists(p) \/ LoadFails(p) \/ NoTrialLeft(p) \/ LoginFails(p)
                 \/ ShowUserFails(p) \/ AuthenticateFails(p) \/ UsernameFails(p)
                 \/ NoRepos(p)
        <4>1. \E step \in {"idle", "exited", "aborted", "raised"} : Reset(p, step)
          BY <3>1 DEF DefaultExists, LoadFails, NoTrialLeft, LoginFails, Fail,
                      ShowUserFails, AuthenticateFails, UsernameFails, NoRepos
        <4> QED BY <4>1, ResetUndisturbed
      <3>2. CASE \/ CheckDefault(p) \/ Load(p) \/ NoUsername(p)
                 \/ (\E u \in Users : Login(p, u))
                 \/ ReadAuth(p) \/ ShowUser(p) \/ Authenticate(p) \/ CheckUsername(p)
                 \/ ReadRepos(p)
        BY <3>2, QuietStepUndisturbed
      <3>3. CASE \/ OpenDefault(p) \/ WriteDefault(p) \/ OpenAuth(p) \/ WriteAuth(p)
                 \/ WriteRepos(p)
        BY <3>3, WritingStepUndisturbed
      <3> QED BY <2>3, <3>1, <3>2, <3>3 DEF Step
    <2>4. ASSUME NEW p \in Procs, Return(p) \/ Stop(p)
          PROVE  \A q \in Procs : Undisturbed(q)'
      BY <2>4, ResetUndisturbed DEF Return, Stop
    <2> QED BY <2>1, <2>2, <2>3, <2>4 DEF Next
  <1> QED BY <1>1, <1>2, Invariance, PTL DEF Spec

(* Whatever was in the file when it was read, and whatever other processes *)
(* do before or after: credentials that nobody wrote over are read back.   *)
(* (change_auth, from_file)                                                *)
THEOREM LoginIsReadBack == Spec => []LoginReadBack
  <1>1. ReadBackInv => LoginReadBack
    <2> SUFFICES ASSUME ReadBackInv, NEW p \in Procs,
                        pc[p] = "userInfo", ~ disturbed[p], data[p] \in Contents,
                        auth[p] \in Encodable
                 PROVE  /\ Parses(file) /\ AuthsIn(file) = {auth[p]}
                        /\ file.section = data[p].section /\ file.repos = data[p].repos
      BY DEF LoginReadBack
    <2>1. auth[p] \in Users /\ auth[p] # None
      BY ConfigurationAssumption
    <2>2. file = [data[p] EXCEPT !.auth = auth[p], !.username = FALSE, !.token = FALSE]
      BY DEF ReadBackInv, Undisturbed, WithAuth
    <2>3. /\ file \in Contents /\ file.auth = auth[p] /\ file.token = FALSE
          /\ file.section = data[p].section /\ file.repos = data[p].repos
      BY <2>1, <2>2 DEF Contents
    <2>4. Parses(file)
      BY <2>3 DEF Parses, Assigns
    <2>5. AuthsIn(file) = {auth[p]}
      BY <2>1, <2>3 DEF AuthsIn
    <2> QED BY <2>3, <2>4, <2>5
  <1> QED BY ReadBackInvariance, <1>1, PTL

(* And so is a repository, with the credentials as they were.              *)
(* (prepend_url, from_file)                                                *)
THEOREM AddedUrlIsReadBack == Spec => []AddedUrlReadBack
  <1>1. ReadBackInv => AddedUrlReadBack
    <2> SUFFICES ASSUME ReadBackInv, NEW p \in Procs,
                        pc[p] = "done", cmd[p] \in Urls, ~ disturbed[p],
                        data[p] \in Contents
                 PROVE  /\ file.repos = data[p].repos \cup {cmd[p]}
                        /\ AuthsIn(file) = AuthsIn(data[p])
      BY DEF AddedUrlReadBack
    <2>1. file = [data[p] EXCEPT !.repos = @ \cup {cmd[p]}]
      BY DEF ReadBackInv, Undisturbed, WithUrl
    <2>2. /\ file.repos = data[p].repos \cup {cmd[p]}
          /\ file.auth = data[p].auth /\ file.token = data[p].token
      BY <2>1 DEF Contents
    <2> QED BY <2>2 DEF AuthsIn
  <1> QED BY ReadBackInvariance, <1>1, PTL

-----------------------------------------------------------------------------
(* Reading a log that grows *)

(* A section as it is written: a header, and below it these lines. *)
IsText(text, body) ==
    /\ text \in Seq(Lines) /\ text # <<>> /\ text[1] = Header
    /\ \A i \in DOMAIN text \ {1} : text[i].op # "head"
    /\ body = {text[i] : i \in DOMAIN text \ {1}}

(* The section that a text adds to the end of a log. *)
Added(lines, body) ==
    [at |-> Len(lines) + 1, after |-> HeaderOf(lines, Len(lines)), text |-> body]

(* What is below what. *)
LEMMA Concatenated ==
    ASSUME NEW lines \in Seq(Lines), NEW text \in Seq(Lines)
    PROVE  /\ Len(lines) \in Nat /\ Len(text) \in Nat
           /\ DOMAIN lines = 1..Len(lines) /\ DOMAIN text = 1..Len(text)
           /\ lines \o text \in Seq(Lines)
           /\ Len(lines \o text) = Len(lines) + Len(text)
           /\ DOMAIN (lines \o text) = 1..(Len(lines) + Len(text))
           /\ \A i \in 1..Len(lines) : (lines \o text)[i] = lines[i]
           /\ \A i \in 1..Len(text) : (lines \o text)[Len(lines) + i] = text[i]
  OBVIOUS

(* The headers of the log stay where they are, and one is added. *)
LEMMA HeadersOfBoth ==
    ASSUME NEW lines \in Seq(Lines), NEW text, NEW body, IsText(text, body)
    PROVE  /\ Headers(lines \o text) = Headers(lines) \cup {Len(lines) + 1}
           /\ Headers(lines) \subseteq 1..Len(lines)
  <1> DEFINE n == Len(lines)
             all == lines \o text
  <1>1. text \in Seq(Lines) /\ 1 \in DOMAIN text
    BY DEF IsText
  <1>2. /\ n \in Nat /\ Len(text) \in Nat /\ DOMAIN lines = 1..n /\ DOMAIN text = 1..Len(text)
        /\ DOMAIN all = 1..(n + Len(text))
        /\ \A i \in 1..n : all[i] = lines[i]
        /\ \A i \in 1..Len(text) : all[n + i] = text[i]
    BY <1>1, Concatenated
  <1> HIDE DEF n, all
  <1>3. Headers(lines) \subseteq 1..n
    BY <1>2 DEF Headers
  <1>4. text[1].op = "head"
    BY DEF IsText, Header
  <1>5. ASSUME NEW i \in 1..(n + Len(text))
        PROVE  all[i].op = "head" <=> i \in Headers(lines) \cup {n + 1}
    <2>1. CASE i <= n
      BY <1>2, <2>1 DEF Headers
    <2>2. CASE i = n + 1
      BY <1>1, <1>2, <1>4, <2>2
    <2>3. CASE i > n + 1
      <3>1. i - n \in DOMAIN text \ {1} /\ i = n + (i - n)
        BY <1>2, <2>3
      <3>2. all[i] = text[i - n]
        BY <1>2, <3>1
      <3>3. all[i].op # "head"
        BY <3>1, <3>2 DEF IsText
      <3> QED
        BY <1>2, <1>3, <2>3, <3>3
    <2> QED
      BY <1>2, <2>1, <2>2, <2>3
  <1>6. n + 1 \in 1..(n + Len(text)) /\ 1..n \subseteq 1..(n + Len(text))
    BY <1>1, <1>2
  <1>7. Headers(all) = Headers(lines) \cup {n + 1}
    BY <1>2, <1>3, <1>5, <1>6 DEF Headers
  <1> QED
    BY <1>3, <1>7 DEF n, all

(* So each line stays in its section, and the new ones are in the new one. *)
LEMMA HeaderOfBoth ==
    ASSUME NEW lines \in Seq(Lines), NEW text, NEW body, IsText(text, body)
    PROVE  /\ \A i \in 0..Len(lines) : HeaderOf(lines \o text, i) = HeaderOf(lines, i)
           /\ \A i \in 1..Len(text) : HeaderOf(lines \o text, Len(lines) + i) = {Len(lines) + 1}
  <1> DEFINE n == Len(lines)
             H == Headers(lines)
  <1>1. Headers(lines \o text) = H \cup {n + 1} /\ H \subseteq 1..n /\ n \in Nat
    BY HeadersOfBoth
  <1>2. Len(text) \in Nat
    BY DEF IsText
  <1> HIDE DEF n, H
  <1>3. ASSUME NEW i \in 0..n PROVE HeaderOf(lines \o text, i) = HeaderOf(lines, i)
    <2>1. ~ n + 1 <= i
      BY <1>1
    <2> QED
      BY <1>1, <2>1 DEF HeaderOf, H
  <1>4. ASSUME NEW i \in 1..Len(text) PROVE HeaderOf(lines \o text, n + i) = {n + 1}
    <2> DEFINE line == n + i
    <2>1. n + 1 <= line
      BY <1>1, <1>2
    <2>2. \A h \in H : h <= n + 1 /\ ~ n + 1 <= h
      BY <1>1
    <2>3. n + 1 <= n + 1
      BY <1>1
    <2> HIDE DEF line
    <2>4. n + 1 \in HeaderOf(lines \o text, line)
      BY <1>1, <2>1, <2>2, <2>3 DEF HeaderOf
    <2>5. ASSUME NEW h \in HeaderOf(lines \o text, line) PROVE h = n + 1
      BY <1>1, <2>1, <2>2 DEF HeaderOf
    <2>6. HeaderOf(lines \o text, line) = {n + 1}
      BY <2>4, <2>5
    <2> QED
      BY <2>6 DEF line
  <1> QED
    BY <1>3, <1>4 DEF n

(* A line is in one section at most. *)
LEMMA OneHeader ==
    ASSUME NEW lines \in Seq(Lines), NEW i
    PROVE  /\ HeaderOf(lines, i) \subseteq Headers(lines)
           /\ Headers(lines) \subseteq DOMAIN lines
           /\ \A g, h \in HeaderOf(lines, i) : g = h
  <1>1. Headers(lines) \subseteq DOMAIN lines /\ DOMAIN lines \subseteq Nat
    BY DEF Headers
  <1>2. ASSUME NEW g \in HeaderOf(lines, i), NEW h \in HeaderOf(lines, i)
        PROVE  g = h
    <2>1. g \in Nat /\ h \in Nat /\ g <= h /\ h <= g
      BY <1>1 DEF HeaderOf
    <2> QED
      BY <2>1
  <1> QED
    BY <1>1, <1>2 DEF HeaderOf

(* The sections are those of the log and the new one. *)
LEMMA SectionsOfBoth ==
    ASSUME NEW lines \in Seq(Lines), NEW text, NEW body, IsText(text, body)
    PROVE  /\ Sections(lines \o text) = Sections(lines) \cup {Added(lines, body)}
           /\ Parseable(lines \o text) <=> Parseable(lines)
  <1> DEFINE n == Len(lines)
             m == Len(text)
             all == lines \o text
             H == Headers(lines)
  <1>1. text \in Seq(Lines) /\ 1 \in DOMAIN text
    BY DEF IsText
  <1>2. /\ n \in Nat /\ m \in Nat /\ DOMAIN lines = 1..n /\ DOMAIN text = 1..m
        /\ DOMAIN all = 1..(n + m)
        /\ \A i \in 1..n : all[i] = lines[i]
        /\ \A i \in 1..m : all[n + i] = text[i]
    BY <1>1, Concatenated
  <1>3. Headers(all) = H \cup {n + 1} /\ H \subseteq 1..n
    BY HeadersOfBoth
  <1>4. /\ \A i \in 0..n : HeaderOf(all, i) = HeaderOf(lines, i)
        /\ \A i \in 1..m : HeaderOf(all, n + i) = {n + 1}
    BY HeaderOfBoth
  <1>5. /\ Sections(lines) = {Section(lines, h) : h \in H}
        /\ Sections(all) = {Section(all, h) : h \in Headers(all)}
    BY DEF Sections
  <1>6. \A i \in 1..n : n + 1 \notin HeaderOf(lines, i)
    BY <1>2, <1>3 DEF HeaderOf
  <1> HIDE DEF n, m, all, H
  <1>7. \A i \in 1..(n + m) : i \in 1..n \/ \E k \in 1..m : i = n + k
    <2> SUFFICES ASSUME NEW i \in 1..(n + m), i \notin 1..n PROVE \E k \in 1..m : i = n + k
      OBVIOUS
    <2>1. i - n \in 1..m /\ i = n + (i - n)
      BY <1>2
    <2> QED
      BY <2>1
  <1>8. ASSUME NEW h \in H PROVE Section(all, h) = Section(lines, h)
    <2>1. h - 1 \in 0..n /\ h \in 1..n /\ h # n + 1
      BY <1>2, <1>3
    <2>2. \A i \in DOMAIN all : (i # h /\ h \in HeaderOf(all, i))
                                <=> (i \in 1..n /\ i # h /\ h \in HeaderOf(lines, i))
      <3> SUFFICES ASSUME NEW i \in DOMAIN all
                   PROVE  h \in HeaderOf(all, i) <=> i \in 1..n /\ h \in HeaderOf(lines, i)
        OBVIOUS
      <3>1. CASE i \in 1..n
        BY <1>2, <1>4, <3>1
      <3>2. CASE i \notin 1..n
        <4>1. HeaderOf(all, i) = {n + 1}
          BY <1>2, <1>4, <1>7, <3>2
        <4> QED
          BY <2>1, <3>2, <4>1
      <3> QED
        BY <3>1, <3>2
    <2>3. 1..n \subseteq DOMAIN all
      BY <1>2
    <2>4. Below(all, h) = Below(lines, h)
      BY <1>2, <2>2, <2>3 DEF Below
    <2>5. HeaderOf(all, h - 1) = HeaderOf(lines, h - 1)
      BY <1>4, <2>1
    <2> QED
      BY <2>4, <2>5 DEF Section
  <1>9. Section(all, n + 1) = Added(lines, body)
    <2>1. n \in 0..n
      BY <1>2
    <2>3. \A i \in DOMAIN all : i # n + 1 /\ n + 1 \in HeaderOf(all, i)
                                <=> \E k \in 1..m : k # 1 /\ i = n + k
      <3> SUFFICES ASSUME NEW i \in DOMAIN all
                   PROVE  i # n + 1 /\ n + 1 \in HeaderOf(all, i)
                          <=> \E k \in 1..m : k # 1 /\ i = n + k
        OBVIOUS
      <3>1. CASE i \in 1..n
        BY <1>2, <1>4, <1>6, <3>1
      <3>2. ASSUME NEW k \in 1..m, i = n + k
            PROVE  i # n + 1 /\ n + 1 \in HeaderOf(all, i)
                   <=> \E l \in 1..m : l # 1 /\ i = n + l
        <4>1. n + 1 \in HeaderOf(all, i)
          BY <1>4, <3>2
        <4>2. \A l \in 1..m : i = n + l <=> l = k
          BY <1>2, <3>2
        <4>3. i # n + 1 <=> k # 1
          BY <1>2, <3>2
        <4> QED
          BY <4>1, <4>2, <4>3
      <3> QED
        BY <1>2, <1>7, <3>1, <3>2
    <2>4. \A k \in 1..m : n + k \in DOMAIN all
      BY <1>2
    <2>5. Below(all, n + 1) = {text[k] : k \in DOMAIN text \ {1}}
      <3>1. ASSUME NEW i \in DOMAIN all, i # n + 1, n + 1 \in HeaderOf(all, i)
            PROVE  all[i] \in {text[k] : k \in DOMAIN text \ {1}}
        <4>1. PICK k \in 1..m : k # 1 /\ i = n + k
          BY <2>3, <3>1
        <4> QED
          BY <1>2, <4>1
      <3>2. ASSUME NEW k \in DOMAIN text \ {1}
            PROVE  text[k] \in Below(all, n + 1)
        <4>1. n + k \in DOMAIN all /\ all[n + k] = text[k]
          BY <1>2, <2>4
        <4>2. n + k # n + 1 /\ n + 1 \in HeaderOf(all, n + k)
          BY <1>2, <2>3, <2>4
        <4> QED
          BY <4>1, <4>2 DEF Below
      <3> QED
        BY <3>1, <3>2 DEF Below
    <2>6. body = {text[k] : k \in DOMAIN text \ {1}}
      BY DEF IsText
    <2>7. Section(all, n + 1) = [at |-> n + 1, after |-> HeaderOf(lines, n), text |-> body]
      <3>1. Below(all, n + 1) = body
        BY <2>5, <2>6
      <3>2. PICK h : h = n + 1
        OBVIOUS
      <3>3. Section(all, h) = [at |-> h, after |-> HeaderOf(all, h - 1), text |-> Below(all, h)]
        BY DEF Section
      <3>4. h - 1 = n
        BY <1>2, <3>2
      <3>5. HeaderOf(all, h - 1) = HeaderOf(lines, n)
        BY <1>4, <2>1, <3>4
      <3> QED
        BY <3>1, <3>2, <3>3, <3>5
    <2> QED
      BY <2>7 DEF Added, n
  <1>10. Sections(all) = Sections(lines) \cup {Added(lines, body)}
    BY <1>3, <1>5, <1>8, <1>9
  <1>11. Parseable(all) <=> Parseable(lines)
    <2>1. \A i \in DOMAIN all : HeaderOf(all, i) # {} <=> i \notin 1..n \/ HeaderOf(lines, i) # {}
      <3> SUFFICES ASSUME NEW i \in DOMAIN all
                   PROVE  HeaderOf(all, i) # {} <=> i \notin 1..n \/ HeaderOf(lines, i) # {}
        OBVIOUS
      <3>1. CASE i \in 1..n
        BY <1>2, <1>4, <3>1
      <3>2. CASE i \notin 1..n
        <4>1. HeaderOf(all, i) = {n + 1}
          BY <1>2, <1>4, <1>7, <3>2
        <4> QED
          BY <3>2, <4>1
      <3> QED
        BY <3>1, <3>2
    <2>2. 1..n \subseteq DOMAIN all
      BY <1>2
    <2> QED
      BY <1>2, <2>1, <2>2 DEF Parseable
  <1> QED
    BY <1>10, <1>11 DEF all

(* A log that can be read in one way only. *)
IsHistory(list, lines) == list \in States(lines) /\ States(lines) = {list}
Readable(lines) == \E list : IsHistory(list, lines)

(* The revisions of a list, and others that are made of lines below n.     *)
Prolongs(longer, list, n) ==
    /\ DOMAIN list = {h \in DOMAIN longer : h <= n}
    /\ \A h \in DOMAIN list : longer[h] = list[h]

(* What a section with that body makes of the latest state.                *)
Becomes(lines, list, body, s) ==
    \E state : /\ Before(list, HeaderOf(lines, Len(lines))) = {state}
               /\ Apply(state, body) = {s}

(* What can be read of it is one state, unless it is empty. *)
LEMMA ReadableState ==
    ASSUME NEW lines \in Seq(Lines), Readable(lines)
    PROVE  /\ lines # <<>> => Error \notin GetState(lines)
           /\ \A s, t \in GetState(lines) : s = t
           /\ lines # <<>> => GetState(lines) \subseteq SUBSET Names
  <1>1. PICK list : list \in [Headers(lines) -> SUBSET Names] /\ States(lines) = {list}
    BY DEF Readable, IsHistory, States
  <1>2. Parseable(lines)
    BY <1>1 DEF States
  <1>3. lines # <<>> => HeaderOf(lines, Len(lines)) # {}
    BY <1>2 DEF Parseable
  <1>4. /\ HeaderOf(lines, Len(lines)) \subseteq Headers(lines)
        /\ \A g, h \in HeaderOf(lines, Len(lines)) : g = h
    BY OneHeader
  <1>5. \A s \in GetState(lines) :
            IF HeaderOf(lines, Len(lines)) = {} THEN s = Error
            ELSE \E h \in HeaderOf(lines, Len(lines)) : s = list[h]
    BY <1>1 DEF GetState
  <1>6. \A h \in HeaderOf(lines, Len(lines)) : list[h] \in SUBSET Names
    BY <1>1, <1>4
  <1> QED
    BY <1>3, <1>4, <1>5, <1>6, HistoryAssumption

(* A section that has one meaning adds one revision, and changes no other. *)
LEMMA SectionAdded ==
    ASSUME NEW lines \in Seq(Lines), NEW text, NEW body, IsText(text, body),
           NEW list, IsHistory(list, lines),
           NEW s \in SUBSET Names, Becomes(lines, list, body, s)
    PROVE  /\ GetState(lines \o text) = {s}
           /\ \E longer :
                IsHistory(longer, lines \o text) /\ Prolongs(longer, list, Len(lines))
  <1> DEFINE n == Len(lines)
             new == n + 1
             all == lines \o text
             H == Headers(lines)
             longer == [h \in H \cup {new} |-> IF h = new THEN s ELSE list[h]]
  <1> PICK state : /\ Before(list, HeaderOf(lines, Len(lines))) = {state}
                   /\ Apply(state, body) = {s}
    BY DEF Becomes
  <1>0. list \in States(lines) /\ States(lines) = {list}
    BY DEF IsHistory
  <1>1. /\ Headers(all) = H \cup {new} /\ H \subseteq 1..n
    BY HeadersOfBoth
  <1>2. n \in Nat
    OBVIOUS
  <1>3. Sections(all) = Sections(lines) \cup {Added(lines, body)} /\ Parseable(all) /\ Parseable(lines)
    BY <1>0, SectionsOfBoth DEF States
  <1>4. /\ list \in [H -> SUBSET Names]
        /\ \A sec \in Sections(lines) :
                \E st \in Before(list, sec.after) : list[sec.at] \in Apply(st, sec.text)
    BY <1>0 DEF States
  <1>5. \A sec \in Sections(lines) : sec.at \in H /\ sec.after \subseteq H
    <2>1. \A h : Section(lines, h).at = h /\ Section(lines, h).after = HeaderOf(lines, h - 1)
      BY DEF Section
    <2> QED
      BY <2>1, OneHeader DEF Sections
  <1>6. /\ Added(lines, body).at = new /\ Added(lines, body).after = HeaderOf(lines, n)
        /\ Added(lines, body).text = body /\ HeaderOf(lines, n) \subseteq H
    BY OneHeader DEF Added
  <1>7. new \notin H
    BY <1>1, <1>2
  <1>8. ASSUME NEW f, NEW g, NEW after \in SUBSET H, \A h \in H : f[h] = g[h]
        PROVE  Before(f, after) = Before(g, after)
    BY <1>8 DEF Before
  <1>9. HeaderOf(all, Len(all)) = {new}
    <2>1. Len(text) \in Nat /\ Len(text) # 0 /\ Len(all) = n + Len(text)
      BY Concatenated DEF IsText
    <2>2. Len(text) \in 1..Len(text)
      BY <2>1
    <2> QED
      BY <2>1, <2>2, HeaderOfBoth
  <1> HIDE DEF n, new, all, H
  <1>10. /\ longer \in [H \cup {new} -> SUBSET Names] /\ longer[new] = s
         /\ \A h \in H : longer[h] = list[h]
    BY <1>4, <1>7
  <1> HIDE DEF longer
  <1>11. longer \in States(all)
    <2>1. ASSUME NEW sec \in Sections(all)
          PROVE  \E st \in Before(longer, sec.after) : longer[sec.at] \in Apply(st, sec.text)
      <3>1. CASE sec \in Sections(lines)
        BY <1>4, <1>5, <1>8, <1>10, <3>1
      <3>2. CASE sec = Added(lines, body)
        <4>1. Before(longer, HeaderOf(lines, n)) = {state}
          BY <1>6, <1>8, <1>10 DEF n
        <4> QED
          BY <1>6, <1>10, <3>2, <4>1
      <3> QED
        BY <1>3, <3>1, <3>2
    <2> QED
      BY <1>1, <1>3, <1>10, <2>1 DEF States
  <1>12. ASSUME NEW f \in States(all) PROVE f = longer
    <2>1. /\ f \in [H \cup {new} -> SUBSET Names]
          /\ \A sec \in Sections(all) :
                \E st \in Before(f, sec.after) : f[sec.at] \in Apply(st, sec.text)
      BY <1>1 DEF States
    <2> DEFINE g == [h \in H |-> f[h]]
    <2>2. g \in [H -> SUBSET Names] /\ \A h \in H : g[h] = f[h]
      BY <2>1
    <2> HIDE DEF g
    <2>3. \A sec \in Sections(lines) :
                \E st \in Before(g, sec.after) : g[sec.at] \in Apply(st, sec.text)
      BY <1>3, <1>5, <1>8, <2>1, <2>2
    <2>4. g \in States(lines)
      BY <1>3, <2>2, <2>3 DEF States, H
    <2>5. \A h \in H : f[h] = list[h]
      BY <1>0, <2>2, <2>4
    <2>6. Before(f, HeaderOf(lines, n)) = {state}
      BY <1>6, <1>8, <2>5 DEF n
    <2>7. f[new] = s
      BY <1>3, <1>6, <2>1, <2>6
    <2> QED
      BY <1>10, <2>1, <2>5, <2>7
  <1>13. States(all) = {longer}
    BY <1>11, <1>12
  <1>14. GetState(all) = {s}
    BY <1>9, <1>10, <1>13 DEF GetState
  <1>15. H = {h \in H \cup {new} : h <= n}
    <2>1. ~ new <= n
      BY <1>2 DEF new
    <2>2. \A h \in H : h <= n
      BY <1>1, <1>2
    <2> QED
      BY <2>1, <2>2
  <1>16. DOMAIN list = H /\ DOMAIN longer = H \cup {new}
    BY <1>4, <1>10
  <1> QED
    BY <1>10, <1>11, <1>13, <1>14, <1>15, <1>16 DEF IsHistory, Prolongs, n, all

-----------------------------------------------------------------------------
(* Writing *)

(* The lines of a text that says from what to what the installed eggs have *)
(* changed.                                                                *)
Changed(from, to) == LinesOf("del", from \ to) \cup LinesOf("add", to \ from)
IsPart(body, from, to) == body \subseteq Changed(from, to)

(* The lines that are made of names are finitely many. *)
LEMMA LinesAreFinite ==
    ASSUME NEW eggs \in SUBSET Names, NEW op
    PROVE  IsFiniteSet(LinesOf(op, eggs))
  <1> DEFINE f == [e \in eggs |-> Line(op, e)]
  <1>0. IsFiniteSet(Names)
    BY HistoryAssumption, FS_AddElement DEF Names
  <1>1. IsFiniteSet(eggs)
    BY <1>0, FS_Subset
  <1>2. f \in Surjection(eggs, LinesOf(op, eggs))
    BY DEF Surjection, LinesOf
  <1> QED
    BY <1>1, <1>2, FS_Surjection

(* A set in any order. *)
LEMMA AnyOrder ==
    ASSUME NEW S, IsFiniteSet(S), NEW seq \in SetToSeqs(S)
    PROVE  seq \in Seq(S) /\ S = {seq[i] : i \in DOMAIN seq}
  <1> DEFINE n == Cardinality(S)
  <1>1. n \in Nat /\ IsFiniteSet(1..n) /\ Cardinality(1..n) = n
    <2>1. n \in Nat
      BY FS_CardinalityType
    <2> QED
      BY <2>1, FS_Interval
  <1>2. seq \in [1..n -> S] /\ \A i, j \in 1..n : i # j => seq[i] # seq[j]
    BY DEF SetToSeqs
  <1>3. seq \in Injection(1..n, S)
    BY <1>2 DEF Injection, IsInjective
  <1>4. seq \in Surjection(1..n, S)
    BY <1>1, <1>3, FS_Injection
  <1> QED
    BY <1>1, <1>2, <1>4 DEF Surjection

(* A header and lines that are none. *)
LEMMA HeaderAndLines ==
    ASSUME NEW S \in SUBSET (Lines \ {Header}), NEW seq \in Seq(S), S = {seq[i] : i \in DOMAIN seq}
    PROVE  IsText(<<Header>> \o seq, S)
  <1> DEFINE n == Len(seq)
             text == <<Header>> \o seq
  <1>1. n \in Nat /\ DOMAIN seq = 1..n /\ seq \in Seq(Lines) /\ <<Header>> \in Seq(Lines)
    BY DEF Lines
  <1>2. /\ text \in Seq(Lines) /\ text # <<>> /\ text[1] = Header /\ DOMAIN text = 1..(n + 1)
        /\ \A i \in 1..n : text[i + 1] = seq[i]
    BY <1>1
  <1>3. \A i \in DOMAIN text \ {1} : i - 1 \in DOMAIN seq /\ text[i] = seq[i - 1]
    <2> SUFFICES ASSUME NEW i \in DOMAIN text \ {1}
                 PROVE  i - 1 \in DOMAIN seq /\ text[i] = seq[i - 1]
      OBVIOUS
    <2>1. i - 1 \in 1..n /\ i = (i - 1) + 1
      BY <1>1, <1>2
    <2> QED
      BY <1>1, <1>2, <2>1
  <1>4. \A i \in DOMAIN seq : i + 1 \in DOMAIN text \ {1} /\ text[i + 1] = seq[i]
    BY <1>1, <1>2
  <1> HIDE DEF text, n
  <1>5. S = {text[i] : i \in DOMAIN text \ {1}}
    BY <1>3, <1>4
  <1>6. \A line \in S : line.op # "head"
    BY DEF Lines, Header, PartOfHeader, Line
  <1> QED
    BY <1>2, <1>3, <1>5, <1>6 DEF IsText, text

(* What _write_egg_names writes. *)
LEMMA NamesAreText ==
    ASSUME NEW eggs \in SUBSET Names, NEW text \in NamesText(eggs)
    PROVE  IsText(text, LinesOf("name", eggs))
  <1>1. IsFiniteSet(LinesOf("name", eggs))
    BY LinesAreFinite
  <1>2. PICK seq \in SetToSeqs(LinesOf("name", eggs)) : text = <<Header>> \o seq
    BY DEF NamesText
  <1>3. LinesOf("name", eggs) \in SUBSET (Lines \ {Header})
    BY DEF LinesOf, Line, Lines, Header
  <1> QED
    BY <1>1, <1>2, <1>3, AnyOrder, HeaderAndLines

(* What _write_changes writes. *)
LEMMA ChangesAreText ==
    ASSUME NEW from \in SUBSET Names, NEW to \in SUBSET Names, NEW text \in ChangesText(from, to)
    PROVE  IsText(text, Changed(from, to))
  <1> DEFINE D == LinesOf("del", from \ to)
             A == LinesOf("add", to \ from)
  <1>1. IsFiniteSet(D) /\ IsFiniteSet(A)
    BY LinesAreFinite
  <1>2. PICK d \in SetToSeqs(D), a \in SetToSeqs(A) : text = <<Header>> \o d \o a
    BY DEF ChangesText
  <1>3. D \in SUBSET (Lines \ {Header}) /\ A \in SUBSET (Lines \ {Header})
    BY DEF LinesOf, Line, Lines, Header
  <1> HIDE DEF D, A
  <1>4. /\ d \in Seq(D) /\ D = {d[i] : i \in DOMAIN d}
        /\ a \in Seq(A) /\ A = {a[i] : i \in DOMAIN a}
    BY <1>1, AnyOrder
  <1>5. d \o a \in Seq(D \cup A) /\ D \cup A = {(d \o a)[i] : i \in DOMAIN (d \o a)}
    <2>1. d \in Seq(D \cup A) /\ a \in Seq(D \cup A)
      BY <1>4
    <2>2. /\ DOMAIN d = 1..Len(d) /\ DOMAIN a = 1..Len(a) /\ Len(d) \in Nat /\ Len(a) \in Nat
          /\ DOMAIN (d \o a) = 1..(Len(d) + Len(a))
          /\ \A i \in 1..Len(d) : (d \o a)[i] = d[i]
          /\ \A i \in 1..Len(a) : (d \o a)[Len(d) + i] = a[i]
      BY <2>1
    <2>3. d \o a \in Seq(D \cup A)
      BY <2>1
    <2>4. \A i \in 1..Len(d) : i \in DOMAIN (d \o a)
      BY <2>2
    <2>5. \A i \in 1..Len(a) : Len(d) + i \in DOMAIN (d \o a)
      BY <2>2
    <2>6. \A x \in D \cup A : \E i \in DOMAIN (d \o a) : (d \o a)[i] = x
      BY <1>4, <2>2, <2>4, <2>5
    <2>7. \A i \in DOMAIN (d \o a) : (d \o a)[i] \in D \cup A
      BY <2>3
    <2> QED
      BY <2>3, <2>6, <2>7
  <1>6. <<Header>> \o d \o a = <<Header>> \o (d \o a)
    <2>1. <<Header>> \in Seq(Lines)
      BY DEF Lines
    <2>2. D \subseteq Lines /\ A \subseteq Lines
      BY <1>3
    <2>3. d \in Seq(Lines) /\ a \in Seq(Lines)
      BY <1>4, <2>2
    <2> QED
      BY <2>1, <2>3
  <1>7. IsText(<<Header>> \o (d \o a), D \cup A)
    BY <1>3, <1>5, HeaderAndLines
  <1> QED
    BY <1>2, <1>6, <1>7 DEF Changed, D, A

(* What a writer that is stopped has written: nothing, or a section too. *)
LEMMA PartIsText ==
    ASSUME NEW text, NEW body, IsText(text, body), NEW part \in WholeLines(text)
    PROVE  part = <<>> \/ \E b \in SUBSET body : IsText(part, b)
  <1>1. PICK i \in 0..(Len(text) - 1) : part = SubSeq(text, 1, i)
    BY DEF WholeLines
  <1>2. text \in Seq(Lines) /\ Len(text) \in Nat /\ DOMAIN text = 1..Len(text)
    BY DEF IsText
  <1>3. /\ part \in Seq(Lines) /\ Len(part) = i /\ DOMAIN part = 1..i
        /\ \A j \in 1..i : part[j] = text[j]
    BY <1>1, <1>2
  <1>4. 1..i \subseteq DOMAIN text
    BY <1>2
  <1>5. CASE i = 0
    BY <1>3, <1>5
  <1>6. CASE i # 0
    <2>1. part # <<>> /\ 1 \in 1..i
      BY <1>3, <1>6
    <2>2. IsText(part, {part[j] : j \in DOMAIN part \ {1}})
      BY <1>3, <1>4, <2>1 DEF IsText
    <2>3. {part[j] : j \in DOMAIN part \ {1}} \in SUBSET body
      BY <1>3, <1>4 DEF IsText
    <2> QED
      BY <2>2, <2>3
  <1> QED
    BY <1>5, <1>6

-----------------------------------------------------------------------------
(* What is read of what was written *)

(* A section of names is a state, whatever was before. *)
LEMMA NamesApplied ==
    ASSUME NEW body \in SUBSET LinesOf("name", Names), NEW state
    PROVE  \E s \in SUBSET Names : Apply(state, body) = {s}
  <1>1. \A line \in body : line.op = "name" /\ line.egg \in Names
    BY DEF LinesOf, Line
  <1> QED
    BY <1>1 DEF Apply, IsDiff, NamesIn, EggsIn

(* Changes, also a part of them, are added to a state and removed from it, *)
(* or they are none.                                                       *)
LEMMA ChangesApplied ==
    ASSUME NEW from \in SUBSET Names, NEW to \in SUBSET Names,
           NEW body, IsPart(body, from, to), NEW state \in SUBSET Names
    PROVE  /\ EggsIn(body, "add") \subseteq to \ from
           /\ EggsIn(body, "del") \subseteq from \ to
           /\ IsDiff(body) => Apply(state, body) =
                {(state \ EggsIn(body, "del")) \cup EggsIn(body, "add")}
           /\ ~ IsDiff(body) => Apply(state, body) = {{}}
  <1> DEFINE added == EggsIn(body, "add")
             removed == EggsIn(body, "del")
  <1>1. \A line \in body : \/ line.op = "del" /\ line.egg \in from \ to
                           \/ line.op = "add" /\ line.egg \in to \ from
    BY DEF IsPart, Changed, LinesOf, Line
  <1>2. added \subseteq to \ from /\ removed \subseteq from \ to
    BY <1>1 DEF EggsIn
  <1>3. NamesIn(body) = {}
    BY <1>1 DEF NamesIn, EggsIn
  <1>4. state # Error
    BY HistoryAssumption
  <1>5. IsDiff(body) => Apply(state, body) = {(state \ removed) \cup added}
    <2>1. added \cap removed = {}
      BY <1>2
    <2> QED
      BY <1>3, <1>4, <2>1 DEF Apply
  <1>6. ~ IsDiff(body) => Apply(state, body) = {{}}
    BY <1>3 DEF Apply
  <1> QED
    BY <1>2, <1>5, <1>6

(* They make one state of a state. *)
LEMMA PartApplied ==
    ASSUME NEW from \in SUBSET Names, NEW to \in SUBSET Names,
           NEW body, IsPart(body, from, to), NEW state \in SUBSET Names
    PROVE  \E s \in SUBSET Names : Apply(state, body) = {s}
  <1> DEFINE s == (state \ EggsIn(body, "del")) \cup EggsIn(body, "add")
  <1>1. /\ EggsIn(body, "add") \subseteq to \ from
        /\ IsDiff(body) => Apply(state, body) = {s}
        /\ ~ IsDiff(body) => Apply(state, body) = {{}}
    BY ChangesApplied
  <1>2. s \in SUBSET Names
    BY <1>1
  <1> HIDE DEF s
  <1> QED
    BY <1>1, <1>2

(* All of them make of the state they are relative to the one they are for. *)
LEMMA AllApplied ==
    ASSUME NEW from \in SUBSET Names, NEW to \in SUBSET Names, from # to
    PROVE  Apply(from, Changed(from, to)) = {to}
  <1> DEFINE body == Changed(from, to)
             added == EggsIn(body, "add")
             removed == EggsIn(body, "del")
  <1>1. /\ added \subseteq to \ from /\ removed \subseteq from \ to
        /\ IsDiff(body) => Apply(from, body) = {(from \ removed) \cup added}
    <2>1. IsPart(body, from, to)
      BY DEF IsPart
    <2> HIDE DEF body
    <2> QED
      BY <2>1, ChangesApplied
  <1>2. to \ from \subseteq added
    <2>1. \A e \in to \ from : Line("add", e) \in body /\ Line("add", e).op = "add"
                               /\ Line("add", e).egg = e
      BY DEF Changed, LinesOf, Line
    <2> QED
      BY <2>1 DEF EggsIn
  <1>3. from \ to \subseteq removed
    <2>1. \A e \in from \ to : Line("del", e) \in body /\ Line("del", e).op = "del"
                               /\ Line("del", e).egg = e
      BY DEF Changed, LinesOf, Line
    <2> QED
      BY <2>1 DEF EggsIn
  <1>4. added # {} \/ removed # {}
    BY <1>2, <1>3
  <1>5. IsDiff(body)
    BY <1>4 DEF EggsIn, IsDiff
  <1>6. (from \ removed) \cup added = to
    BY <1>1, <1>2, <1>3
  <1> QED
    BY <1>1, <1>5, <1>6

-----------------------------------------------------------------------------
(* The invariant *)

LogTypeOK ==
    /\ installed \in SUBSET Names
    /\ log = NoLog \/ log \in Seq(Lines)
    /\ ended = TRUE
    /\ pc \in [Procs -> {"idle", "create", "read", "scan", "append", "done", "raised"}]
    /\ last \in [Procs -> SUBSET Names] /\ curr \in [Procs -> SUBSET Names]
    /\ disturbed \in [Procs -> BOOLEAN]

(* What a process that has come this far knows of the log.                 *)
Reads(p) ==
    /\ pc[p] = "create" => log = <<>> /\ \A q \in Procs : pc[q] = "create" => q = p
    /\ pc[p] = "read" => log # NoLog
    /\ pc[p] \in {"scan", "append", "done"} => log # NoLog /\ log # <<>>
    /\ pc[p] = "append" => last[p] # curr[p]
    /\ pc[p] \in {"scan", "append"} /\ ~ disturbed[p] => GetState(log) = {last[p]}
    /\ pc[p] = "done" /\ ~ disturbed[p] => GetState(log) = {curr[p]}

LogInv ==
    /\ LogTypeOK
    /\ log # NoLog => Readable(log)
    /\ \A p \in Procs : Reads(p)

(* What a step may do to the revisions that are in the log.                *)
Extends ==
    log # NoLog =>
        \A list \in States(log) : \E longer \in States(log') :
            Prolongs(longer, list, Len(log))

(* An empty log, which is there once it is opened. *)
LEMMA EmptyLog ==
    /\ <<>> \in Seq(Lines) /\ <<>> # NoLog
    /\ Readable(<<>>) /\ Headers(<<>>) = {} /\ HeaderOf(<<>>, 0) = {}
  <1>1. <<>> \in Seq(Lines) /\ DOMAIN <<>> = {}
    OBVIOUS
  <1>2. Headers(<<>>) = {} /\ Sections(<<>>) = {} /\ Parseable(<<>>)
    BY <1>1 DEF Headers, Sections, Parseable
  <1> DEFINE none == [h \in {} |-> {}]
  <1>3. none \in [{} -> SUBSET Names] /\ \A f \in [{} -> SUBSET Names] : f = none
    OBVIOUS
  <1>4. States(<<>>) = {none}
    BY <1>2, <1>3 DEF States
  <1>5. HeaderOf(<<>>, 0) = {}
    BY <1>2 DEF HeaderOf
  <1> QED
    BY <1>1, <1>2, <1>4, <1>5, HistoryAssumption DEF Readable, IsHistory

(* It holds of each log that the model starts with. *)
LEMMA InitLogInv == LogInit => LogInv
  <1> SUFFICES ASSUME LogInit PROVE LogInv
    OBVIOUS
  <1>1. LogTypeOK
    BY HistoryAssumption DEF LogInit, LogTypeOK, Names
  <1>2. log # NoLog => Readable(log)
    BY HistoryAssumption DEF LogInit, Readable, IsHistory
  <1>3. \A p \in Procs : Reads(p)
    BY DEF LogInit, Reads
  <1> QED
    BY <1>1, <1>2, <1>3 DEF LogInv

(* A section of changes, or a part of it, is appended. *)
LEMMA ChangesAppended ==
    ASSUME NEW lines \in Seq(Lines), Readable(lines), lines # <<>>,
           NEW from \in SUBSET Names, NEW to \in SUBSET Names,
           NEW text, NEW body, IsPart(body, from, to), IsText(text, body)
    PROVE  /\ \A list \in States(lines) : \E longer \in States(lines \o text) :
                Prolongs(longer, list, Len(lines))
           /\ Readable(lines \o text)
           /\ \/ GetState(lines \o text) = {to}
              \/ from = to \/ body # Changed(from, to) \/ GetState(lines) # {from}
  <1>1. PICK list : IsHistory(list, lines)
    BY DEF Readable
  <1>2. list \in [Headers(lines) -> SUBSET Names] /\ Parseable(lines) /\ States(lines) = {list}
    BY <1>1 DEF IsHistory, States
  <1>3. PICK latest : HeaderOf(lines, Len(lines)) = {latest} /\ latest \in Headers(lines)
    <2>1. HeaderOf(lines, Len(lines)) # {}
      BY <1>2 DEF Parseable
    <2> QED
      BY <2>1, OneHeader
  <1> DEFINE state == list[latest]
  <1>4. state \in SUBSET Names /\ Before(list, HeaderOf(lines, Len(lines))) = {state}
    BY <1>2, <1>3 DEF Before
  <1>5. GetState(lines) = {state}
    BY <1>2, <1>3 DEF GetState
  <1> HIDE DEF state
  <1>6. PICK s \in SUBSET Names : Apply(state, body) = {s}
    BY <1>4, PartApplied
  <1>7. body = Changed(from, to) /\ from # to /\ GetState(lines) = {from} => s = to
    <2> SUFFICES ASSUME body = Changed(from, to), from # to, state = from PROVE s = to
      BY <1>5
    <2>1. Apply(from, Changed(from, to)) = {to}
      BY AllApplied
    <2> QED
      BY <1>6, <2>1
  <1>8. Becomes(lines, list, body, s)
    BY <1>4, <1>6 DEF Becomes
  <1>9. /\ GetState(lines \o text) = {s}
        /\ \E longer :
                IsHistory(longer, lines \o text) /\ Prolongs(longer, list, Len(lines))
    BY <1>1, <1>8, SectionAdded
  <1> QED
    BY <1>2, <1>7, <1>9 DEF Readable, IsHistory

(* A first section of names, or of some of them, is written. *)
LEMMA NamesWritten ==
    ASSUME NEW text, NEW body \in SUBSET LinesOf("name", Names), IsText(text, body)
    PROVE  text \in Seq(Lines) /\ text # <<>> /\ Readable(text)
  <1> DEFINE empty == <<>>
  <1>1. text \in Seq(Lines) /\ text # <<>> /\ text = empty \o text
    BY DEF IsText
  <1>2. PICK list : IsHistory(list, empty)
    BY EmptyLog DEF Readable
  <1>3. empty \in Seq(Lines) /\ Before(list, HeaderOf(empty, Len(empty))) = {Error}
    <2>1. Len(empty) = 0
      OBVIOUS
    <2> QED
      BY <2>1, EmptyLog DEF Before
  <1>4. PICK s \in SUBSET Names : Apply(Error, body) = {s}
    BY NamesApplied
  <1> HIDE DEF empty
  <1>5. Becomes(empty, list, body, s)
    BY <1>3, <1>4 DEF Becomes
  <1>6. \E longer : IsHistory(longer, empty \o text)
    BY <1>2, <1>3, <1>5, SectionAdded
  <1> QED
    BY <1>1, <1>6 DEF Readable

-----------------------------------------------------------------------------
(* The steps *)

(* p alone moves on, reading or writing. *)
OthersSame(p) == \A q \in Procs \ {p} : last'[q] = last[q] /\ curr'[q] = curr[q]

(* What p writes disturbs all others. *)
LEMMA OthersDisturbed ==
    ASSUME LogInv, NEW p \in Procs, NEW step, GoTo(p, step), Disturb(p),
           log' # NoLog, log' = <<>> => log = NoLog \/ log = <<>>,
           OthersSame(p), \A q \in Procs \ {p} : pc[q] # "create"
    PROVE  \A q \in Procs \ {p} : Reads(q)'
  <1> SUFFICES ASSUME NEW q \in Procs \ {p} PROVE Reads(q)'
    OBVIOUS
  <1>1. /\ pc'[q] = pc[q] /\ disturbed'[q] /\ pc[q] # "create"
        /\ last'[q] = last[q] /\ curr'[q] = curr[q]
    BY DEF LogInv, LogTypeOK, GoTo, Disturb, OthersSame
  <1>2. CASE pc[q] \in {"scan", "append", "done"}
    <2>1. log' # <<>> /\ (pc[q] = "append" => last[q] # curr[q])
      BY <1>2 DEF LogInv, Reads
    <2> QED
      BY <1>1, <1>2, <2>1 DEF Reads
  <1>3. CASE pc[q] \notin {"scan", "append", "done"}
    BY <1>1, <1>3 DEF LogInv, Reads
  <1> QED
    BY <1>2, <1>3

(* What p only reads leaves the others as they are. *)
LEMMA OthersKeep ==
    ASSUME LogInv, NEW p \in Procs, NEW step, GoTo(p, step), step # "create", log' = log,
           OthersSame(p), \A q \in Procs \ {p} : disturbed'[q] = disturbed[q]
    PROVE  \A q \in Procs \ {p} : Reads(q)'
  <1> SUFFICES ASSUME NEW q \in Procs \ {p} PROVE Reads(q)'
    OBVIOUS
  <1>1. /\ pc'[q] = pc[q] /\ disturbed'[q] = disturbed[q] /\ last'[q] = last[q] /\ curr'[q] = curr[q]
        /\ \A r \in Procs : pc'[r] = "create" => pc[r] = "create"
    BY DEF LogInv, LogTypeOK, GoTo, OthersSame
  <1>2. Reads(q)
    BY DEF LogInv
  <1> QED
    BY <1>1, <1>2 DEF Reads

(* No revision changes in a log that stays the same. *)
LEMMA SameLog ==
    ASSUME LogInv, log' = log
    PROVE  Extends
  <1>1. ASSUME log # NoLog, NEW list \in States(log)
        PROVE  Prolongs(list, list, Len(log))
    <2>1. log \in Seq(Lines) /\ DOMAIN list = Headers(log)
      BY <1>1 DEF LogInv, LogTypeOK, States
    <2>2. \A h \in Headers(log) : h <= Len(log)
      BY <2>1 DEF Headers
    <2> QED
      BY <2>1, <2>2 DEF Prolongs
  <1> QED
    BY <1>1 DEF Extends

(* Each step keeps the invariant, and the revisions that are in the log.   *)
LEMMA StartInv ==
    ASSUME LogInv, NEW p \in Procs, Start(p) PROVE LogInv' /\ Extends
  <1>1. LogTypeOK'
    BY EmptyLog DEF LogInv, LogTypeOK, Start, GoTo, Disturb
  <1>2. CASE log = NoLog
    <2>1. log' = <<>> /\ GoTo(p, "create") /\ Disturb(p) /\ UNCHANGED <<last, curr>>
      BY <1>2 DEF Start
    <2>2. \A q \in Procs : pc[q] # "create"
      BY <1>2, EmptyLog DEF LogInv, Reads
    <2>3. \A q \in Procs \ {p} : Reads(q)'
      BY <1>2, <2>1, <2>2, EmptyLog, OthersDisturbed DEF OthersSame
    <2>4. pc'[p] = "create" /\ \A q \in Procs \ {p} : pc'[q] # "create"
      BY <2>1, <2>2 DEF LogInv, LogTypeOK, GoTo
    <2>5. Reads(p)'
      BY <2>1, <2>4 DEF Reads
    <2> QED
      BY <1>1, <1>2, <2>1, <2>3, <2>5, EmptyLog DEF LogInv, Extends
  <1>3. CASE log # NoLog
    <2>1. /\ log' = log /\ GoTo(p, "read") /\ disturbed' = [disturbed EXCEPT ![p] = FALSE]
          /\ UNCHANGED <<last, curr>>
      BY <1>3 DEF Start
    <2>2. \A q \in Procs \ {p} : disturbed'[q] = disturbed[q]
      BY <2>1 DEF LogInv, LogTypeOK
    <2>3. \A q \in Procs \ {p} : Reads(q)'
      BY <2>1, <2>2, OthersKeep DEF OthersSame
    <2>4. pc'[p] = "read"
      BY <2>1 DEF LogInv, LogTypeOK, GoTo
    <2>5. Reads(p)'
      BY <1>3, <2>1, <2>4 DEF Reads
    <2> QED
      BY <1>1, <2>1, <2>3, <2>5, SameLog DEF LogInv
  <1> QED
    BY <1>2, <1>3

(* The first section, or a part of it, is written. *)
LEMMA NamesInv ==
    ASSUME LogInv, NEW p \in Procs, pc[p] = "create", NEW step \in {"read", "idle"},
           GoTo(p, step), Disturb(p), OthersSame(p), LogTypeOK',
           log' = <<>> \/ \E body \in SUBSET LinesOf("name", Names) : IsText(log', body)
    PROVE  LogInv' /\ Extends
  <1>1. log = <<>> /\ \A q \in Procs \ {p} : pc[q] # "create"
    BY DEF LogInv, Reads
  <1>2. log' \in Seq(Lines) /\ Readable(log')
    BY EmptyLog, NamesWritten
  <1>3. log' # NoLog
    BY <1>2, HistoryAssumption
  <1>4. \A q \in Procs \ {p} : Reads(q)'
    BY <1>1, <1>3, OthersDisturbed
  <1>5. pc'[p] = step
    BY DEF LogInv, LogTypeOK, GoTo
  <1>6. Reads(p)'
    BY <1>3, <1>5 DEF Reads
  <1>7. Extends
    <2>1. PICK longer : longer \in States(log')
      BY <1>2 DEF Readable, IsHistory
    <2>2. ASSUME NEW list \in States(log) PROVE Prolongs(longer, list, Len(log))
      <3>1. DOMAIN list = {} /\ Len(log) = 0
        BY <1>1, EmptyLog DEF States
      <3>2. longer \in [Headers(log') -> SUBSET Names] /\ Headers(log') \subseteq 1..Len(log')
        BY <1>2, <2>1 DEF States, Headers
      <3>3. \A h \in DOMAIN longer : ~ h <= 0
        BY <1>2, <3>2
      <3> QED
        BY <3>1, <3>3 DEF Prolongs
    <2> QED
      BY <2>1, <2>2 DEF Extends
  <1> QED
    BY <1>2, <1>4, <1>6, <1>7 DEF LogInv

(* _write_egg_names *)
LEMMA CreateInv ==
    ASSUME LogInv, NEW p \in Procs, Create(p) PROVE LogInv' /\ Extends
  <1>1. installed \in SUBSET Names /\ LinesOf("name", installed) \in SUBSET LinesOf("name", Names)
    BY DEF LogInv, LogTypeOK, LinesOf
  <1>2. IsText(log', LinesOf("name", installed))
    BY <1>1, NamesAreText DEF Create
  <1>3. LogTypeOK'
    BY <1>2 DEF IsText, LogInv, LogTypeOK, Create, GoTo, Disturb
  <1> QED
    BY <1>1, <1>2, <1>3, NamesInv DEF Create, OthersSame

(* get_state: only an empty log makes it raise. *)
LEMMA ReadLogInv ==
    ASSUME LogInv, NEW p \in Procs, ReadLog(p)
    PROVE  LogInv' /\ Extends /\ (pc'[p] = "raised" => log = <<>>)
  <1>1. log # NoLog /\ log \in Seq(Lines) /\ Readable(log)
    BY DEF LogInv, LogTypeOK, Reads, ReadLog
  <1>2. PICK s \in GetState(log) :
            IF s = Error
            THEN GoTo(p, "raised") /\ UNCHANGED last
            ELSE GoTo(p, "scan") /\ last' = [last EXCEPT ![p] = s]
    BY DEF ReadLog
  <1>3. log' = log /\ curr' = curr /\ disturbed' = disturbed
    BY DEF ReadLog
  <1>4. CASE s = Error
    <2>1. log = <<>>
      BY <1>1, <1>2, <1>4, ReadableState
    <2>2. LogTypeOK' /\ pc'[p] = "raised"
      BY <1>2, <1>4 DEF LogInv, LogTypeOK, ReadLog, GoTo
    <2>3. \A q \in Procs \ {p} : Reads(q)'
      BY <1>2, <1>3, <1>4, OthersKeep DEF OthersSame
    <2>4. Reads(p)'
      BY <2>2 DEF Reads
    <2> QED
      BY <1>1, <1>3, <2>1, <2>2, <2>3, <2>4, SameLog DEF LogInv
  <1>5. CASE s # Error
    <2>1. log # <<>>
      <3>1. CASE log = <<>>
        <4>1. HeaderOf(log, Len(log)) = {}
          BY <3>1, EmptyLog
        <4> QED
          BY <1>2, <1>5, <4>1 DEF GetState
      <3> QED
        BY <3>1
    <2>2. s \in SUBSET Names /\ GetState(log) = {s}
      BY <1>1, <2>1, ReadableState
    <2>3. LogTypeOK' /\ pc'[p] = "scan" /\ last'[p] = s
      BY <1>2, <1>5, <2>2 DEF LogInv, LogTypeOK, ReadLog, GoTo
    <2>4. \A q \in Procs \ {p} : last'[q] = last[q]
      BY <1>2, <1>5 DEF LogInv, LogTypeOK
    <2>5. \A q \in Procs \ {p} : Reads(q)'
      BY <1>2, <1>3, <1>5, <2>4, OthersKeep DEF OthersSame
    <2>6. Reads(p)'
      BY <1>1, <1>3, <2>1, <2>2, <2>3 DEF Reads
    <2> QED
      BY <1>1, <1>3, <2>3, <2>5, <2>6, SameLog DEF LogInv
  <1> QED
    BY <1>4, <1>5

(* The two states are compared: nothing is to be done if they are one. *)
LEMMA ScanInv ==
    ASSUME LogInv, NEW p \in Procs, Scan(p) PROVE LogInv' /\ Extends
  <1>1. /\ LogTypeOK' /\ log' = log /\ last' = last /\ disturbed' = disturbed
        /\ curr'[p] = installed /\ \A q \in Procs \ {p} : curr'[q] = curr[q]
    BY DEF LogInv, LogTypeOK, Scan, GoTo
  <1>2. pc'[p] = IF last[p] = installed THEN "done" ELSE "append"
    BY DEF LogInv, LogTypeOK, Scan, GoTo
  <1>3. \A q \in Procs \ {p} : Reads(q)'
    BY <1>1, OthersKeep DEF Scan, OthersSame
  <1>4. pc[p] = "scan" /\ Reads(p)
    BY DEF LogInv, Scan
  <1>5. Reads(p)'
    BY <1>1, <1>2, <1>4 DEF Reads
  <1> QED
    BY <1>1, <1>3, <1>5, SameLog DEF LogInv

(* A section of changes, or a part of it, is appended. *)
LEMMA ChangesInv ==
    ASSUME LogInv, NEW p \in Procs, pc[p] = "append", NEW step \in {"done", "idle"},
           GoTo(p, step), Disturb(p), OthersSame(p), LogTypeOK', curr'[p] = curr[p] \/ step = "idle",
           NEW from, NEW to, from = last[p], to = curr[p],
           NEW text, NEW body, IsPart(body, from, to), IsText(text, body),
           log' = log \o text,
           step = "done" => body = Changed(from, to)
    PROVE  LogInv' /\ Extends
  <1>1. /\ log # NoLog /\ log # <<>> /\ from # to /\ Reads(p)
        /\ log \in Seq(Lines) /\ Readable(log)
        /\ from \in SUBSET Names /\ to \in SUBSET Names
    BY DEF LogInv, LogTypeOK, Reads
  <1>2. /\ \A list \in States(log) : \E longer \in States(log \o text) :
                Prolongs(longer, list, Len(log))
        /\ Readable(log \o text)
    BY <1>1, ChangesAppended
  <1>3. body = Changed(from, to) /\ GetState(log) = {from} => GetState(log \o text) = {to}
    <2> SUFFICES ASSUME body = Changed(from, to), GetState(log) = {from}
                 PROVE  GetState(log \o text) = {to}
      OBVIOUS
    <2>1. /\ log \in Seq(Lines) /\ Readable(log) /\ log # <<>> /\ from # to
          /\ from \in SUBSET Names /\ to \in SUBSET Names
      BY <1>1
    <2> QED
      BY <2>1, ChangesAppended
  <1>4. log' \in Seq(Lines) /\ log' # <<>> /\ log' # NoLog
    <2>1. text \in Seq(Lines) /\ text # <<>>
      BY DEF IsText
    <2>2. log \o text \in Seq(Lines) /\ log \o text # <<>>
      BY <1>1, <2>1
    <2> QED
      BY <2>2, HistoryAssumption
  <1>5. \A q \in Procs : pc[q] # "create"
    BY <1>1 DEF LogInv, Reads
  <1>6. \A q \in Procs \ {p} : Reads(q)'
    BY <1>4, <1>5, OthersDisturbed
  <1>7. pc'[p] = step /\ disturbed'[p] = disturbed[p]
    BY DEF LogInv, LogTypeOK, GoTo, Disturb
  <1>8. step = "done" /\ ~ disturbed[p] => GetState(log') = {curr'[p]}
    BY <1>1, <1>3 DEF Reads
  <1>9. Reads(p)'
    BY <1>4, <1>7, <1>8 DEF Reads
  <1> QED
    BY <1>2, <1>6, <1>9 DEF LogInv, Extends

(* _write_changes *)
LEMMA WriteChangesInv ==
    ASSUME LogInv, NEW p \in Procs, WriteChanges(p) PROVE LogInv' /\ Extends
  <1>1. PICK text \in ChangesText(last[p], curr[p]) : log' = log \o text
    BY DEF WriteChanges, Appended, LogInv, LogTypeOK
  <1>2. last[p] \in SUBSET Names /\ curr[p] \in SUBSET Names /\ log \in Seq(Lines)
    BY DEF LogInv, LogTypeOK, WriteChanges, Reads
  <1> DEFINE body == Changed(last[p], curr[p])
  <1>3. IsText(text, body)
    BY <1>2, ChangesAreText
  <1>4. log' \in Seq(Lines)
    BY <1>1, <1>2, <1>3 DEF IsText
  <1>5. LogTypeOK'
    BY <1>4 DEF LogInv, LogTypeOK, WriteChanges, GoTo, Disturb
  <1>6. IsPart(body, last[p], curr[p])
    BY DEF IsPart
  <1>7. /\ pc[p] = "append" /\ GoTo(p, "done") /\ Disturb(p) /\ curr' = curr /\ OthersSame(p)
    BY DEF WriteChanges, OthersSame
  <1> QED
    BY <1>1, <1>3, <1>5, <1>6, <1>7, ChangesInv

(* The end of an update. *)
LEMMA EndUpdateInv ==
    ASSUME LogInv, NEW p \in Procs, EndUpdate(p) PROVE LogInv' /\ Extends
  <1>1. /\ LogTypeOK' /\ log' = log /\ disturbed' = disturbed /\ pc'[p] = "idle"
        /\ \A q \in Procs \ {p} : last'[q] = last[q] /\ curr'[q] = curr[q]
    BY DEF LogInv, LogTypeOK, EndUpdate, GoTo
  <1>2. \A q \in Procs \ {p} : Reads(q)'
    BY <1>1, OthersKeep DEF EndUpdate, OthersSame
  <1>3. Reads(p)'
    BY <1>1 DEF Reads
  <1> QED
    BY <1>1, <1>2, <1>3, SameLog DEF LogInv

(* An update that is stopped between two lines leaves some of them. *)
LEMMA StopUpdateInv ==
    ASSUME LogInv, NEW p \in Procs, StopUpdate(p), ~ cut' PROVE LogInv' /\ Extends
  <1>1. GoTo(p, "idle") /\ Disturb(p) /\ OthersSame(p)
    BY DEF LogInv, LogTypeOK, StopUpdate, OthersSame
  <1>2. ASSUME log' \in Seq(Lines) PROVE LogTypeOK'
    BY <1>2 DEF LogInv, LogTypeOK, StopUpdate, GoTo, Disturb
  <1>3. ASSUME pc[p] = "create",
               NEW text \in NamesText(installed), log' \in WholeLines(text)
        PROVE  LogInv' /\ Extends
    <2>1. installed \in SUBSET Names /\ LinesOf("name", installed) \in SUBSET LinesOf("name", Names)
      BY DEF LogInv, LogTypeOK, LinesOf
    <2>2. IsText(text, LinesOf("name", installed))
      BY <2>1, NamesAreText
    <2>3. log' = <<>> \/ \E b \in SUBSET LinesOf("name", installed) : IsText(log', b)
      BY <1>3, <2>2, PartIsText
    <2>4. log' = <<>> \/ \E b \in SUBSET LinesOf("name", Names) : IsText(log', b)
      BY <2>1, <2>3
    <2>5. LogTypeOK'
      BY <1>2, <2>4, EmptyLog DEF IsText
    <2> QED
      BY <1>1, <1>3, <2>4, <2>5, NamesInv
  <1>4. ASSUME pc[p] = "append", NEW text \in ChangesText(last[p], curr[p]),
               NEW part \in WholeLines(text), log' = log \o part
        PROVE  LogInv' /\ Extends
    <2>1. last[p] \in SUBSET Names /\ curr[p] \in SUBSET Names /\ log \in Seq(Lines)
      BY <1>4 DEF LogInv, LogTypeOK, Reads
    <2>2. IsText(text, Changed(last[p], curr[p]))
      BY <2>1, ChangesAreText
    <2>3. part = <<>> \/ \E b \in SUBSET Changed(last[p], curr[p]) : IsText(part, b)
      BY <2>2, PartIsText
    <2>4. CASE part = <<>>
      <3>1. log' = log
        BY <1>4, <2>1, <2>4
      <3>2. LogTypeOK' /\ pc'[p] = "idle"
        BY <1>1, <1>2, <2>1, <3>1 DEF LogInv, LogTypeOK, GoTo
      <3>3. log # NoLog /\ log # <<>> /\ \A q \in Procs : pc[q] # "create"
        BY <1>4 DEF LogInv, Reads
      <3>4. \A q \in Procs \ {p} : Reads(q)'
        BY <1>1, <3>1, <3>3, OthersDisturbed
      <3>5. Reads(p)'
        BY <3>2 DEF Reads
      <3> QED
        BY <3>1, <3>2, <3>4, <3>5, SameLog DEF LogInv
    <2>5. ASSUME NEW b \in SUBSET Changed(last[p], curr[p]), IsText(part, b)
          PROVE  LogInv' /\ Extends
      <3>1. log' \in Seq(Lines)
        BY <1>4, <2>1, <2>5 DEF IsText
      <3>2. LogTypeOK'
        BY <1>2, <3>1
      <3>3. IsPart(b, last[p], curr[p])
        BY DEF IsPart
      <3> QED
        BY <1>1, <1>4, <2>5, <3>2, <3>3, ChangesInv
    <2> QED
      BY <2>3, <2>4, <2>5
  <1> QED
    BY <1>3, <1>4 DEF StopUpdate, Appended, LogInv, LogTypeOK

(* Eggs come and go. *)
LEMMA ChangeInv ==
    ASSUME LogInv, Change PROVE LogInv' /\ Extends
  <1>1. LogTypeOK' /\ UNCHANGED <<log, pc, last, curr, disturbed>>
    BY DEF LogInv, LogTypeOK, Change, Names
  <1>2. \A q \in Procs : Reads(q)'
    BY <1>1 DEF LogInv, Reads
  <1> QED
    BY <1>1, <1>2, SameLog DEF LogInv

(* As long as no line of the log was cut, that is what holds of it.        *)
WholeInv ==
    /\ pc \in [Procs -> {"idle", "create", "read", "scan", "append", "done", "raised"}]
    /\ cut \in BOOLEAN
    /\ ~ cut => LogInv

(* A line that was cut is in the log for ever. *)
LEMMA StaysCut ==
    ASSUME WholeInv, LogNext
    PROVE  /\ pc' \in [Procs -> {"idle", "create", "read", "scan", "append", "done", "raised"}]
           /\ cut' \in BOOLEAN /\ (cut => cut')
  <1>1. ASSUME NEW p \in Procs,
               \/ Start(p) \/ Create(p) \/ ReadLog(p) \/ Scan(p) \/ WriteChanges(p)
               \/ EndUpdate(p) \/ StopUpdate(p)
        PROVE  cut' = cut \/ cut' = TRUE
    BY <1>1 DEF Start, Create, ReadLog, Scan, WriteChanges, EndUpdate, StopUpdate
  <1>2. ASSUME NEW p \in Procs,
               \/ Start(p) \/ Create(p) \/ ReadLog(p) \/ Scan(p) \/ WriteChanges(p)
               \/ EndUpdate(p) \/ StopUpdate(p)
        PROVE  \E step \in {"idle", "create", "read", "scan", "append", "done", "raised"} :
                    GoTo(p, step)
    BY <1>2 DEF Start, Create, ReadLog, Scan, WriteChanges, EndUpdate, StopUpdate
  <1>3. Change => cut' = cut /\ pc' = pc
    BY DEF Change
  <1> QED
    BY <1>1, <1>2, <1>3 DEF WholeInv, LogNext, GoTo

(* Every step. *)
LEMMA NextLogInv ==
    ASSUME WholeInv, [LogNext]_logVars
    PROVE  WholeInv' /\ (~ cut' => Extends)
  <1>1. ASSUME LogNext, ~ cut' PROVE LogInv' /\ Extends
    <2>1. LogInv
      BY <1>1, StaysCut DEF WholeInv
    <2>2. ASSUME NEW p \in Procs,
                 \/ Start(p) \/ Create(p) \/ ReadLog(p) \/ Scan(p) \/ WriteChanges(p)
                 \/ EndUpdate(p) \/ StopUpdate(p)
          PROVE  LogInv' /\ Extends
      BY <1>1, <2>1, <2>2, StartInv, CreateInv, ReadLogInv, ScanInv, WriteChangesInv,
         EndUpdateInv, StopUpdateInv
    <2> QED
      BY <1>1, <2>1, <2>2, ChangeInv DEF LogNext
  <1>2. CASE UNCHANGED logVars
    <2>1. WholeInv'
      <3>1. LogInv => LogInv'
        <4> SUFFICES ASSUME LogInv PROVE LogInv'
          OBVIOUS
        <4>1. LogTypeOK' /\ UNCHANGED <<log, pc, last, curr, disturbed>>
          BY <1>2 DEF logVars, LogInv, LogTypeOK
        <4>2. \A q \in Procs : Reads(q)'
          BY <4>1 DEF LogInv, Reads
        <4> QED
          BY <4>1, <4>2 DEF LogInv
      <3> QED
        BY <1>2, <3>1 DEF WholeInv, logVars
    <2>2. ~ cut' => Extends
      BY <1>2, SameLog DEF WholeInv, logVars
    <2> QED
      BY <2>1, <2>2
  <1>3. LogNext => WholeInv' /\ (~ cut' => Extends)
    BY <1>1, StaysCut DEF WholeInv
  <1> QED
    BY <1>2, <1>3

-----------------------------------------------------------------------------
(* The theorems *)

(* What update, its writers and its reader know of the log, and that the   *)
(* log can be read in one way, holds of every set of processes and eggs,   *)
(* as long as no process was stopped within a line.                        *)
THEOREM LogInvariant == LogSpec => []WholeInv
  <1>1. LogInit => WholeInv
    BY InitLogInv DEF WholeInv, LogInit
  <1>2. WholeInv /\ [LogNext]_logVars => WholeInv'
    BY NextLogInv
  <1> QED
    BY <1>1, <1>2, PTL DEF LogSpec

(* After an update in which no other process wrote, the log says what is   *)
(* installed, whatever updates that were mixed, or stopped between two     *)
(* lines, left in it. (update)                                             *)
THEOREM LogIsUpToDate == LogSpec => []UpToDate
  <1>1. WholeInv => UpToDate
    BY DEF WholeInv, LogInv, Reads, UpToDate, LogIsCurrent
  <1> QED
    BY LogInvariant, <1>1, PTL

(* An update raises only when another has just created the log, or was     *)
(* stopped while it did, or within a line. (parse, construct_states)       *)
THEOREM RaisesOnBrokenLog == LogSpec => RaisesOnlyOnBrokenLog
  <1> DEFINE Raises ==
        \A p \in Procs : pc[p] # "raised" /\ pc'[p] = "raised" => log = <<>> \/ cut
  <1>1. WholeInv /\ [LogNext]_logVars => [Raises]_logVars
    <2> SUFFICES ASSUME WholeInv, LogNext, NEW p \in Procs,
                        pc[p] # "raised", pc'[p] = "raised", ~ cut
                 PROVE  log = <<>>
      OBVIOUS
    <2>1. /\ pc \in [Procs -> {"idle", "create", "read", "scan", "append", "done", "raised"}]
          /\ LogInv
      BY DEF WholeInv
    <2>2. ReadLog(p)
      <3>1. CASE Change
        BY <3>1 DEF Change
      <3>2. ASSUME NEW q \in Procs,
                   \/ Start(q) \/ Create(q) \/ ReadLog(q) \/ Scan(q) \/ WriteChanges(q)
                   \/ EndUpdate(q) \/ StopUpdate(q)
            PROVE  ReadLog(p)
        <4>1. p = q
          BY <2>1, <3>2 DEF Start, Create, ReadLog, Scan, WriteChanges, EndUpdate, StopUpdate, GoTo
        <4> QED
          BY <2>1, <3>2, <4>1 DEF Start, Create, Scan, WriteChanges, EndUpdate, StopUpdate, GoTo
      <3> QED
        BY <3>1, <3>2 DEF LogNext
    <2> QED
      BY <2>1, <2>2, ReadLogInv
  <1> QED
    BY LogInvariant, <1>1, PTL DEF LogSpec, RaisesOnlyOnBrokenLog

(* A revision in the log is never changed by a later write, as long as no  *)
(* process is stopped within a line. (update, construct_states)            *)
THEOREM RevisionsAreStable == LogSpec => RevisionsStable
  <1>1. WholeInv /\ [LogNext]_logVars => [~ cut' => Extends]_log
    BY NextLogInv
  <1>2. (~ cut' => Extends) => (log # NoLog /\ log' # log /\ ~ cut' =>
            \A list \in States(log) : \E longer \in States(log') :
                /\ DOMAIN list = {h \in DOMAIN longer : h <= Len(log)}
                /\ \A h \in DOMAIN list : longer[h] = list[h])
    BY DEF Extends, Prolongs
  <1> QED
    BY LogInvariant, <1>1, <1>2, PTL DEF LogSpec, RevisionsStable
=============================================================================
