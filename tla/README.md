# A verification project for Enstaller

Enstaller is a package manager for eggs. `egginst` installs one egg into a
prefix and removes it; `enpkg` fetches indices, resolves a requirement against
them, downloads eggs into a cache and executes removals and installations. This
directory holds TLA+ models of the parts of it that keep state, TLC
configurations that check them on small instances, and proofs, checked by TLAPS,
for all values of the constants.

Run in this directory:

    tlc -config EggInst.cfg MCEggInst      # one configuration
    tlapm EnpkgProofs.tla                  # one module of proofs

`PROJECT.json` lists the runs, the definitions with the lines of code they
stand for, the hazards and the theorems.

## 1. The system

| Part | Code | State it keeps | Operations | What is hard |
|---|---|---|---|---|
| Egg installer and remover | `egginst/main.py`, `eggmeta.py`, `utils.py`, `scripts.py`, `links.py`, `object_code.py` | the files of the prefix, `EGG-INFO/<name>/_info.json` and `egginst.json` | `install_iterator`, `remove_iterator` | neither is atomic; two records, written at different times; a path can belong to two packages |
| Download cache | `enstaller/fetch.py`, `egginst/utils.py` (`atomic_file`, `checked_content`), `enpkg.FetchAction` | an egg file per name, temporary files | fetch, cancel | other processes; a server that sends something else, or nothing; retries; rename on Windows |
| History | `enstaller/history.py` | the log `enpkg.hist` | `update`, `get_state`, around every command | appended without a lock; a stop in the middle of a write |
| Execution | `enstaller/enpkg.py`, `solver/core.py`, `cli/utils.install_req` | two in-memory repositories, the list of actions | install, remove a requirement | a failure between any two actions; a view of the disk read once |
| Resolver | `enstaller/solver/resolve.py` | none that outlives a call | `install_sequence` | cycles, several versions of one project, iteration over sets |
| Session | `enstaller/session.py` | adapters, cache, a counter under a lock | `etag()` contexts | nested and threaded contexts, failures while entering |
| Repository | `enstaller/repository.py`, `collections.py`, `package.py` | a dictionary of lists of packages | load an index, add, delete, five kinds of questions | questions that make entries, emptied entries, order of equal versions, names spelled in two ways |
| Index fetching | `cli/utils.repository_factory` | futures of a pool, one repository | fetch and merge all indices | any order of completion, one that raises, a session that all threads share |
| Command line | `enstaller/main.py`, `cli/commands.py`, `freeze.py` | none of its own; it changes the prefix | some twenty commands | combinations of options, what each may remove, errors in the middle |
| Machine command line | `enstaller/machine_cli/` | none | install, remove, update_all, over a subprocess | the caller sees an exit status only; no terminal to confirm at |
| Configuration, authentication | `config.py`, `_yaml_config.py`, `auth/`, `main.py` | the file `.enstaller4rc`, `config.auth`, the session's credentials | read, log in, add a repository | truncated and rewritten in place without a lock; read up to three times by one command |
| Repair | `repair_broken_egg_info.py` | directories being swapped | repair every egg | a stop between two renames, exceptions that are swallowed |
| Bootstrap, in-place update | `bootstrap.py`, `_update_support.py` | the egg beside the script | download, check, replace enstaller | a file that is there already is not checked |

How they interact: the command line reads the configuration file, logs in and
rewrites it if there are no credentials, authenticates a Session with them
(Configuration) and fetches the indices in a pool of threads that share the
Session (RepositoryFactory, SessionEtag). It builds an `Enpkg` object that reads the
installed packages from the `_info.json` files, resolves the requirement
(Resolve), turns the list into `fetch`, `remove` and `install` actions
(`Solver`, `install_req`) and executes them in order inside a `History` context:
a fetch goes through the download cache, a removal and an installation through
egginst. The history reads `egginst.json`, the Repository reads `_info.json`:
the two views of the prefix meet nowhere but on the disk.

What makes each part correct is stated as the properties below; `hazards` in
`PROJECT.json` lists, with its line, each place where it could go wrong in a
way that a test would hardly reach.

## 2. The modules

| Module | Models | Theorems in | Run by |
|---|---|---|---|
| `EggInst` | egginst's installer and remover | `EnpkgProofs` | `MCEggInst` |
| `EggCache` | what a user of the download cache may rely on | | (implemented by `Fetch`) |
| `Fetch` | fetching an egg into the cache | `PackageProofs` | `MCFetch` |
| `SharedFile` | processes that read a file and write it later | | (within `History` and `Configuration`) |
| `History` | the log of installed eggs, EXTENDS `SharedFile` | `SharedFileProofs` | `MCHistory` |
| `Enpkg` | planning and executing, EXTENDS `EggInst` | `EnpkgProofs` | `MCEnpkg` |
| `Sublists` | what a filter, or a loop with conditions, makes of a list | `SublistsProofs` | (within `Enpkg`, `CommandLine` and `Repository`) |
| `Resolve` | the legacy dependency resolver | `ResolveProofs` | `MCResolve` |
| `SessionEtag` | the etag context of a Session | `RepositoryFactoryProofs` | (within `RepositoryFactory`) |
| `RepositoryFactory` | the pool that fetches and merges the indices, EXTENDS `SessionEtag` | `RepositoryFactoryProofs` | `MCRepositoryFactory` |
| `Configuration` | `.enstaller4rc`: reading, logging in, adding repositories, EXTENDS `SharedFile` | `SharedFileProofs` | `MCConfiguration` |
| `PackageSet` | what a user of a Repository may rely on | | (implemented by `Repository`) |
| `PackageMetadata` | the forms the metadata of an egg go through | `PackageProofs` | (within `Repository`) |
| `Repository` | the in-memory index, EXTENDS `PackageMetadata` | `PackageProofs` | `MCRepository` |
| `Bootstrap` | the bootstrap script | `CommandLineProofs` | (within `CommandLine`) |
| `CommandLine` | the commands of enpkg, one after the other, EXTENDS `Bootstrap` | `CommandLineProofs` | (within `MachineCLI`) |
| `MachineCLI` | the machine command line and its caller, EXTENDS `CommandLine` | `CommandLineProofs` | `MCCommandLine` |
| `Repair` | enpkg-repair | `RepairProofs` | `MCRepair` |

Modules compose in three places. `RepositoryFactory` runs the contexts of
`SessionEtag` in the threads of a pool: the steps of a thread are its actions.
`Enpkg`'s installing and removing steps are the actions of `EggInst`, which it
starts and stops as the loop of `_ExecuteContext` does. So what is proved of
`SessionEtag` and of `EggInst` by themselves holds there too
(`FactoryServedThroughCache`, `RecordsAgreeInEnpkg`); that this is so is a lemma
of the proofs, and no property, as the modules are composed that way. The
bootstrap script, enpkg and the machine command line take turns on one prefix
(`MachineSpec`).

Of other components a module takes what they promise. For `Enpkg`, the cache is
an atomic set of eggs (`EggCache`), the plan a list of eggs of distinct projects
in dependency order (`InstallOrder`), the history its latest state
(`UpToDate`). For `CommandLine`, an action takes one step (`Enpkg` has its
steps), and the resolver and the indices are constants.

The definitions named *Mutant of D* in the modules are variations of D with a
plausible bug; nothing uses them. Putting one in place of D makes the property it
is listed with in `PROJECT.json` fail: the property does depend on that code.

### EggInst

State: per project name the metadata directory, `_info.json` (`info`) and
`egginst.json` (`json`, the egg, and `manifest`, its list of files); per path the
egg whose file is there (`disk`); and the running process (`pc`, `cur`, the
paths its loop has left, the paths `EggInst.files` has). `pending` is a history
variable: the last operation begun on a name, if it did not end; `described` is
one, too: where an egg that has metadata for enstaller was begun, since the
metadata directory was made.

| Action | Code |
|---|---|
| `PreExtract` | `pre_extract` |
| `Extract`, `EndExtract` | the loop of `install_iterator`: `_write_arcname`, `_write_egg_info_arcname` |
| `PlaceholderHack`, `Generate`, `EndGenerate`, `CreateInfo`, `FixScripts`, `WriteMeta` | `post_extract`, in its order |
| `StartRemove`, `Unlink`, `UnlinkJson` | the loop of `remove_iterator` (`egginst.json` is the last file of its own list) |
| `RmDirs`, `RmInfo`, `RmMetaDir` | `_rm_dirs`, `rm_rf(meta_dir)` |
| `Stop`, `StopInFile`, `StopInInfo`, `StopInMeta` | a kill, an exception, or a consumer that drops the iterator, at any step; a file being written is torn or gone |

Abstractions: a path is installed by an egg or generated for it; the path
schemes of `_get_dst`, the text of scripts and the links are data. Archive order
is left open. Scripts and menu items that eggs bring are external.

* `RecordsAgree`: once an operation on a package ran to its end, whatever was
  interrupted before, there is a metadata directory just when there is an
  `egginst.json`; and if the egg it names has metadata for enstaller
  (`EGG-INFO/spec/depend` or `info.json`), `_info.json` is that of the same egg.
  If it has none, there is no `_info.json`, with one exception, which is what the
  code does: egginst does not remove what it installs over, and an egg without
  metadata writes no `_info.json` (`main.py:372`), so the one of the version before
  stays, and the Repository lists that version until the package is removed.
* `RecordedFilesPresent`: every recorded file is on the disk, complete and from
  that egg, until the next operation on the package, if no other package
  installs the same path.
* `NoFileLeftBehind`: if interrupted operations are asked for again (the
  behaviours with `retrying`), no file of any attempt stays unrecorded. In the
  others it does not hold: installing one version over another one leaves the
  files that only the first one has.

Instance: two versions of a project (the second without `_info.json` and with
one file fewer) and an egg of another project that shares one file with the
first version; four paths. Shared and unshared files, generated and extracted
ones, eggs with and without info and version changes all occur; more eggs add no
new relation between two operations.

### Fetch and EggCache

State: the egg in the cache (`file`), and per process its temporary file, step,
index entry (`want`), `force`, attempt, the rest of the response, the cancel flag
of the current context and the outcome. A content is a sequence of chunks, a
checksum identifies a content.

`Check`, `OpenTemp` are the two calls of `needs_to_download`; `Request`,
`ReceiveChunk`, `AbortChunk`, `EndOfBody` the loop of `iter_content`; `Accept`,
`Reject` the end of `checked_content` with the retry loop of
`FetchAction.iter_execute`; `Publish` the rename, and `RenameRefused`,
`UnlinkTarget`, `RenameAgain` the rename where it does not replace (`posix` is
FALSE); `RenameFails` an exception of the rename, which the handler of
`atomic_file` does not cover, on any system; `Fail` an exception at any step
before it: of reading the cached egg, of opening, writing or closing the
temporary file, of the request, of the body, or in the checksum step; `Cancel`
another thread; `Kill` the end of the process. The handler's own `unlink` of the
temporary file is taken to succeed.

* `OnlyVerifiedContent`: the cached egg changes only to a content that the index
  of the process publishing it announces.
* `ForcedFetchDelivers`, `EggStaysInCache`: success means that the announced egg
  is in the cache, and that it stays (both proved, `FetchDelivers`; the second
  one follows from `AtomicCache`, too, and has no run).
* `NoTempLeft`: no way out leaves the temporary file, but a kill and a rename
  that fails; what the latter leaves is the whole of the announced egg.
* `CancelPreventsPublication`: a fetch canceled in time publishes nothing.
* `AtomicCache`: Fetch implements `EggCache!Spec`: the egg changes in one step, to
  what a fetching process wants.
* `FetchEnds`: a fetch ends, or waits for its server for ever, and for nothing
  else.

Where rename does not replace, as on Windows, the egg is unlinked before the
second rename, as the docstring of `atomic_file` warns. `EggCache` says so
(`Vanish`); delivery holds elsewhere only. A cancel after the last chunk comes
too late: the loop looks at the flag only when another chunk arrives. The
`--max-retries` of enpkg does not get here: `execute_context` does not pass it on.

Fairness: a process that runs takes its own steps (`OwnStep`). The steps of the
server are under none: `session.py` passes no timeout, and no adapter sets one, so
a server may stop answering and never hang up. Neither are Fail, Cancel and Kill.

Instance: two processes, two announced contents, a content cut short, one retry.
The processes have the same or different indices, force or not, and find any
content in the cache at first. A third process adds no new kind of
interference: they interact through one file only.

### History

State: the lines of the log (a header, a name, an addition or a removal), the
installed set (external: it changes at any time), and per process the two
values `update` compares. `Sections`, `States`, `GetState` are `parse`,
`construct_states`, `get_state`; reading can raise (`Error`). A section is known
by the place of its header, and the states of a log are the functions from
those places in which each state is what its section makes of the one before
(`Apply`): not one after the other, as the loops of the code have it, but each
against its neighbour, which says the same and can be proved about. Sets are
written, and changes applied, in any order.

A writer may be stopped: some of its lines are in the log, the rest is not, and
the last one may be cut (`CutLine`). A part of a header is no header, unless only
its line end is missing; a part of another line has a part of a name (`Torn`), but
keeps its sign. Then the file does not end with a line end (`ended` is FALSE), and
what the next update appends goes on with the last line (`Glue`): its header is
lost, unless what was cut is the beginning of one. `cut` is a history variable: a
process was stopped within a line.

* `UpToDate`: after an update during which no other process wrote, the log's
  state is the installed set the update saw, whatever updates that were mixed, or
  stopped between two lines, came before.
* `RaisesOnlyOnBrokenLog`: nothing that a stop between two lines or another update
  leaves behind makes an update raise, except an empty log. A stop while the log
  is created leaves that, and every later update raises. So may one after a line
  was cut: `Did not expect', or an IndexError.
* `RevisionsStable`: a revision never changes once it is in the log, as long as no
  line is cut. Two processes that append at once put two sections there, each a
  revision.
* `LogIsCurrent` is `UpToDate` without its condition, and what the docstrings of
  `update` and `get_state` say. The code does not keep it after a cut, and no run
  claims it: the changes of an update that goes on with a line that was cut are
  read as part of the section before.

Left out: two processes that create the log at once and write over one another's
bytes.

Instance: two eggs, two processes, an initial log, none at all, and up to
`MaxLines` lines before the last write: enough for a full section followed by
a partial one and another update.

### Enpkg

State: on top of EggInst's, what the process is doing (`proc`), its two
repositories (`top`, `all`, with multiplicity), the plan and the queue of
actions, the cache and the history's state. `RequestInstall` is `install_req`
with `Solver._install_actions` for the three force modes, `RequestRemove` is
`Solver._remove`; `EnterHistory`, `Leave` and `LeaveRaising` are the `History`
context around the loop of `_ExecuteContext`; `Fetch`, `BeginRemove`,
`BeginInstall`, `EggStep`, `PostRemove`, `PostInstall` execute actions. Any
action may raise, and the process may be killed at any step; the next one
boots from the disk.

* `RepositoryFaithful`: when a plan is made and between actions the repository in
  memory is the one on the disk, with one version of a project, as
  `_install_actions` asserts; that of all prefixes may lack packages of the lower
  prefix, and no others.
* `FetchedBeforeRemoved`: nothing is removed for an egg that is not downloaded.
* `DependentsFirst`: no step of a command breaks a package that it still has to
  replace.
* `PlanDelivered`: a command that ends has installed its plan, but for packages
  whose last operation was interrupted earlier.

Instance: an application and a library it needs, two versions of the library,
three plans, all force modes, one egg also in a lower prefix.

### Resolve

State: the call of `install_sequence` in progress: `reqs_shallow`, `reqs_deep`,
the selected and visited eggs, the stack of `add_dependents`, and the ordering
pass. Sets are iterated over in any order. Names are compared as positions in
`Alphabet`, the order the code sorts by.

* `AssertionsHold`, `InstallOrder`, `LoopOnlyIfCyclic`, `Terminates`.
* `SearchExact`: the eggs met are the least closed set, in whatever order sets
  are visited, cycles notwithstanding.
A dependency of a version that lost is not dropped again: the list may hold eggs
that nothing needs.

Instance: three projects, one in two builds; every index in which the requested
egg has up to two of seven requirements and the other eggs up to one: cycles,
missing eggs, conflicts and ties included. The program is sequential; weak
fairness says only that it goes on.

### SessionEtag and RepositoryFactory

State of `SessionEtag`: the lock, the counter, per URL prefix the stack of
adapters and the one mounted, the open caches, and per context its step.
`Enter`..`Count` are `_etag_setup`, `Send` and `EndResponse` the body,
`Leave`..`Uncount` `_etag_tear`, with `mount` and `umount` step by step. Opening
the cache may fail. The lock is held in the two methods only.

State of `RepositoryFactory`: how many tasks the threads have taken, the result
of each, the tasks the caller has looked at (`merged`), the packages of the last
one that it has still to add (`adding`), and the repository. `TaskStep` is `_fetch_repository`: the
steps of a context that its thread takes (`OwnStep`), and the end of the response
(`Answered`), which carries an answer (`Respond`) or breaks (`Break`); it may never
be asked for (`FailToOpen`), and never come. `Outcome` says which answers are
an index, which raise and which count as a missing index. `Merge`, `NoIndex`,
`Raise` are the loop over `as_completed`, `Add` the loop in it over the packages of
an index, `LeavePool` the end of the `with`
statement, which waits for the tasks that still run, after an exception too.
`AddPackage` keeps the packages of a project sorted by version, stably.

* `ServedThroughCache`: a response is read through a cache that is open.
* `RepositoryComplete`: a call that returns has every package of every index
  that could be fetched, once; it names the other stores as unavailable; no
  failure of a thread is lost.
* `NothingLeftRunning`: when the call is over, with a result or an exception, no
  thread uses the session, whose adapters are as they were made.
* `CallEnds`: a task that a thread has taken ends, or waits for ever for the answer
  of its own store; a store that is silent, or a thread that fails, keeps no other
  thread from the lock. The call ends, unless some store never answers.

`CountsOccupants`, `OneCache` and `Restored` are proved for `SessionEtag` and
carry over (`PoolOfContexts`); no run repeats them.

Fairness: the threads of the pool and the caller run. Of the stores nothing is
assumed, since no request has a timeout. The lock need not be fair, as each
context wants it twice only.

Instance: three stores, two threads, so that a store waits for a free one and
one context may enter while another leaves; overlapping indices, an egg for
another Python, and the answers 200, 204, 404, 500.

### Configuration

State: the file, and per process the step of `main`, the command, the
credentials it read and those of its session, and the text it read in order to
rewrite it. A file holds EPD_auth, EPD_username, a token, the section
IndexedRepos and its repositories, or cannot be parsed (`Garbled`).

| Action | Code |
|---|---|
| `Begin`, `CheckDefault`, `OpenDefault`, `WriteDefault` | `_ensure_config_path`, `write_default_config` |
| `Load`, `LoadFails` | `Configuration.from_file`, `_ensure_config_or_die` |
| `NoUsername`, `NoTrialLeft`, `Login`, `LoginFails` | `configure_authentication_or_exit`, `_checked_change_auth` |
| `ReadAuth`, `OpenAuth`, `WriteAuth` | `UserPasswordAuth.change_auth` |
| `ShowUser`, `ShowUserFails` | `UserInfo.from_session` |
| `Authenticate`, `CheckUsername` | `ensure_authenticated_config` |
| `ReadRepos`, `NoRepos`, `WriteRepos` | `add_url`, `prepend_url` |
| `Stop` | the process is killed or interrupted at any step |

A writer truncates the file in one step and writes in another (`prepend_url` does
not truncate); another process may read or write in between. A text written
over a longer one leaves a tail of it: the file is none the worse, or garbled, or
has settings of the other process as well (`WithTail`).

* `LoginReadBack`, `AddedUrlReadBack`: unless another process wrote meanwhile,
  the next command reads exactly the credentials, or the repositories, that were
  written, and nothing else has changed, whatever state earlier processes had
  left the file in.
* `OnlyAcceptedCredentials`: no interleaving and no failure leaves credentials in
  the file that the service has not accepted.
* `ReadyAuthenticated`: a command goes on to fetch indices only with a session
  that has the credentials of its configuration, accepted by the service, also
  after a second login that `EPD_username` in the file asks for.

Credentials with a colon in the password, or too long for one line of base64,
are checked, accepted and written, but `from_encoded_auth` cannot take them
apart: `Parses` is FALSE, every later command ends at `LoadFails`, and
`LoginReadBack` speaks of the other ones (`Encodable`).

`disturbed` is a history variable: another process wrote since this one read.
If `UserInfo.from_session` fails, enpkg prints "No modification was written",
although the file was written before; `OnlyAcceptedCredentials` says that at
least nothing was written that the service had rejected.

Instance: two processes, two users (one with a colon in the password), two
repositories, and as initial files none, one with EPD_username, one with a token
beside it, one with both kinds of credentials. The processes are symmetric.

### Repository, PackageMetadata and PackageSet

State: the dictionary from names to lists of packages (`index`), which stores
were loaded, the packages of the latest one that are still to be added
(`adding`), and the latest answer. `Get` and `Touched` are the two ways of
asking a `DefaultOrderedDict`: `get` leaves it alone, `[]` makes an entry.
`AddPackage`, `DeletePackage`, and `Load` (`parse_index`) with `AddParsed` for each
of its packages (the loops of `update` and `from_repository_infos`) change it;
`HasPackage` and `FindPackage` make entries; `FindPackages`,
`FindLatestPackage`, `FindPackageFromRequirement` and `IterMostRecentPackages`
do not. An entry of an index becomes a package (`FromIndex`), a package an entry
(`S3IndexData`), which is written to `_info.json` and read again
(`FromInstalled`).

* `KnowsItsPackages`: in any order of operations the Repository implements
  `PackageSet`, a bag of packages. An answer carries the question it is an answer
  to (`Question`: the operation, the name, the versions or the full version asked
  for), and `Correct` says what the bag answers to it: the newest package of that
  name that the requirement matches, one of the version asked for, whether there
  is one with that full version, all of that name by version, an exception where
  there is none. `iter_most_recent_packages` raises IndexError once a name that was
  added, deleted or looked up has no package; `PackageSet` says so.
* `DependenciesFound`: a requirement on the egg name of an entry of the same
  index, or on an egg of another store whose names differ in case only, names a
  project that the repository finds, once the packages of the indices are added.
* `MetadataSurvive`: an egg that is installed and read back has the name,
  version, requirements and Python of the index, and its index entry made anew
  is the same package. Not so if one of its requirements, as the index has it in
  lower case, is the egg name of a project with another name: as soon as that egg
  is installed too, the requirement is read as one on that name. The instance has
  such a package.

Instance: two stores, five entries, with names that differ in case, an egg name
that is not the project's, one version spelled in two ways, and eggs for another
Python; up to three packages at a time, enough for three equal versions, two
names, and a name emptied beside another.

### CommandLine, Bootstrap and MachineCLI

State: the packages of the prefix (`installed`), the command with its options and
words, how far it is (`stage`), the requirements left (`jobs`), the actions of the
first of them, how the command ended, and what `--freeze` printed. For the
bootstrap script: the egg in the current directory (`saved`) and its step.

| Action | Code |
|---|---|
| `Parse` | `main`, `_preprocess_options` |
| `EnvOption`, `PrintHistory`, `ListOption`, `Freeze` | `dispatch_commands_without_enpkg` |
| `Imports`, `Revert`, `RevertToNothing`, `AutoUpdate`, `Search`, `Info`, `WhatsNew`, `ForceFails`, `UpdateAll`, `InstallRequirements`, `NothingRequested`, `Refuse`, `RemovePackages`, `RemoveEnstallerOption`, `InstallPackages` | `dispatch_commands_with_enpkg`, branch by branch |
| `PlanRemove`, `PlanInstall`, `Confirm` | `remove_requirement`, `install_req` |
| `Execute` | `Enpkg.execute`: some first part of the actions is done, all of them, or none in a dry run |
| `RunCommand`, `ParseJson`, `AuthenticateSession`, `FetchIndices`, `MachineInstall`, `MachineRemove`, `MachineUpdateAll` | `SubprocessEnpkgExecutor._run_command` and `machine_cli/commands.py`; the actions named `...Fails` are their errors |
| `StartBootstrap` .. `InstallEnstaller`, `StopBootstrap` | `download_enstaller`, `bootstrap_enstaller` |

* `CrashChangesNothing`: where enpkg runs into an error of its own, nothing was
  changed before, and a dry run changes nothing in any combination. There are
  three such errors: `--force` uses a `ForceMode.MAIN` that does not exist
  (`--forceall` alone only downloads again); the automatic update gives the
  downloader a file name for a package; and so does a revert its actions, of
  which the first one raises.
* `NothingLost`: only a removal by name, or a confirmed `--remove-enstaller`,
  takes a project from the prefix, unless a command is interrupted.
* `DoneAsAsked`: exit status 0 means that the freeze is restored, that what was to
  be removed is gone, or that the one requirement is met. There are four other ways
  to exit with 0, and the property says in each that the package asked about is
  untouched: a no where enpkg may ask (epd, a package of PyPI; not with `--yes`), a
  refusal to remove enstaller, one given with a version, and `enpkg enstaller`,
  which leaves out the enstaller that runs. None of them is open to the machine
  command line, whose caller sees the exit status only. The property speaks of one
  requirement: each is a plan of its own, and a later one may downgrade what an
  earlier one installed (`--update-all` too).
* `BootstrapVerified`: unless the script was killed, the egg that its next run
  takes without a check is a verified one. A partial file makes a bootstrap remove
  the installed enstaller and then fail.

What else the code does, which no property states: `--revert` with
`--dry-run` still updates the history; `--log` prints the history of
`sys.prefix`, as a loop of `main` reuses the name `prefix`; the machine command
line ignores the `files_cache` of its JSON, removes enstaller without the checks
of enpkg, and raises at the confirmation of a PyPI package, since its stdin is
used up; a token is no authentication that its schema admits.

Instance: a library in two versions, one of them below the prefix too, a tool
from PyPI that needs the newest one and a newer tool out of the subscription, epd,
which wants the older library, enstaller in two versions; 58 commands and
8 calls. Every branch of the dispatch is taken, downgrades and refusals
included.

### Repair

State: per egg what is at `<egg>.egg-info`, `.wdir` and `.bak`, the files left to
copy, and the eggs the run has not looked at. `Begin` .. `CleanUp` are the calls
of `_repair_package_dir`; `Raise` and `Undo` its `except BaseException`; `Kill`
the end of the process, which leaves directories partly removed.

* `NeverHalfRepaired`: what is at `<egg>.egg-info` is what was found, or wholly
  repaired, or nothing.
* `OriginalKept`: what was found is in its place, set aside, or replaced as a
  whole. If the second rename fails it stays set aside for good: no run brings it
  back.
* `RepairedAtEnd`: a run that ends has failed silently on an egg, or left it with
  its metadata, or without any.

Instance: an egg that can be repaired and one with a file in a subdirectory,
which `shutil.copy` cannot copy; any content found; any number of runs. Eggs do
not touch each other's paths, so two are enough.

## 3. What the runs show

| Run | Distinct states | Result |
|---|---|---|
| `EggInst` | 263 000 | records agree (but for an `_info.json` that a replaced egg left), recorded files are there, retries leave nothing behind |
| `Fetch` | 431 000 | delivery, verified contents, cancellation, cache, end |
| `History` | 600 000 | updates repair what mixed or partial ones left, until a line is cut |
| `Enpkg` | 46 000 | plans, repositories and prefix stay consistent |
| `EnpkgInterrupted` | | **violated**: an interrupted installation passes for done |
| `Resolve` | 284 000 | assertions, order, loops, exact search |
| `RepositoryFactory` | 54 000 | complete repository, shared cache, clean end |
| `RepositoryOrder` | | **violated**: the order of the repositories does not matter |
| `Configuration` | 4.2 M | what is written is read back; only accepted credentials |
| `Repository` | 62 000 | each question is answered as by a bag; dependencies are found, metadata survive |
| `CommandLine` | 2.31 M | errors change nothing, nothing is lost, exit status 0 means done, or declined and untouched |
| `Repair` | 20 000 | whole or as found, at every step |

Deadlock is checked except where the system stops by design: all fetches or
calls over, the resolver done.

The two violations are behaviours of the code that contradict what it says of
itself (`findings`):

* `RepositoryOrder`: `config_templates.py` tells the user that enpkg takes the
  first repository of the list that has the egg. The indices are merged in the
  order in which they arrive; of equal versions, the last one merged wins.
* `EnpkgInterrupted`: `_info.json` is written before the scripts are fixed and
  before `egginst.json`. Stopped in between, the package is in the Repository,
  but neither the history nor the remover knows it. Installing it again finds no
  actions and prints that no update is necessary; removing it raises.

## 4. What is proved

For all values of the constants, from the named assumptions of each module.

**EggInst** (`EggInstAssumption`: names, paths and payloads have their types).
`TypeCorrect`, `RecordsAlwaysAgree`, `RecordedFilesStay` from the inductive
invariant `IInv`. That an egg without metadata has no `_info.json` beside it needs
to know where one can come from (`described`). The other parts say that the
running operation is the pending one (`Begun`), how far the loops of an installation (`Progress`) and of a removal
(`Dismantled`) have come, and that a readable `egginst.json` lists exactly the
files of its egg (`Manifests`). Without `Progress` nothing would be known of the
files when `WriteMeta` settles the package. `NothingIsLeftBehind`, for
the behaviours with `retrying`, adds `Covered` (whatever is left of a package is recorded or
belongs to the pending installation), `Unlinked` and `NoOldRecord`.

**Enpkg** (`EnpkgAssumption`: a plan is a non-empty list of eggs of distinct
projects, none of which needs a later one, as `ResultInOrder` says of the
resolver). `RepositoryIsFaithful`, `EggsFetchedFirst`, `PlanIsDelivered`,
and `DependentsAreFirst`, from `EnpkgIInv`: the invariant of
`EggInst`, and

| Part | Says | Without it |
|---|---|---|
| `AtWork` | installer or remover work on the head of the queue, and rest otherwise | nothing ties the steps of EggInst to an action |
| `InfoInPlace`, `InfoMatches` | an `_info.json` is of its project, and of the egg of `egginst.json` if both are there | a removal would take away another egg than the Repository thinks |
| `Mirrored`, `OneOfAName` | the repository in memory is the disk but for the package at work | the removal of `Replaces` might be none, or two |
| `Ordered` | downloads before removals before installations, dependents last | a failing download comes after a removal |
| `Cleared` | what has the name of an egg to install is removed before it | two eggs of one project after an installation |
| `Fetched` | what is to be installed is in the cache or waits for its download | |
| `Done`, `OnItsWay` | each egg of the plan is delivered, or in the queue; and a delivered one is not touched again | an installed egg of the plan might be removed for another one |

`RecordsAgreeInEnpkg` says that `RecordsAgree` and `RecordedFilesPresent` hold where
enpkg drives the installer, through plans, kills and new processes. It comes from
the theorems about `EggInst`, since every step of `Enpkg` is one of its, or leaves
the prefix alone.

`RequestProperties` is the lemma about the code that the rest hangs on: which
removals, downloads and installations `install_req` makes of a plan, and in which
order, for every force mode. `DependentsAreFirst` needs `PlansHaveInfo`: every
planned egg has EGG-INFO/spec/depend, as the eggs that `repack.py` and `setup.py`
make do. TLC finds the property false without it: for an egg without, no
`_info.json` is written, the Repository does not list it, and the removals that
the order rests on are not planned.

**Sublists**. `PickProperties`: the elements kept are those of the list that were
to be kept, each occurrence once, in order. `Pick` is the filter of a loop,
defined by what it returns and not by recursion (as `SelectSeq` is), so that this
can be proved: `EveryRank` finds the position of each rank by counting, with the
pigeonhole theorem of the library in the place of an induction. `PickTwice` is
the loop of `revert_actions`, which may append a download and appends an
installation (`PickTwiceElements`). `ConcatThree`, `PlaceOfThree` and
`ReverseProperties` are facts about lists that the actions of `CommandLine`
rest on.

**Fetch** (`FetchAssumption`). `TypeCorrect`, `CacheIsVerified`, `FetchDelivers`
(where rename replaces), `CancelWorks` and `FetchIsAtomic`. The invariant ties
stages to the temporary file: what is published was accepted. `FetchIsAtomic` is
`AtomicCache`: `StepSimulation` maps each step to one of `EggCache` or to a
stutter. `NoTemporaryFiles`: a process that is not downloading has no temporary
file, unless it was killed, or its rename failed; then the file is the verified
egg.

**Repair** (`RepairAssumption`). `NeverHalf`, `NothingLost` and `RunRepairs`, from
an invariant that says what a working directory may hold (`Working`: files of the
repaired one only, so that what a killed run left does no harm) and how far the
repair of the current egg has come (`Reached`).

**CommandLine**, with `Bootstrap` and `MachineCLI`, for any packages, indices,
lower prefix, cache and commands (`CommandLineAssumption`: a package is its name
and version, and what the resolver finds for one is a list of distinct projects
that ends with it, as `ResultInOrder` says; `MachineAssumption`: a call has one of
the three commands; `BootstrapAssumption`). `AlwaysVerified`: the bootstrap script
installs only verified eggs, whatever commands run between its runs. `BootInv`
adds to `BootstrapVerified` what the egg beside the script is at each step
(`SavedAt`); `CommandLeavesBoot` and `ExecuteOfACommand` show that no command
touches it, and that an enstaller they install comes from the indices.

`ErrorsChangeNothing`, `NoProjectLost` and `DoneMeansDone` come from one
invariant, `CmdInv` (`CommandInvariant`):

| Part | Says | Without it |
|---|---|---|
| `Busy` | which kind of command is at which stage, and that the script runs only when none does | a call of the executor might take a branch of enpkg |
| `Unique` | the prefix has one version of a project; the script installs into one without enstaller | a removal by name might leave another version behind |
| unchanged | until its work begins, in a dry run, and when it crashes, a command has changed nothing | |
| `Keeps`, `JobsWithin` | of every project there was there is a version, but for those the command may remove; and no requirement left is about removing another | an interrupted job might hide a loss of the next one |
| `IsPlanOf` | the actions are what the first job needs: a removal, a replacement that meets the requirement (`IsInstallation`), or those of a revert, of which none can run | executing them might do anything |
| `Pending` | what was asked for is there or still to be done, or was declined and is untouched, and nothing that is still to be done would undo it | `DoneAsAsked` says nothing before the last job |

The lemma about the code is `InstallActionsProperties`: the list that
`Solver._install_actions` builds by prepending removals and then downloads, read
off action by action from the plan and the prefix, for any plan. From it
`PlanIsInstallation`: what is installed replaces every other version of its
project, which is removed before, and nothing else is removed. `MadeUnique` and
`MadeKeeps` say what such a list makes of a prefix, wherever it is stopped;
`PendingInstalled` and `PendingRemoved` what is then left to do. That several
options of the command line exclude each other is counted (`OneOption`).

**History** (`HistoryAssumption`: a finite set of eggs, and logs to begin with
that can be read in one way). `LogIsUpToDate`, `RaisesOnBrokenLog` and
`RevisionsAreStable`, from `WholeInv` (`LogInvariant`): as long as no line was cut,
`LogInv` holds, which has the parts

| Part | Says | Without it |
|---|---|---|
| `Readable` | there is one list of states that the log may mean | a section could be read as two states, or the next one change nothing that is there |
| `Reads` | an update that creates the log is alone with an empty one; one that reads or appends has a log with a section; and what it read is still the state, unless another process wrote | changes would be written relative to a state the log does not have |

The lemma the rest hangs on is `SectionAdded`: a section at the end of any log
leaves all sections as they are (`SectionsOfBoth`, from where the headers are,
`HeaderOfBoth`), so the states of the longer log are those of the log and one
more. `PartApplied` says that a part of the changes, as a stopped writer leaves
it, also makes one state of a state, `AllApplied` that all of them make the state
they are for; and `PartIsText` that each beginning of a section is a section
itself, or nothing.

**Configuration** (`ConfigurationAssumption`). `TypeCorrect`,
`AlwaysOnlyAccepted` and `AlwaysReadyAuthenticated` from `IInv`: every text a
process has read holds only known credentials (`TextsKnown`, without which
nothing would be known of what is written back), and what a process has at each
step (`Prepared`: credentials that its session has and the service accepted, or
a repository to add).
`LoginIsReadBack` and `AddedUrlIsReadBack` add `Undisturbed`: what a process finds
in the file at each step of a change as long as nobody else has written.

**Resolve** (`ResolveAssumption`: finitely many eggs, and versions that order
those of a project). `AssertionsAlwaysHold`, `ResultInOrder`, `LoopIsReal`,
`SearchIsExact`. The invariant has a part for the search (`SearchInv`: whatever a
visited egg needs is pending, or was met, and then it was skipped or its egg was
visited; and whatever was visited is in every closed set) and one for the
ordering (`OrderInv`: a pass that has added nothing has found an unmet need in
each egg it looked at). The key to the assertions is `NeedsMet`: what is skipped
is shadowed by a requirement of the root that is not, and so is there; and for
the same reason `Replace` never takes a requirement that was skipped. That there
is a latest egg at all (`LatestExists`) follows from the numbers of later ones,
which have a least one.

**RepositoryFactory** (`FactoryAssumption`). The theorems of `SessionEtag` carry
over, as every step is one of its or leaves its variables alone (the lemma
`PoolOfContexts`); so `FactoryServedThroughCache`. `FactoryLeavesNothing` adds that the call is
over only when every context has ended, and needs `SessionRestored`.
`FactoryCollectsAll` is `RepositoryComplete`. Its invariant `Collected` counts:
while the caller is in the inner loop, each package of the index at hand is in
`adding` or once in the repository, those of the merged ones are there once, all
others not at all; and a task that was looked at keeps its result. It rests on
`AddPackageInserts` (`add_package` puts the new package at one place and moves
the rest) and `InsertionCounts` (so it changes the count of that package by one,
and no other).

**SessionEtag** (`EtagAssumption`: a finite set of contexts).
`CounterCorrect`, `AlwaysServedThroughCache`, `AlwaysOneCache`,
`SessionRestored`, from mutual exclusion of the locked steps, the count (with
the cardinality theorems) and `Layout`, which says what the stacks, the adapters
and the open cache look like at each step of the context that owns the lock.

**Repository**, with `PackageMetadata`, for any stores and indices
(`RepositoryAssumption`: versions are numbers in their order, names of entries are
in lower case, as `_RequirementNormalizer` says of the index, and a tag that is
given names a Python, or is null). `RepositoryIsBag` is `KnowsItsPackages`: every
operation is one of `PackageSet`, with the answer that the bag gives to the
question (`EveryStepOfBag`). It rests on `InsertProperties`
(`add_package` leaves a list sorted, with the new package once more and the others
as often as before), `PickPlaces` (what a filter keeps is there as often as
before), and on the answers one by one: what is last in a sorted list is a newest
package of its name (`LastIsNewest`), and `iter_most_recent_packages` lists one of
every name (`RecentListed`). `DependenciesAreFound` and `MetadataAlwaysSurvive`
need more of the invariant:

| Part of `RepositoryInv` | Says | Without it |
|---|---|---|
| `ListsOK` | each list has packages of its name only, sorted; there are finitely many | the last one would not be the newest, and the answer about the newest of every name no list |
| `LoadedPackagesThere` | what `parse_index` made of a loaded index is there, or about to be added, if nothing of that name was deleted | nothing would be known of the packages during the loop |

`PackageFacts` carries the assumption from the entries to the packages: their
requirements are normalized already (so reading them alone leaves them as they
are, `ReadAgain`), and their tag is never missing. The exception in
`MetadataSurvive` comes from this proof: `ReadAgain` has it as a hypothesis, and
TLC finds the two eggs when it is left out.

Only model-checked: liveness and fairness (`Terminates`, `CallEnds`,
`FetchEnds`) and ENABLED.

## 5. Not modelled, and the plan

* No state to speak of: parsing and comparing versions and requirements (their
  order is a constant), progress bars, egg tools, vendored code.
* `SolverMode.FLAT` calls methods that do not exist and has no caller.
* The HTTP cache behind the etag context (`DBCache`, keyed by host and path):
  which response it answers with is external.
* Of the configuration: YAML files, which are only read, `Configuration.write`,
  which nothing calls on an existing file, and `APITokenAuth.change_auth`, which
  no command calls.
* Of the command line: `--sys-prefix` as the top prefix; a requirements file that
  `--freeze` did not write (a blank line raises in the middle); the texts printed.
  A revision to revert to is any set of packages.
* Of the repair: a dry run.
* What the in-place update would do after the download it never gets through.

Planned, in this order:

1. `CommandLine` implemented by `Enpkg`: an action in one step.
2. The answers of the HTTP cache, and what a stale one makes of the repository.
