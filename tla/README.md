# A verification model of the Yandex Cloud guest agent

The repository holds two programs that run inside a virtual machine. The
*agent* (`yandex-guest-agent`, one for linux and one for windows) watches values
in the instance's metadata and carries out what they ask for: sets a user's
password, installs ssh keys, writes secrets to files; it answers on a serial
port. The *updater* (`yandex-guest-agent-updater`, windows only) installs,
updates, rolls back and removes the agent as a Windows service, from a small
repository of versions on the disk.

This directory models the parts where the order of events matters: what an
update leaves behind when it fails or is killed half-way, what a request
does when it is delivered again, interrupted or half-executed, what the agent's
handlers leave in the files they rewrite in place, and what its goroutines do to
each other's changes and messages and to its end.

## 1. Inventory

Paths are below `src/`.

| component | state it keeps | operations | used by | what is hard | what makes it correct |
|---|---|---|---|---|---|
| version repository, `pkg/repo/localFiler.go` | a directory per version with executable and checksum; the list `versions` in memory | `Init` (load, validate, rotate), `Add`, `Remove`, `Get`, `List` | updater | death or write errors between two writes; list and disk disagreeing; the rotation's recursion | an addition is atomic; no intact version is lost from sight; only oldest versions are given up; rotation ends |
| updater, `windows/internal/updater/updater.go` and its command | the agent's executable; nothing across commands | `Init`, `Check`, `Update`, `Remove`, `Start`, `Stop` | an administrator, the scheduler | every step of `install` can fail; rollback; kill and restart in the middle; what one command leaves behind for the next | the service never runs without its executable; a success means installed; no downgrade; the rollback is tried; `check` and `update` agree |
| service manager, `windows/internal/service/manager.go` | handles to the control manager | `IsExist`, `IsStopped`, `IsRunning`, `Start`, `Stop`, `Create`, `Delete` | updater | the service changes state by itself between query and control; entries marked for deletion | each call ends; its result is that of the state seen |
| users handler, `*/internal/handlers/users` | hash of the last request, in a file or the registry | `Handle` (validate, record, execute, answer) | watcher | repeated delivery; death between recording, executing and answering; half-made accounts | a posted request is executed at most once and in order; answers are true; a request is taken up in the end |
| user manager, `linux/internal/usermanager`, `windows/internal/winapi` | accounts, groups, `authorized_keys` | `Exist`, `CreateUser`, `SetPassword`, `AddToAdministrators`, `AddSshKey` | users and ssh-keys handlers | one change of several fails; read-modify-write of `authorized_keys` | an account's change is reported true; `authorized_keys` loses lines only to other programs' edits, those it overlaps and short scans, and gains only keys that were asked for |
| command executor, `linux/internal/executor` | none | `Run` | user manager | a command killed by its time limit may have done its work | the error says nothing about the effect |
| watcher and poller, `pkg/meta` | `lastETag` per value; one mutex for all handlers | `AddWatch`, `watch`, `Get` | guest service | a handler that hangs holds the mutex; the tag is stored before the body is read | a change is handled in the end, one handler at a time |
| ssh-keys handler, `linux/internal/handlers/sshkeys` | sha of the last value answered, in memory | `Handle`, `processRequest` | watcher | a failed value is remembered as processed; a nil pointer after a failed lookup or `Stat` | what was told to be installed is, in files that are their user's; a value is answered in the end |
| secrets handlers, `linux/internal/handlers/{kmssecrets,lockboxsecrets,managedcertificates}` | sha of the last value answered, in memory; files | `Handle`, `process` | watcher | one secret of several fails; files written in place; a response lost | what a response said of a file is so until it is rewritten; a value is settled in the end |
| secret fetchers, `linux/internal/{kms,lockbox,cm}` | none | fetch | secrets handlers | remote failures | none of their own |
| file persistence, `linux/internal/persistance` | files | `Write` | secrets handlers | truncate, then write; death in between | a call that succeeded left the whole secret |
| serial port, `pkg/serial` | one global port, a mutex per writer | `Init`, `WriteJSON`, `Close` | handlers, heartbeat | the mutexes do not exclude each other; a write that fails half-way | what was reported as written is a line of its own |
| heartbeat, `pkg/heartbeat` | a ticker | `Start` | guest service | beside the handlers' writes | beats until stopped |
| guest service, `*/internal/guest` | the watcher's context | `Start`, `Stop`, control handler | service manager or systemd | stop racing handlers | stopped means nothing runs |
| registry, `windows/internal/registry` | properties | read, write | users handler (windows) | an error after the value was set | a property is read whole |
| messages, passwords, http client, logger | none | pure or plain I/O | all | nothing with state | - |

Who calls whom: the service manager of the machine runs the agent; its watcher
polls each value in a goroutine of its own and calls the handlers under one
mutex; handlers write to the serial port. The updater is a separate process,
started per command; it shares with the agent only the agent's executable and
the service's entry.

## 2. Modules

| module | models | state |
|---|---|---|
| `VersionStore` | abstract: what the repository promises | `stored` |
| `LocalFiler` | the repository, write by write | `dirs`, `exe`, `sum` on disk; `versions` in memory; `rpc`, `arg`, `pending`: the running call |
| `LocalFilerProofs` | theorems about `LocalFiler` | |
| `ServiceManager` | the service manager's client, the control manager's entry and the service process | `entry`, `state`, `leak`, `spc` |
| `Updater` | the updater's commands; composes `LocalFiler` and `ServiceManager` by `INSTANCE` over shared variables | `installed`, `torn`; `upc`, `cmd`, `latest`, `from`, `target`, `rolling`: the running command |
| `AgentLifecycle` | abstract: when the agent's executable may come and go | `agent`, `registered`, `running` |
| `UpdaterProofs` | theorems about `Updater`, and about the repository inside it | |
| `AtMostOnce` | abstract: how often and in which order requests may be executed and answered | `posted`, `done`, `told` |
| `UserHandler` | the users handlers of both agents (`platform`), with the parts of user manager, executor and registry they use | see the module |
| `UserHandlerProofs` | theorems about `UserHandler` | |
| `Delivery` | abstract: which versions of a watched value a handler may be handed, and when | `value`, `handled`, `stopped` |
| `MetadataWatcher` | the watchers' goroutines, their pollers and their mutex | `pc`, `lastETag`, `data` per value; `m`, `cancelled`; `value` at the metadata server |
| `GuestService` | the agent's process around them; extends `MetadataWatcher` | `spc`, `status`, `asked`, `asService` |
| `GuestServiceProofs` | theorems about `GuestService` | |
| `SshKeys` | the ssh keys handler with the user manager's `AddSshKey` and the account it needs | `posts`, `cur`, `i`, `hpc`: the running call; `last`; `accounts`, `dir`, `file`, `keys` at the machine; `answers`; `moved`, `gone` and `cut`, for what other programs and short scans do |
| `SshKeysProofs` | theorems about `SshKeys` | |
| `SecretsHandler` | the three secrets handlers (`kind`), their fetchers and `WriteFile` | `posts`, `cur`, `todo`, `at`, `hpc`: the running call; `last`; `disk`; `answers`; `promised`, for the properties |
| `SecretsProofs` | theorems about `SecretsHandler` | |
| `SerialPort` | the serial port, its writers, and the heartbeat | `agent`, `pc`, `tick`; `wl`, `portLock`: the mutexes; `line`, `broken`: what the reader has; `whole`, `excused`, for the properties |
| `SerialPortProofs` | theorems about `SerialPort` | |
| `MCLocalFiler`, `MCUpdater`, `MCUserHandler`, `MCGuestService`, `MCSshKeys`, `MCSecrets`, `MCSerialPort` | the small instances | |

`PROJECT.json` names the source lines of every definition.

### How they correspond to the code

*LocalFiler.* `Init` is `CallInit`, `ReadDir`, a `ScanEntry` per directory entry
and `LoadDone`; when there are too many versions, `EvictOldest` (the code's
`Remove`, which calls `load` again) leads back to `ReadDir`. `Add` is `CallAdd`
(the checks), `AddMkdir`, and two steps for each of the two copies, creation and
contents. A file is absent, torn or whole. A version is `Stored` when
`validateVersion` would accept it. Kept as the code has it: an entry that fails
validation is removed, but its name enters the list all the same
(`localFiler.go:101`); the error of copying the checksum is not returned
(`localFiler.go:229`). The list is a set, since it never holds a name twice and
each reader sorts or searches it.

*ServiceManager.* `Start` and `Stop` send a control, then look once
(`StartTick`, `StopTick`), because their `select` is not in a loop. `Create`
leaves a handle open (`leak`) until the process ends. What the control manager
and the service do is external: `StartService`, `Sweep`, `ServiceGoes`,
`Reboot`.

*Updater.* A command is `Begin`, the repository's `Init` (`RepoReady`), the copy
of the installed version into the repository (`MaybeAddInstalledVersion`,
`AddedInstalled`), then its own steps. `Update` is `EnsureLatestAdded`,
`Choose`, then the steps of `install`: `EnsureNoService` .. `Wipe` (shared with
`Remove`), `EnsureCopy`, `Copied`, `EnsureService`, `Start`, `Started`.
`InstallFails` is where each of them goes on an error: once into the rollback
(`getRepoPrevious`), then to the end. `Check` changes nothing and is the
operator `CheckActions`. The process may be killed (`Exit`) and the machine
restarted (`Reboot`) between any two steps. Seen from outside, all of this is
`AgentLifecycle`: of the executable, its version once it is whole (`installed`);
of the service, whether it is registered (`entry = "present"`) and whether it
runs, comes up or stops.

*UserHandler.* A delivery (`Get`) is taken through `CheckHash`, the recording of
the hash (`TruncateHash`, `WriteHash` on linux, `WriteStringProperty` on
windows), `CheckTimestamp`, `Generate`, the account's changes and `Respond`.
Passwords are the execution that generated them, hashes the requests
themselves. A call of the operating system may fail before or, on linux, after
its effect (the executor kills a command at its time limit). `Crash` restarts
the agent.

*MetadataWatcher.* A goroutine goes `Loop`, `Op`, then, while it waits for the
metadata server, `Answer` or `NoAnswer`, then `ReadBody`, `Lock`, `Handle`,
`HandleReturns`. A version is its own tag. `Answer` needs no condition on the
tag: a request with an old one is answered at once, one with the current tag
when the value changes or the long poll times out. `OpFails` is where each error
goes: `backoff.Retry` tries again until its minute is over, also after the
context was cancelled, and `watch` then goes round. `UserHandler` begins where
this module ends: its `Get` is `HandleReturns` followed by a `Handle` of the
current value.

*GuestService.* `Run` is `Start`, then `WaitReturns` (console, linux) or the
control handler (`ExecuteBegins`, `ExecuteBreaks`, `UnknownCommand`, `Stop`),
then `Exit`. `Signal` is the goroutine that calls `stop` on a signal. Between the
return of `Run` and the end of the process the goroutines may still take steps.

*SshKeys.* A delivery is taken through `Parse`, then for each entry of the value
the checks of its user (`ValidateUser`, `Exist`, `CreateUser`, `LookupUser`) and
`AddSshKey`: `StatSshFolder`, `MakeSshFolder`, `StatKeysFile`, `CreateKeysFile`,
`ReadKeys`, `OpenKeys`, `WriteKeys` (`appendKey`), `ChownDir` and `ChownFile`, then
`Respond`. A look and what is done upon it are two steps, since other programs
(`Edit`: cloud-init, the user) make and edit the files between them: `Create`
empties a file that was made since its `Stat`, `Mkdir` fails. Only the opening,
reading and closing of a file are one step, `ReadKeys`.
`authorized_keys` is the set of its whole lines: the code searches it for a line
and writes back the lines it read and the key, in their order, from the start of
the file and without truncation. So a write that is cut short leaves each line
that was read; of what the file holds beyond that, or of all of it if it is no
longer what was read, any line may be gone (`rest`, `some`). `ReadKeys` may see a
part of the lines (`MayMisread`): `bufio.Scanner` ends on an error, or a line of
more than 64 KB, as at the end of the file. Three variables are no part of the
program and tell the reasons of a loss apart: `moved`, that another program has
edited the user's file since the handler looked at it (`Stat` or the scan);
`gone`, the lines that an edit took or that were lost while `moved`; `cut`, those
the handler lost by itself, because its scan had ended before them. `Panic` is a
nil pointer taken for a user (`handler.go:124`) or a file's info
(`user_manager.go:164`). Files are taken to end their lines with `\n`.

*SecretsHandler.* `Parse`, a `Fetch` for each file in any order (a map's, for two
of the three handlers), `OpenFile` and `Copy` of `WriteFile`, `Respond`. The three
differ in one thing, which `kind` tells: the lockbox handler returns without a
response when the value does not parse. `Crash` may take what was written and
never synced.

*SerialPort.* A goroutine goes `Begin`, `Lock` (the mutex of its package's
writer), `Enter` (the lock of the port below), `WriteBody`, `WriteEnd`, `Done`; the
heartbeat comes back through `Beat` and `Select`. `Beat` logs what came of the
message; where the log has its sink at the port (`log-disable-serial`, which
switches it on) and its level lets the line through, that is a second write of the
same goroutine, through the logger's writer: the client `BeatLog`, until
`BeatReturns`. A line is its body and its end,
so that a failure or a death may leave a part of it, which the next writer's line
is appended to. `OpenPort` is `serial.Init` with its retries.

The handlers' modules begin where `MetadataWatcher` ends: the `Get` of each is
`HandleReturns` followed by a `Handle` of the current value. Each handler has
files and a record of its own, and they run one at a time (`OneAtATime`), so they
are checked apart.

## 3. Runs

| run | question | bounds |
|---|---|---|
| `repository` | does the repository implement `VersionStore`, lose no intact version, clean the disk, end its rotation? | 3 versions, one of which may spoil, and a foreign name; room for 2 |
| `updater` | the updater's safety, that it implements `AgentLifecycle`, and that every command ends | 3 versions of which one comes up for certain, room for 2 |
| `users` | at most once, true answers, and a request is taken up in the end, on both platforms | 3 posts over 3 requests (one for a user, one of a later time for another, one that does not parse), 3 executions, 1 tick of time, 1 crash |
| `agent` | handlers one at a time, versions in order, every change handled, every stop ends | 2 watched values, 2 versions of each, 1 failure of the server |
| `sshkeys` | keys that were told are installed, no line is lost, none comes unasked, a value is answered in the end | 2 posts over 3 values (a key; another for the same user, one for a user of the system, which other programs write too, and one for a bad name; one that does not parse), 1 edit by another program, which may make the file, 1 crash |
| `secrets` | responses stay true of the files, a value is settled in the end | 3 posts over 3 values (two for common files, one that does not parse), 2 crashes, the three handlers |
| `serial` | what was reported as written is received, the heartbeat goes on | heartbeat with its message and its log line, a handler, two goroutines that share the logger's writer with the heartbeat's log; deaths and restarts without limit |

and five runs in which TLC finds the program at odds with what it says of itself
(section 6).

*Why the bounds are enough.* Three versions with room for two make rotation
happen, with one version to keep, one to give up and one to add; the updater
needs one version installed, one above it that fails and one between or below
to fall back to. Runs of the updater are not bounded in length: commands,
kills, restarts and state changes of the service recur without limit, since all
state is finite. For the users handler the third post is the first that
can come back after another one, one crash can hit any step, and with a time
frame of nothing in a time of one a request is early, valid or late. For the
ssh keys a second post, or a crash, is what finds the account half made and the
file half written; one edit can come between `Stat` and `Create`, or between reading
and writing; and one value
mixes a user who is accepted with two who are not. For the secrets the third
post is the first that can return to a value after another, and the second crash
the first that hits a repair. At the port, five clients have three for one
mutex and three mutexes for the port. Two goroutines
are enough to contend for the mutex, and two versions for one to overtake the
other; the failure may lose the answer to either of them, before or after its
tag was stored. Stop requests, signals and unknown commands may come at any time.
`agent` does not check deadlock, since the process ends.

*Fairness.* `WF` of the steps of a call, process or handler that has begun: the
operating system schedules a runnable process. Nothing is assumed about
commands being issued, the service coming up, kills, or failures. That a request
or a value is taken up in the end (`PostTakenUp`, `ValueAnswered`,
`ValueSettled`) is stated of the behaviours in which failures end,
`<>[][~Fault]_vars`, and only of those, as no retry helps against a call that always
fails; crashes are bounded by the model, that is, they end.
`CommandEnds` and `LoadTerminates` accept a killed process as ended. In
`GuestService` each goroutine and `Run` has `WF`, the metadata server included,
since a long poll ends after its 60 s; a handler returns since its context ends
after a minute (`eventbus.go:66`); failures are bounded, that is, they end. The turn at the
mutex has `SF`, as it is not continuously enabled while others take theirs:
`sync.Mutex` hands itself to a goroutine that has waited for a millisecond. Signals, requests
and changes are not assumed to happen. In `SerialPort` the heartbeat's loop has `WF`
and each client's steps `SF`, since both locks it takes are Go mutexes others may
be ahead at; a write returns in the end.

## 4. Properties

| property | says | would break if |
|---|---|---|
| `StoreSpec` | `LocalFiler` implements `VersionStore` | the checksum were written before the executable, or rotation took another version |
| `StoredListed` | between calls no intact version is missing from the list | `Add` forgot its append, a rotation stopped early |
| `InitCleansDisk` | after `Init` only valid versions, and those spoiled since, are on the disk | an entry were skipped |
| `LoadTerminates` | rotation ends | `Remove` did not remove |
| `RunsOnlyInstalled` | the service never runs without its executable | the directory were emptied before the service was seen stopped |
| `UpdateInstalls`, `RollbackTried` | how an update may end | the rollback's error were dropped, or it were not tried |
| `NoDowngrade` | at no moment of an update, ended, failed or killed, is the agent below the version the machine had | the rollback took any version of the repository |
| `RemoveRemoves` | a successful `remove` leaves nothing to run | an error were ignored on the way |
| `CheckPredictsUpdate` | the dry run and the update agree | one of the two comparisons were changed |
| `LifecycleSpec` | `Updater` implements `AgentLifecycle`: over any sequence of commands, kills and restarts, the executable is placed and removed only while no service is registered and none runs, and never written over another version | `Remove` went on to the directory after the service could not be deleted |
| `CommandEnds` | every command ends | `Start` waited for the service |
| `PromiseSpec` | `UserHandler` implements `AtMostOnce` | the record were written late, or not at all |
| `AnswersTrue` | a password that was told is the user's | an error of `SetPassword` were dropped |
| `PostTakenUp` | a request is answered or recorded in the end | a malformed request were dropped silently |
| `OneAtATime` | handlers exclude each other | a watcher called its handler without the mutex |
| `QuietIsHandled` | who waits for a change has handled the last one | a value were dropped because another handler is at work |
| `DeliverySpec` | `MetadataWatcher` implements `Delivery`: versions in order, none after the stop | the result of a failed `Get` were handled |
| `ChangeHandled` | a change is handled in the end | a goroutine ended on an error of the server |
| `SuccessTrue` | a key that was told to be installed is, in a file and directory of its user, across failures and restarts, until another program takes it or edits the file while the handler is rewriting it (`gone`), or the handler's own scan ended before it and the write built on that lost it (`cut`, only with `MayMisread`) | the file stayed root's |
| `LinesKept` | a line of `authorized_keys` is lost only to an edit, to a `Create` or `Write` that an edit came before since the handler's `Stat` or scan, or to a write whose scan had ended before that line; no failed call, no death and no other entry loses one | the file were opened with truncation |
| `OnlyAsked` | the file gains only keys posted for its user, and other programs' lines | the key went to the user of another entry |
| `RememberedAnswered` | a value that is skipped was answered | it were remembered although its response was lost |
| `ValueAnswered` | a value is answered in the end, after panics and kills | what does not parse were dropped |
| `PromisesKept` | what a response said of a file holds until the file is rewritten | the error of a copy were dropped |
| `ValueSettled` | a value's secrets are in the files in the end, for good, or an error was answered | a value were remembered although its response was lost |
| `WrittenIsReceived` | a message reported as written is a line of its own, unless a failed one left a part before it | writers excluded only themselves |
| `HeartbeatGoesOn` | each tick is taken as long as the agent is up | an error ended the loop |
| `StopEnds` | a stop ends the process | the control handler did not look at the context |

## 5. Theorems

**The repository.** `LocalFilerProofs` proves, for every set of names, precedence and capacity, with
or without failing writes and decaying files (`NamesAssumption` only gives the
constants their types):

- `TypeCorrect`: `Spec => []TypeOK`
- `StoredListedCorrect`: `Spec => []StoredListed`
- `InitCleansDiskCorrect`: `Spec => []InitCleansDisk`
- `ImplementsStore`: `Spec => StoreSpec`, the refinement of `VersionStore`

None of the last three is inductive. The invariant `IInv` adds: a directory
that does not exist is empty (`NoDirEmpty`, or a new one could appear with
contents); what is on the disk is in the list, in `pending`, or being added
(`AllListed`, from which `StoredListed` follows, and that the oldest *listed*
version is oldest among the *stored* ones); what is being added has no complete
checksum yet (`NotYetStored`, so that only the last write commits it) and is not
in the list (`FreshArg`); nothing is being added during `Init` (`InitNoArg`);
and what load has left behind it validates (`Cleaned`). Two lemmas say what a
removal, and one that fails half-way, does to the stored versions; they carry
the refinement's steps.

**The updater.** `UpdaterProofs` proves, for every set of versions and precedence,
every capacity of the repository, whichever versions come up, with or without
failing calls and decaying files (`UpdaterAssumption` only gives the constants
their types), and for any number of commands, kills and restarts:

- `UpdaterTypeCorrect`: `Spec => []TypeOK`
- `RunsOnlyInstalledCorrect`: `Spec => []RunsOnlyInstalled`
- `UpdateInstallsCorrect`: `Spec => []UpdateInstalls`
- `NoDowngradeCorrect`: `Spec => []NoDowngrade`
- `RollbackTriedCorrect`: `Spec => []RollbackTried`
- `RemoveRemovesCorrect`: `Spec => []RemoveRemoves`
- `CheckPredictsUpdateCorrect`: `Spec => []CheckPredictsUpdate`
- `ImplementsLifecycle`: `Spec => LifecycleSpec`, the refinement of `AgentLifecycle`
- `RepositoryListsStored`, `RepositoryStores`: `Spec => []Repo!StoredListed` and
  `Spec => Repo!StoreSpec`, the repository's promises kept inside the updater

The invariant `UInv` is the properties and what they rest on, and was checked by
TLC on the instance of `updater` before it was proved. `RepoAt` and `SvcAt` say
where the repository's and the service manager's calls are at each step of the
command, `CmdAt` and `TargetAt` which commands come to a step and when there is a
target; they are one induction (`Control`). The rest is:

- `EntryState`: a service without an entry does not run, and an entry is marked
  for deletion only while its service has stopped and a handle is open. Then
  what the service does by itself leaves the entry alone (`ServiceKeepsEntry`).
- `StoppedFirst`: from the moment `Stop` returned nil the service is stopped until
  its entry is deleted, and from then until the copy is complete there is no
  entry it could be started from. With `AgentAt`, what the executable is at each
  step, it gives `RunsOnlyInstalled` and each step of the refinement.
- `FromListed`: the version the machine had is in the repository's list before
  the command does anything else, and stays there. That needs the repository's
  own steps (`RepoStepShows`): only `Init` shortens the list.
- `TargetAbove`: the target is above what was installed, after a rollback not
  below it, whence `NoDowngrade`, since the executable is at any time what the
  command found, the target or none. It is kept because the version that was
  installed is itself a candidate of `getRepoPrevious`.

`RollbackTried` is the one that needs arithmetic: `getRepoPrevious` must find a
version. The set of versions not above the target has one nearest to it since
distances are naturals, and a set of naturals has a least element
(`PreviousExists`, `LeastNatural`). For `CheckPredictsUpdate` two lemmas say what
`Choose` and `Check` conclude from the same list (`ChooseInstalls`,
`ChooseNothing`).

The repository is not proved again. Every step of the updater is one of
`LocalFiler` or leaves it alone (`RepoNext`), so the lemmas of `LocalFilerProofs`,
instantiated over the same variables, hold here; the `Same...` lemmas say that the
two instances are one specification.

**The users handler.** `UserHandlerProofs` proves, for both platforms, every set
of requests and of garbled ones, and every bound (`UserHandlerAssumption` only
gives the constants their types):

- `UserTypeCorrect`: `Spec => []TypeOK`
- `AnswersTrueCorrect`: `Spec => []AnswersTrue`
- `ImplementsPromise`: `Spec => PromiseSpec`, the refinement of `AtMostOnce`,
  assuming `~MayMisread`, that is, that the record can be opened; without it the
  request of a record that cannot be is executed again (`users_request.go:63`).

The invariant `WInv` follows an execution: it is that of the post in hand and
not yet answered (`Executing`), what was told is an execution's and of its post
(`Told`), and the account has, step by step, what the answer will say of it
(`Account`; `TypeOK` needs it too, for `admins \subseteq accounts`). The lemma
`Grows` says that accounts and administrators only come and that a step changes
the password of its own user only; from it an answer stays true
(`AnswerStays`). For the refinement, `PInv` adds that executions are in the
posts' order (`InOrder`), that the value, when it was executed, is the recorded
one, and so is the post in hand when its record is looked up (`Recorded`), and
that a post which has passed the check was not executed before (`Fresh`). The
second part of `Recorded` is what the crash between truncating and writing the
file depends on: the record may be lost only for a post that was not executed.

**The agent.** `GuestServiceProofs` proves, for every set of watched values and
every number of versions and failures (`WatcherAssumption`: both are naturals):

- `AgentTypeCorrect`: `Spec => []TypeOK`
- `OneAtATimeCorrect`: `Spec => []OneAtATime`
- `QuietIsHandledCorrect`: `Spec => []QuietIsHandled`
- `ImplementsDelivery`: `Spec => DeliverySpec`, the refinement of `Delivery`

The invariant `GInv` says which goroutine the mutex belongs to (`Held`), that
what was got lies between what was handled and what the value is now
(`Ordered`, whence versions are handled in order although each answer is old by
the time its handler runs), which version the tag in a goroutine's next request
is of (`Tagged`), and that nothing runs before `start` (`NotStarted`).

**The ssh keys.** `SshKeysProofs` proves, for any values, users and keys and every
bound, with or without failing calls and scans that stop early
(`SshKeysAssumption` only gives the constants their types):

- `SshKeysTypeCorrect`: `Spec => []TypeOK`
- `SuccessTrueCorrect`: `Spec => []SuccessTrue`
- `OnlyAskedCorrect`: `Spec => []OnlyAsked`
- `RememberedAnsweredCorrect`: `Spec => []RememberedAnswered`
- `LinesKeptCorrect`: `Spec => LinesKept`
- `UncutCorrect`: if `~MayMisread`, `Spec => []Uncut` (`cut = {}`): with scans that reach the
  end of the file, `SuccessTrue` has no exception but edits

The invariant `HInv` says how far the handler is with its entry (`Halfway`), that
every entry before it is installed (`Earlier`, which turns into `SuccessTrue` when
the loop is over), that answers are of posts (`AnswersPosted`), and that what was
read and is about to be written was asked for (`SeenAsked`). One lemma says that
what is installed stays so over every step. `LinesKept` needs two facts more
(`FileFound`): a missing file holds nothing, and what is about to be created is
still missing unless it has `moved`; without them nothing would say that `Create`
finds an empty file. `UncutCorrect` adds that what was read is all of the file unless
it has `moved` (`AllSeen`).

**The secrets.** `SecretsProofs` proves, for any values, files and secrets and the
three handlers (`SecretsAssumption`, `TornIsNoSecret`):

- `SecretsTypeCorrect`: `Spec => []TypeOK`
- `PromisesKeptCorrect`: `Spec => []PromisesKept`

The invariant `PInv` says that the files the loop has behind it hold what the
value wants (`LoopDone`), that the loop is at files of the value (`AtNamed`,
`AtClear`), and that nothing is promised of the file being written
(`Unpromised`).

**The serial port.** `SerialPortProofs` proves, for any clients and writers
(`SerialPortAssumption`: names do not clash):

- `SerialTypeCorrect`: `Spec => []TypeOK`
- `WrittenIsReceivedCorrect`: `Spec => []WrittenIsReceived`

The invariant `LInv` says that who holds the port's lock is alone in its `Write`
(`Alone`), what the line holds when he begins and ends (`AtBegin`, `AtEnd`), and
that between two writes it is empty unless a failure left a part (`Between`). The
writers' own mutexes are not needed.

Only model-checked: liveness everywhere (`LoadTerminates`, `CommandEnds`,
`PostTakenUp`, `ChangeHandled`, `StopEnds`, `ValueAnswered`, `ValueSettled`,
`HeartbeatGoesOn`), since proofs of it, and of `ENABLED`, are out of the prover's
reach. Every invariant, action property and refinement that a run checks is also
a theorem.

## 6. Where the program differs from what it says

| run | what happens |
|---|---|
| `repository_phantom` | `Init` goes on listing the entries it has removed (`localFiler.go:101`) |
| `updater_slow_start` | a version that needs longer than one second to come up is rolled back (`manager.go:218`) |
| `updater_leak` | the rollback finds the entry marked for deletion and cannot start it (`manager.go:312`) |
| `updater_torn` | after a kill during the copy no command works, `remove` included (`updater.go:594`) |
| `secrets_stale` | a value is skipped although the files hold a later one's secrets: the hash kept is that of the last value whose response was written (`kmssecrets/handler.go:51`) |

Known and without a run: `Add` drops the error of copying the checksum and
returns nil (`localFiler.go:229`), and the next `Init` deletes the version; an
account whose creation failed half-way is found by the next request and never
becomes an administrator (`users_handler.go:232`); the rollback takes the next lower version of the
repository, which need not be the one that was installed or one that ever
worked (`updater.go:408`); `check` reports an update that `update` refuses when
the server does not answer (`updater.go:190`); only the last request is
remembered, so that one which comes back after another is executed again while
its timestamp is valid (`users_request.go:74`) - `AtMostOnce` therefore counts
posts, not requests; a record that exists but cannot be opened counts as none,
and its request is executed again (`users_request.go:63`); `stop` waits for the
context it has just cancelled, that is, not at all, and the process ends beside a
handler at work (`guest.go:108`, on windows `guest.go:230`); lines of
`authorized_keys` are lost when the scan ends early, when another program writes
between reading and writing (`user_manager.go:181`, `:199`), or when it makes the
file between the `Stat` that misses it and the `Create` that empties it
(`user_manager.go:137`, `:139`) - `LinesKept` names these as the only ways, and no
document of the repository promises otherwise; a lookup that fails
counts as that of a new user, so that a user of the system passes the check
(`user_manager.go:237`); the lockbox handler gives no answer to a value that
does not parse.

## 7. Not modelled

Contents of downloads and the temporary files that failed ones leave behind
(`updater.go:488`), which no other state depends on. Two updaters at once: nothing
locks the repository against them and nothing in the code or its documents says
what should happen. The version an executable reports is taken to be that of its
directory. Encryption, JSON, base64 and the composition of passwords; requests of
the HTTP client succeed or fail. Retries of opening a registry key. `Install` and
`Uninstall` of the agent, one call to the control manager each. Logging, but for the
logger's turns at the serial port. Ends of lines other than `\n` in
`authorized_keys`, its removal or replacement by another file (a rename over it), and
edits between the opening and the last read of it by the handler. A port that never returns from a write. What nothing in the
repository calls: `GetLocalNonSystemUsers`, `Wait`, `Close` of the port, the
accounts' flags on windows.

## 8. Plan

1. Done: repository, service manager, updater, users handler, watcher and
   poller, guest service, ssh keys, secrets, serial port and heartbeat, with proofs
   of their safety properties and refinements.
2. The watcher and a handler composed: what `AtMostOnce` and `Delivery` say
   together of a request.
3. Two updater processes on one repository.
