# p0-agent in TLA+

p0-agent is the daemon (`p0-ssh-agent`) that a machine runs so that a backend can grant and
revoke SSH access to it.  It keeps one WebSocket to the backend, receives provisioning
requests over it, and carries them out with external commands under sudo.  The modules here
model its connection life cycle, its life as a systemd service, its provisioning scripts and
its installation on Linux and NixOS, translated from the Go source; TLC checks them on small
instances, and TLAPS proves the safety properties and the refinements for every value of the
constants.

    tlc -config AgentClient_safety.cfg AgentClient      # a run: see the table below
    tlapm AgentClientProofs.tla                         # the proofs

## 1. The system

| part | source | state | operations |
|---|---|---|---|
| connection life cycle | `internal/client/client.go`, `internal/rpc/rpc.go`, `cmd/start/handler.go` | the current context, stop channel, socket and jsonrpc2 connection; the flags `reconnecting`, `isShutdown`, `gracefulShutdown` | `Run`, `connect`, the `onConnected` callback, the heartbeat monitor, `forceReconnect`, `Shutdown`, `Call`, `Close` |
| backoff | `internal/backoff` | attempt count | `Next`, `Reset` |
| key and sudo scripts | `scripts/shared.go`, `provision_keys.go`, `provision_sudo.go` | `authorized_keys`, `/etc/sudoers-p0`, `/etc/sudoers` | grant and revoke of keys, CA keys, sudo rules |
| user script | `scripts/provision_user.go`, `internal/osplugins/userutil.go` | `/etc/passwd`, `/etc/group` | grant |
| session script | `scripts/provision_session.go` | the user's processes | revoke |
| service | the unit file in `internal/osplugins/linux.go`, the module in `nixos.go` | systemd's count of starts, the pause | start, restart, giving up, `systemctl stop` |
| installer | `cmd/register`, `cmd/keygen`, `cmd/uninstall`, `cmd/status`, `internal/osplugins`, `internal/jwt` | program, key files, unit or module file, configuration, boot link; the backend's hosts | `register`, `keygen`, `status`, `uninstall`; by the operator: start, enable, rebuild |
| configuration | `internal/config`, `types` | the file | loaded and validated by `start` and `status` |
| the rest | JWT creation, the `command` and `version` subcommands, machine identity, logging | none that changes | see section 6 |

**How they interact.**  `start` loads the keys and the configuration that `keygen` and
`register` wrote and calls `Run`.  `connect` dials, with delays from the backoff; when a
socket opens it starts the callback, the callback starts the heartbeat monitor, and either of
the two calls `forceReconnect` when a call fails, which tears down and starts a goroutine that
calls `connect` again.  The read loop of each connection runs request handlers itself, and a
handler runs one script.  The scripts share nothing but files, the user database and the
user's processes.  A signal makes another goroutine call `Shutdown`.  When the process ends,
systemd starts it again, until its limit of starts is reached; the installer writes the unit
file that says so, and `status` judges what the installer has left.

**What is hard.**  No goroutine is joined, and the shared fields `c.ctx`, `c.cancel` and
`c.heartbeatStop` are read and written without a lock, so the order of single statements
matters.  Scripts of an old connection outlive it, and the `command` subcommand runs scripts in
a process of its own, so scripts overlap on files nobody locks.  Each script is a sequence of
external commands, each of which may fail or be the last one before the process ends; there is
no undo, and the next attempt starts from what is left.  The state is text in files, found by
`grep -F` and cut by `sed` ranges.

**What makes each part correct.**  The connection: one goroutine looks after it at a time; a
loss is noticed and repaired; a signal or a rejection ends the process.  The backoff: delays
within bounds, growing.  The scripts: what a success reports is true of the files, whatever
was interrupted before and whatever overlaps; a revocation removes what its grant added and
nothing else.  Users: accounts that share nothing.  Sessions: none of the processes found is
left.  Service: an outage never makes systemd give the agent up, and the agent is back soon
after it.  Installer: success means an agent that can start and that the backend knows, or one
that is gone.

## 2. The modules

| module | what it models |
|---|---|
| `Supervision` | abstract: the duty of looking after the connection, handed on in a fixed order |
| `AgentClient` | the connection life cycle, statement by statement where goroutines share state |
| `AgentClientProofs` | proofs about `AgentClient`: one supervisor, the latch, the stop channel |
| `AgentClientRefinement` | proofs about `AgentClient`: one live link, and that it implements `Supervision` |
| `Backoff`, `BackoffProofs` | the delays and their overflow; proofs |
| `Service`, `ServiceProofs` | composes `Supervision`, `Backoff` and systemd, in discrete time; proofs |
| `AccessLog` | abstract: a file of grants as a log |
| `Provisioning`, `MCProvisioning`, `ProvisioningProofs` | the grant and revoke scripts, command by command; instances; proofs |
| `UserAccounts`, `MCUserAccounts`, `UserAccountsProofs` | user creation; instance; proofs |
| `SessionKill`, `MCSessionKill`, `SessionKillProofs` | ending a user's processes; instance; proofs |
| `Installer`, `InstallerProofs` | register, keygen, status and uninstall with both plugins; proofs |

### AgentClient

Goroutines are processes with a control location `pc[p]`.  `Main` is `Run`, `Signal` the
goroutine that calls `Shutdown`, `OnConnected(k)` and `Heartbeat(k)` belong to connection `k`,
`Reconnector` is the goroutine of `forceReconnect`.  `Reconnector` is one process although the
program starts a new goroutine each time; `NoReconnectorOverlap` shows that this loses nothing.
Contexts and stop channels are numbered: `ctx` and `heartbeatStop` are the current ones,
`cancelled` and `closedStop` the ones that are done, and a waiting goroutine keeps the number
it waits on.  Two contexts must not be confused: the client's, which `resetContext` renews,
and that of `rpc.Client` (`rpcCancelled`), which nothing renews.

| control locations | code |
|---|---|
| `check` `dial` `setWs` `setConn` `backoff` | `connect`, `connectOnce`, `ConnectWebSocketWithContext` |
| `call` `await` | `Call` of `setClientId`, by the callback and by `sendHeartbeat` |
| `spawn` | the end of the callback, which starts the monitor |
| `start` `select` | the loop of the monitor |
| `enter` `closeStop` `renewStop` `closeConn` `closeRpc` `cancel` `renewCtx` | `forceReconnect` and `resetContext` |
| `mark` `closeHeartbeat` `cancelCtx` `shutRpc` | `Shutdown` |
| `returned` `rejected` `waiting` `skipped` `gaveUp` `done` | where a goroutine rests or has ended |

Every access of a field another goroutine writes is a step of its own.  The steps under
`reconnectMu`, `connMu` and the rpc client's `mu` are atomic.  `link[k]` is the socket with its
jsonrpc2 connection, `reader[k]` its read loop, which is `handling` while a script runs and then
completes no call.  A write to a socket that the peer has dropped may succeed, a server may never
answer, and an answer and the end of the rpc client's context may both be there when `Call`
chooses.  The fields `c.ctx` and `c.heartbeatStop` are one word in effect, so their data races
are modelled as interleavings.  The bound is the number of connections; the counters
follow from it.

`HandsOnOneDuty` states that `AgentClient` implements `Supervision`: `Phase` maps the control
locations of all goroutines to the one phase of the duty, `ctx` is the round, `reconnecting` the
latch, the context `Main` waits on the round watched, and the process ends when it may.
`Supervision` therefore says all that `Service` needs to know of the goroutines: when the duty is
dropped, and when the process ends.

### Backoff

An `int64` of nanoseconds becomes an integer in `-Limit .. Limit-1`, `MaxCount` bounds the
attempts.  `time.Duration(float64)` out of range is left to the platform by the Go
specification: amd64 yields the least integer, arm64 the greatest, so `saturates` is chosen
once, at the start.  Jitter is any value of its range.

### Service

The process is its `Supervision` state together with `opened`, the goroutines whose `connect` has
a socket and has not yet returned; only the return resets the backoff, and nothing orders
that reset and what the callback does meanwhile.  The backoff is that of `Backoff`, whose
variables and actions the module extends.  systemd is `unit`, `starts` and `age`: its count of
starts begins anew with the first start after the interval, and one start beyond the burst makes
the unit fail.  The server is `good` or not and changes when it likes; the link of a server that is
not good may be lost.  `timer` is what `connect` or systemd still waits, and `Elapse` the only
action that takes time: it waits until nothing is left that happens at once (`Idle`).  `waited`,
`quiet`, `answers` and `lived` are history variables for the properties.

### Provisioning

A file is a sequence of lines: the comment of a request, a text (key or rule), blank or
foreign lines, and `Glued` for a comment appended to an old last line without a newline.
`HasComment` and `HasContent` are `grep -qF`, with `PrefixOf` and `PartOf` saying which ids and
texts contain which.  `InRange` is the address of `sed "/^comment$/,/^$/d"`.  The comment in it is
escaped by `regexp.QuoteMeta`, for the syntax of Go's regular expressions; in the basic ones of
`sed`, `\+`, `\?` and `\|` are operators, so an id with one of these characters may not be found, or
others in its place.  `SedFinds` says which ids find which comments; for plain ids it is equality.
`etcSudoers` is `/etc/sudoers`, whose last line may lack its newline (`OldSudoers`): the include line
is then `"glued"` to it, where `grep -F` finds it and sudo does not read it.  Each external
command is one action; `sed -i` is two, reading and renaming.  A grep that fails counts as one that
finds nothing, that for the include line as well.  A worker runs one script at a
time.  `MaxLines` bounds the files.  `Ascending` enumerates the lines that `sed` keeps and those that
`LogOf` shows.  The requests are those the backend sends: a grant and a
revocation of one id name the same user.  Dry runs answer success and change nothing; they are
left out.

### UserAccounts, SessionKill, Installer

`UserAccounts` has one action per lookup, per turn of the UID scan and per command; `groupadd`,
`useradd` and `adduser` refuse what is taken, as they do, and may fail with the account made
(`CommandEndsBadly`: the home directory comes last).  `SessionKill` runs the script
against a user who forks, exits and, while a key is installed, logs in; `Stuck` processes ignore
SIGKILL (uninterruptible sleep), and PIDs are not used again.

In `Installer` the operator runs one command at a time; each program it starts is an action.  A
program may fail without effect (`"command"`) or half way (`"partial"`: a truncated copy, unit,
module, configuration or key file, an `rm -rf` that removes some of the files), and the command may
be stopped before any program (`"death"`).  A program stopped half way is a `"partial"` failure.
`plugin` is what `Detect` finds: with the Linux plugin `register` writes a unit file that systemd
has at once, with the NixOS plugin a module file, which becomes the service (`built`) only when the
operator rebuilds the system with it (`Rebuild`).  `After` is the order of the programs of
`uninstall`, which differs between the plugins.  `enabled` is the link `systemctl enable` makes for
the boot.  A `chmod` that fails behind `cp` leaves a whole program and counts as a failed copy.

`active` is what systemd has of the service: `"inactive"`, `"running"`, or `"pausing"` until it
restarts an agent that has ended (`Restart=always`, `RestartSec=5s`).  The agent ends, is restarted with
what is there then, or stays down at any time, also while a command runs (`AgentEnds`,
`AgentRestarts`, `StaysDown`; the last is also systemd's giving up, or a boot without the service).
`is-active` says no in the pause, and `is-active` and `is-enabled` may fail of themselves; `uninstall`
then skips the stop or the disabling without a warning.  `missed` records that it skipped the stop of
a service that was not inactive.  `Status` is the verdict of `status`.

## 3. What the runs check

Passing runs:

| run | instance | properties |
|---|---|---|
| `AgentClient_safety` | 3 connections, that is two reconnections; 1.4 million states | types; one supervisor; no overlapping reconnectors; panics and stops of the monitor have only the named causes; at most one live connection; a failure is dropped only while the reconnector that made the connection has not cleared its flag; refinement of `Supervision` |
| `AgentClient_live` | 2 connections, fair | connecting dies out after a shutdown; a closed connection that is being watched begins a new round, unless `forceReconnect` drops the failure or a shutdown is quicker; a signal before the first reconnection ends the process |
| `Service_restarts` | delays 4 to 16 quarter seconds, `Limit` 64, 6 attempts; 2 starts in 32 quarter seconds, pause 12; a process may lose 2 connections; fair; 940 thousand states | systemd gives up only on an agent that was answered at each start, and whose lives were short; a good server waits no longer than one wait; failed dials are apart; the agent ends up monitoring, given up, or dropped; bounds and growth of the delays |
| `Provisioning_alone` | 1 worker, 2 ids, 2 keys and a rule, ids and keys that are parts of others, failing commands, deaths, an operator, an `/etc/sudoers` with and without its last newline; 4.1 million states | after a successful grant its text is a line of the file, unless it is part of another, and the include is a line of its own, unless `/etc/sudoers` lacked its newline; a successful revocation removes its text |
| `Provisioning_log` | 1 worker, failing commands other than `grep`, deaths, an operator who writes whole lines, an old file with a blank line, ids and keys that are parts of others, files of up to 7 lines | both files implement `AccessLog` |
| `Provisioning_together` | 2 workers, deaths, old files with and without a final newline | every key stands under a comment that names its grant |
| `UserAccounts_together` | 2 workers, 3 UIDs, 3 new names, failing commands, deaths | accounts share no UID and own their group; success means the user is there; failure has a reason in the database |
| `SessionKill_signals` | 4 processes, one stuck, every command failing at times, fair | "no process" and "all gone" are true, and final once the key is revoked; the script ends |
| `Installer_commands` | both plugins, 3 or 2 directories, 2 key pairs and hosts; failures, half-written files, `--force`, deaths, restarts of the agent at any time; 9.8 million states | success of `register` is a registered host, and a startable agent unless a file was written by halves; a startable agent is one the backend knows unless its key was overwritten; an `uninstall` that reported no failure leaves no unit, configuration or key, and an agent that runs only if its stop was skipped |

`GrantIsEffective` and `RevokedKeyIsGone` hold for one worker; `Provisioning_overlap.cfg` shows the
second to fail for two.  `RunnableAgentIsKnown` needs whole files and no `--force`, which the
history variable `sound` records: a forced key generation breaks a registration by design.
The other history variables are `troubled` (a program of this command has failed), `faulty`
(`UserAccounts`: a command of this request failed of itself), `missed` (see section 2) and the four
of `Service`.

Runs that find a violation, each of one statement of the documentation (quoted under "findings"
in `PROJECT.json`):

| run | what happens |
|---|---|
| `AgentClient_survives` | a lost connection ends the process, because `Run` waits on the context `forceReconnect` cancels |
| `AgentClient_panic` | `Shutdown` and `forceReconnect` close one channel |
| `Provisioning_others` | a revocation removes later grants of others |

Further counterexamples are kept as configurations of the same modules.  They are not among the
listed runs; each asks for one property that does not hold and delimits one that does.

| configuration | what happens | what holds instead |
|---|---|---|
| `AgentClient_shutdown` | a signal cancels a context that is being replaced and the process goes on, deaf to further signals | `ShutdownBeforeReconnectExits` |
| `AgentClient_auth` | an authentication error while reconnecting leaves a process without a connection | `HandsOnOneDuty`: the duty is dropped only while the latch is set or in a shutdown |
| `AgentClient_skip` | a failure while the latch is still set is dropped, and nobody looks after the connection any more | `DropsOnlyInTheWindow`, `LossNoticed` |
| `AgentClient_silence` | a server that keeps the connection and never answers keeps a heartbeat waiting for ever | `LossNoticed`, for connections that are closed |
| `Backoff_outage` | after the overflow the delay is back at the start | `ExponentialUntilOverflow` |
| `Service_reset` | a socket that merely opens resets the backoff, whatever the calls over it bring | `FailedDialsAreSpaced` |
| `Service_givesup` | connections that are accepted and lost at once use up the starts, and systemd gives up | `GivesUpOnlyWhenAnswered`, `GivesUpOnShortLives` |
| `Provisioning_tracked` | a grant finds another request's comment and key and writes none | `GrantIsEffective` |
| `Provisioning_part` | a grant finds its comment and, inside the line of another request, its key, and writes none: what it grants is nowhere | `GrantIsEffective` |
| `Provisioning_unread` | the include is glued to an unterminated `/etc/sudoers`, so sudo does not read the rule | `GrantIsEffective` |
| `Provisioning_quoted` | `sed` does not find an id that `QuoteMeta` escapes for another syntax, and the key survives its revocation | `RevokedKeyIsGone`, for ids that find themselves |
| `Provisioning_mode` | a file created by a grant whose `chmod` failed keeps its mode | |
| `Provisioning_glued` | a comment behind an unterminated line is never found again by `sed`, and its key survives the revocation | `RevokedKeyIsGone`, where the file ended in a newline |
| `Provisioning_overlap` | `sed -i` of one worker undoes the work of another: a revoked key comes back | `KeyUnderItsComment`, not more |
| `UserAccounts_leftover` | the UID found carries somebody's group | `FailsForAReason` |
| `SessionKill_killed` | success after a failing `pkill` | |
| `SessionKill_lockout` | a login between the verification and the revocation of the key | `LockoutIsFinal` |
| `Installer_refused` | half a key pair counts as keys for `keygen` and as none for `start` | `RunnableAgentIsKnown` |
| `Installer_copied` | half a program counts as installed | `SuccessIsRunnable`, where no file was written by halves |
| `Installer_removed` | `uninstall` reports complete removal after failures | `CleanUninstall` |
| `Installer_healthy` | `status` calls healthy what does not start again, and after `keygen --force` what the backend does not know | `RunnableAgentIsKnown`, where no key was overwritten |
| `Installer_disabled` | once the unit file is gone `uninstall` no longer disables the service, and a later registration is started at boot; so too if `is-enabled` fails | |
| `Installer_paused` | `uninstall` finds the service in its restart pause, does not stop it and reports no failure; systemd starts the agent again while it still has its files | `CleanUninstall` |

**Bounds.**  Three connections are two full reconnections, so a leftover of one can meet the
next; two workers are enough because every conflict on a file is between a pair; two ids with
one in the comment of the other, and a key beside a rule, give all the cases the greps tell
apart; a file has room for several grants so that a `sed` range spans more than its own.
A scan over three UIDs meets a free one, a taken one and the end.  The numbers of the backoff and
of systemd (1 s to 30 s in an `int64`; 10 starts in 60 s, pause 5 s) are scaled: the overflow lies
within the counts, two short lives with their pauses fit into the interval and two with a longer
one do not, and the pause lies between the two limits of the delay.  A life may be shorter than
the pause, or longer than the whole interval (`Lives`).  Two key pairs and two hosts are one
installation and the one that replaces it; a third directory is one that is neither the first nor the
last, which the Linux plugin's search tells apart.  The proofs remove the scale and these
bounds wherever there is one.

**Fairness.**  `AgentClient!FairSpec` gives weak fairness to each goroutine, which Go's preemptive
scheduler justifies, and none to the network, the server or the operator.  A dial is taken to end
(the dialer has a handshake timeout), and so is a script.  Of a call nothing is assumed: it may
wait forever, as `Call` has no timeout.  Liveness therefore speaks of connections that are
closed, not of servers that fall silent: `jsonrpc2` completes the calls of a closed connection, or
the rpc client's done context does.  `ServiceSpec` lets the goroutines (`AgentStep`), systemd
(`SystemdStarts`) and time (`Elapse`) go on and assumes nothing of the server and the operator: that
it turns good and stays so is a premise of `ReachesServer`.  `SessionKill!FairSpec` lets the script go
on and assumes nothing of the user.

**Deadlock.**  Where a configuration switches the check off the system may stop: the process of
`AgentClient` ends or blocks for good, the bound on processes, keys or hosts is used up, or
the only worker has no more names to try.

Every property of a passing run has a mutation of the model (operators marked "Mutation") that
violates it.

## 4. What is proved

All proofs are for every value of the constants under the named assumptions of the modules.

`AgentClientProofs`, from `NoConnAssumption` alone, for any set of connections:

* `TypeCorrect`: `TypeOK`.
* `OneSupervisor`: `AtMostOneSupervisor`.  With the types it is inductive.  Each action is of
  one of three kinds: it leaves the control locations, it moves one goroutine without making it a
  supervisor it was not (`Moves`), or it moves a supervisor out and another goroutine in
  (`HandsTo`).  The proof classifies every action.
* `ReconnectorsDoNotOverlap`: `NoReconnectorOverlap`.  Not inductive, for it does not mention the
  flag.  `LatchInv` adds that `reconnecting` is set whenever the body of
  `forceReconnect` or its goroutine is active; one supervisor excludes that another goroutine clears it.
* `PanicNeedsShutdown`: `PanicOnlyInShutdown`.  `StopInv` adds that the current stop channel is
  closed only between the two assignments of `forceReconnect` or after a shutdown, and that no
  closed channel is newer than the current one.

`AgentClientRefinement`, on top of these:

* `OneLiveLink`: `AtMostOneLiveLink`.  `LinkInv` adds that a live connection is the one in
  `Client.conn`, which is empty whenever the next is dialled.  Nothing is said of who looks after it: after
  a dropped failure nobody does.
* `DropsAreInTheWindow`: `DropsOnlyInTheWindow`.  `WindowInv` adds that a latch that is set is held by a
  goroutine that will clear it, and that a rejected reconnector leaves no supervisor.  The one that
  enters `forceReconnect` is the only supervisor, so a reconnector that holds the latch meanwhile
  has done its connecting.
* `MonitorsStopForShutdown`: `NoSilentHeartbeatStop`.  `SelectInv` adds that a monitor selects on the
  current context and stop channel, so that what another round closed does not reach it.
* `ImplementsSupervision`: `HandsOnOneDuty`, the refinement of `Supervision`.  At most one goroutine is
  at a place that makes up a phase, so a step that moves it or hands its duty on determines the
  phase before and after.  For the guards of the abstract steps `RoundInv` says which goroutine belongs to
  which round, `LatchInv` when the latch is set, and `CancelInv` that the current context is cancelled
  only in a shutdown or just before `forceReconnect` replaces it.

`BackoffProofs`, from the assumptions on durations and counts:

* `BackoffTypeCorrect` and `DelayBounds`: every delay lies between three quarters of the start
  duration and the maximum, wrap-around and overflow included.
* `DelaysDouble`: `ExponentialUntilOverflow`; where the conversion saturates it holds for ever.

`ServiceProofs`, from these and `ServiceAssumption`, for any durations, limits, lives and numbers of
connections.  No property is inductive; each has an invariant that says how far it has got:

* `ServiceTypeCorrect`: `ServiceTypeOK`.  `Doing` says what can be waited for or lost when.
* `OutageIsSurvived`: `GivesUpOnlyWhenAnswered`.  `AnsweredInv`: of the processes counted all but the
  last have been answered, and the last one too once it is beyond its first dial.
* `LongLivesAreForgiven`: `GivesUpOnShortLives`.  `LivesInv`: the lives, the pauses and the part that
  is over of the present pause have taken no more than the time since the count began.
* `RecoveryInTime`: `RecoversInTime`.  `WaitInv`: what has been waited since the server turned good and
  what is left make up one wait, and the agent is then on its way in.
* `FailedDialsSpaced`: `FailedDialsAreSpaced`, if the pause of systemd is no shorter than three quarters
  of the start duration (5 s and 1 s in the unit file and the program).  `Spaced`: what is left of a
  wait makes up for what is missing since the last failed dial.

`UserAccountsProofs`, from `UserAssumption`, for any number of workers, any accounts that are there
before and any failures:

* `AccountsTypeCorrect`, `AccountsAreSeparate`, `SuccessMeansUser`: `TypeOK`, `AccountsAreTheirOwn`,
  `GrantedUserExists`.  `AccountInv` adds what a worker knows on its way: its name (`JobsNamed`), a UID
  within the range behind the scan (`ScannedInRange`), and, behind `groupadd`, that the group of
  its UID is its own (`GroupedOwnsGroup`).  The scan itself is of no use to the argument, since
  what it finds may be taken at once; the refusals of the commands carry it.
* `FailuresHaveReasons`: `FailsForAReason`, if there is any command to make accounts with (without
  one every request fails).  Here the scan counts: accounts and groups only come, an account with
  its group (`Grows`), so what was free for the lookup or the scan and is taken at the command is
  taken together with a group that is in the way (`Reasoned`).

`SessionKillProofs`, without an assumption, for any processes, stuck ones and failures:

* `SessionTypeCorrect`, `ReportsAreTrue`, `LockoutHolds`: `TypeOK`, `OldProcessesAreGone`,
  `LockoutIsFinal`.  `ReportInv` adds that the processes of the beginning are alive or have ended and
  that no key comes back (`Remembered`).  That the report is final rests on what a process may come
  from in the model (`Starts`: a login while a key is there, a child of a live process) and on a `pgrep`
  that sees one moment.

`ProvisioningProofs`, from `RequestAssumption` and `OldKeysAssumption` (an old file holds none of the
agent's lines), for any requests, prefixes, workers and failures and for files of any length:

* `TypeCorrect`: `TypeOK`.  `JobOK` adds that a script works for a request of its kind and that its
  file exists once it has seen it, `FileOK` that a file that does not exist is empty.
* `KeysStandUnderTheirComments`: `KeyUnderItsComment`, with no further condition.  `PlacedInv` says the
  same of the snapshots that `sed` will put in place.  The range of `sed` ends only at a blank line, so it
  never takes a comment and leaves the line below it (`CommentIsKept`).
* `GrantsAreEffective`: `GrantIsEffective`.  `EffectiveInv` says of the text already of a script that is past
  the greps and has the include still to look after (`TextIn`); where a text is no part of another, what
  `grep` finds is the line itself (`FoundIsThere`).  `SudoersInv`: an include is glued only where the
  newline was missing from the beginning.
* `RevokedKeysAreGone`: `RevokedKeyIsGone`.  `RevokedInv`: no comment of the request is left in what `sed`
  is about to put in place, nor later in the file.  `EndedInv`: no file has lost its last newline, so no
  comment is glued to the line before it.  With `PlacedInv` a text that is left has a comment of another
  request.
* `AuthorizedKeysAreALog`, `SudoRulesAreALog`: `KeysAreALog` and `RulesAreALog`, the refinement of
  `AccessLog`.  `LogInv`: comments and texts are in pairs with no blank line behind the first comment
  (`Paired`), what `grep` said of the file still holds when the script acts on it, and what `sed` made of
  it is a `Cut`: the file up to the first comment of the request.  A cut leaves the log alone or takes it
  back to before the first entry of the request (`LogOfCut`), an appended pair is one entry
  (`LogOfGrant`), and the greps find every entry of the log (`EntryIsFound`), so that no grant adds one
  twice.

All but the first two need scripts that run one at a time (`OneAtATime`), which neither the agent nor
its `command` subcommand sees to: `Provisioning_overlap.cfg` shows `RevokedKeyIsGone` to fail without.
`RevokedKeysAreGone` and `AuthorizedKeysAreALog` need an `authorized_keys` that ended in a newline before
(`Terminated`; `Provisioning_glued` shows why), and, as `Provisioning_quoted` shows, ids whose comment
`sed` finds (`FindsOwn`); the refinements need that it finds no others (`FindsExact`).  The refinements need that `grep` does not fail, because
a script takes a failure for "not found" and appends what is already there, and that of
`authorized_keys` that nobody writes a blank line below a grant, for it ends the range of `sed`.  What is
written by hand comes with its newline (`OperatorAppends`).

A file has any number of lines, and what `sed` leaves of it is a recursive function.  Facts about it are
shown by a least counterexample instead of an induction: `LeastNat` follows from the well-foundedness of
the numbers, `AscendingExists` that the function exists, and `AscendingEnumerates` that it lists each line
once and in order.  An enumeration is unique (`EnumerationIsUnique`), which is how the logs of two files
that share lines are compared.

`InstallerProofs`, from `InstallerAssumption`, for any number of directories, keys and hosts, both
plugins and all failures:

* `InstallerTypeCorrect`: `TypeOK`.
* `RunnableIsKnown`: `RunnableAgentIsKnown`.  `PairInv`: while
  `sound`, the key files are a pair, of which the public file may still be missing, and the backend knows
  the configured host by it.
* `RegisteredIsRunnable`, `RegisteredIsRegistered`: `SuccessIsRunnable`, `SuccessIsRegistered`.  `StepInv`:
  at each step of `register` what the steps before it have established is still there; `WholeInv`: while
  `sound`, nothing is half there.
* `UninstallIsClean`: `CleanUninstall`.  `RemovalInv`: what an uninstall without failures has removed so
  far, in the order of the plugin, and that a service it did not miss stays inactive, since only
  the operator starts it.

`PowerAssumption` states that powers of two are positive integers; it is arithmetic, which TLC
evaluates on every run, and is assumed because no installed prover reasons about powers.

## 5. What is only model-checked

Liveness (`QuietAfterShutdown`, `LossNoticed`, `ShutdownBeforeReconnectExits`,
`ReachesServer`, `ScriptEnds`) and the violations of fair specifications are out of the prover's reach,
as are ENABLED and fairness.  Every other property of a passing run is stated by a theorem.  For
`GrantIsEffective`, `RevokedKeyIsGone` and the refinements of `AccessLog` the theorem has the conditions
named above, which the instances of the runs meet.

## 6. What is not modelled

`RemoveUser`, `ValidateCAPublicKey`, `WaitUntilConnected`, `IsConnectionHealthy`, `checkLogFile`,
`ListPlugins`, `GetPluginByName` and the second `findNextAvailableUID` have no caller; `User
provisioning` is listed as partly modelled for the first of them.  `CreateUser` of the NixOS
plugin differs in the path of the shell.

Of the configuration only whether it loads and is valid is kept (`Valid`, `Loadable` in `Installer`):
the single fields, flags, environment variables and search paths are input.  Of the machine's identity
only the public key matters to a property; host name, address and fingerprint are sent to the backend
and read by nothing here.  JWT creation is cryptography and formatting; the `command` subcommand
is one more worker of `Provisioning` and `UserAccounts`; version and logging print.

Time is abstracted.  In `AgentClient` ticks and timeouts may come at any moment; in `Service` what the
program does takes none, and only waits, lives and pauses do; a failed dial takes no time of its own.
Of the unit file, `KillMode` and the security settings are left out.  File modes are kept no further
than who set them.

## 7. Plan

Done: the modules of section 2 and the proofs of section 4.  What is left, in this order:

1. `Access`: the session, key, sudo and user scripts of one request in the order the
   documentation gives, over the modules that exist, for what a complete lockout needs.
2. `AgentClient` in place of `Supervision` in `Service`, for the liveness of the goroutines under restarts.
3. The registration request with the machine's identity, for what a backend can tell of two
   machines with one name.
4. Proofs: what of `RevokedKeyIsGone` is left when scripts overlap, for the overlaps that do no harm.
