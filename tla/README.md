# op-forward in TLA+

op-forward lets the 1Password CLI (`op`) be used on a remote machine: a shim
named `op` relays each command through an SSH tunnel to a daemon on the host,
which runs the real `op` there. Everything the relay is trusted with hangs on a
pair of bearer tokens that the daemon rotates and clients cache in files. That
token lifecycle, and the relay that uses it, are the core of this project.

Contents: [inventory](#inventory), [modules](#modules), [runs](#runs),
[findings](#what-the-runs-found), [proofs](#proofs), [abstractions](#abstractions),
[not modelled](#not-modelled), [plan](#plan).

## Inventory

| Component | State it keeps | Operations | Talks to | What is hard | What makes it correct |
|---|---|---|---|---|---|
| Tokens (`internal/auth`) | `access.token`, `refresh.token`, `session.token` | generate, load, save, migrate, validity | file system, clock | a save cut short by a crash; a reader in the middle of a save; a file that does not parse | a read returns a whole token; a failed save changes nothing |
| Daemon startup (`cmd/serve.go`) | the pair in memory | migrate, load or generate the refresh token, issue an access token, write the compatibility copy, listen | tokens, service manager | a crash between any two steps; a failing write | the refresh token survives restarts, the access token does not |
| Daemon handlers (`internal/daemon`) | `accessToken`, `refreshToken`, `mu` | `/token/refresh`, `/op/execute`, `/health`, `/health/op` | proxies, tokens, executor, opcheck | requests interleaving with a rotation; three writes and a swap that must look like one; a reply that does not arrive | a token is spent once, a retired one is never accepted, files agree with memory |
| Proxy (`cmd/proxy.go`) | the client's token files | read tokens, probe, execute, refresh, save, retry | shim, tunnel, daemon | a retry after a 401; losses; failing saves; other clients over the same files; old files of every age | op runs at most once per command; the machine keeps its credential; every command ends |
| Shim (`cmd/install.go`) | the recorded fallback | relay the status, or run the real `op` on 127; installation looks the real `op` up | proxy, `PATH` | 127 stands for several outcomes; an installation finds the shim of the last one | a refused or unreachable host means local `op`, and never the shim itself |
| Executor (`internal/executor`) | a running `op` | validate, run under a timeout, collect output | `op` | deadline, exit and end of output race; a descendant keeps the terminal open | a result is op's own or says that it timed out |
| Endpoint (`internal/endpoint`) | a Unix socket file | parse, configure, listen, dial, probe, peer credentials | file system | a stale socket is probed, removed and bound in three steps | a live daemon keeps its socket |
| Version (`internal/version`) | none | compare | handlers, doctor, update | pre-releases | the comparison is an order |
| Opcheck (`internal/opcheck`) | one probe at a time | find op, query it, classify the outcome | `/health/op`, doctor | deadline, cancellation and exit race | one probe at a time; a class is what happened |
| Doctor (`cmd/doctor.go`) | the client's token files | check endpoint, daemon and tokens; renew once when refused | as a proxy, and `/health/op` | shares the files with proxies; a renewal that half fails | a machine that works is not reported as broken; the credential survives the check |
| Update (`cmd/update.go`) | the installed binary | download, verify, replace, restart, wait for health | file system, launchd, `/health` | the old process answers the health check; a stale pid | the binary is old or new, never half; the new one serves in the end |
| Service (`cmd/service.go`) | the LaunchAgent and the launchd job | install, remove, status | launchd | a service that was loaded already; two generations of `launchctl` | the daemon is started again when it ends |
| Configuration (`cmd/config.go`), CLI (`main.go`) | none | parse flags and environment, dispatch | all | precedence of the sources | one endpoint for client and daemon |
| Packaging (`scripts/`) | none | build and release | - | - | not part of the running system |

The daemon and its clients share no memory. They interact by HTTP messages over a
tunnel that breaks, and, on one machine, by token files that several processes
replace without locking. Inside the daemon, handlers share the pair under `mu`.
The hazards that follow from this, each at its line of the source, are listed in
`PROJECT.json` with the properties that guard against them.

## Modules

| Module | Models | Its actions |
|---|---|---|
| `Tokens` | what a token, an expiry and a token file's content are | none, shared by the others |
| `TokenDaemon` | any number of processes in `runServe`, one of which serves, and the handlers of `/token/refresh` and `/op/execute`, over the three files | `StartProcess` .. `WriteSession` are the steps of `runServe`, each a file access, `Listen` and `FailToListen` its end; `LockRefresh`, `SaveAccess`, `SaveRefresh`, `SaveSession`, `Swap`, `ReplyPair` those of `handleTokenRefresh`; `Authenticate`, `CheckRequest`, `ReplyResult` those of `handleExecute`; `Stop` ends the serving process anywhere and `Die` a starting one, `RemoveFiles` is the documented revocation, `Tick` the clock |
| `TokenAuthority` | what the daemon promises, with no handlers, locks, files, startup steps or other processes | `Prepare`, `GoLive`, `Rotate`, `Shutdown`, `Revoke`, `Tick` |
| `TokenDaemonProofs` | the theorems about `TokenDaemon` and their proofs | none |
| `Forwarding` | shims, proxies, the tunnel and the daemon, composed | one action per file access and message of `runProxy`; `HandleExecute`, `OpEnds`, `HandleRefresh`, `StartDaemon`, `ServeBeside`, `StopDaemon` of the daemon; `Lose`, `GiveUp`, `Deploy`, `Tick` of the environment |
| `Doctor` | `op-forward doctor` in the client role and the daemon's `/health/op`, together with `Forwarding` over the same files, wire and daemon; the next-state relation of the whole | `Diagnose` starts a doctor; one action per check, file access and message of `doctor.run`, `accessTokenForDaemon` and `renew`; `HandleHealthOp`, `ProbeEnds` of the daemon |
| `DoctorProofs` | the theorems about `Forwarding` and `Doctor` that do not depend on which token a client has, and their proofs | none |
| `CredentialProofs` | the theorems about what becomes of a client machine's credential, and that the daemon is a `TokenAuthority` to its clients, with their proofs | none |
| `ServedProofs` | the theorems about what a client gets that nothing disturbs, and their proofs | none |
| `Host` | daemons that take over one socket path (`listenUnix`), `performUpdate`, `serviceInstall` and `serviceUninstall`, and launchd | `Lstat`, `Probe`, `Remove`, `Bind`, `Listen`, `Chmod`, `Close` of a starting daemon; `ReplaceBinary`, `FindDaemon`, `Signal`, `WaitForHealth` of the update; `WritePlist` .. `RemovePlist` of the service command; `Launch`, `Die` of launchd and the kernel; `StartByHand`, `Crash`, `Reboot`, `Interrupt` of people and accidents |
| `HostProofs` | the theorems about `Host` and their proofs | none |
| `OpLookup` | the three searches for `op` along `PATH`: `findRealOp` of the installation, `Locate` of opcheck, `exec.LookPath` of the executor; `resolveRole` of the doctor | none, operators over every `PATH` and content |
| `OpLookupProofs` | the theorems about `OpLookup` and their proofs | none |
| `TokenFile` | `SaveToPath`, `writeTokenFile` and `replaceBinaryAt` with their readers, at the level of names and inodes | `OpenTmp`, `WriteTmp`, `RenameTmp`, `RemoveTmp`, `Crash`; `OpenPath`, `ReadOpened` |
| `AtomicFile` | what "written atomically" promises: a save puts what it was given at one instant and says so, or changes nothing | `Begin`, `Succeed`, `Fail` |
| `TokenFileProofs` | the theorems about `TokenFile` and their proofs | none |
| `OpRun` | one run of `op`: `execute` and `interpretRun` with `runCommand` of Unix (`runner = "pty"`) and of Windows (`"pipes"`), and `probeSession` of opcheck over `runOp` (`"probe"`) | `RefuseArguments` .. `StartOp` up to the start; `ReadToEnd`, `Reap`, `CollectWatch`, `Drain` of the waiting goroutine and `InterpretRun`, `ClassifyProbe` at its end; `Copy` of the copying and `Kill` of the watching goroutine; `Write`, `Spawn`, `Release`, `Exit` of `op` and a process it starts; `DeadlinePasses`, `CallerGone` |
| `OpRunProofs` | the theorems about `OpRun` and their proofs | none |
| `MCTokenDaemon`, `MCForwarding`, `MCTokenFile`, `MCHost`, `MCOpRun` | instances for TLC (`MCForwarding` of `Doctor`; `OpLookup` is part of `MCForwarding` and `MCOpRun`) | none |

The layers rest on each other. `TokenFile` shows when a save is one atomic step;
`TokenDaemon` takes a save as that step and shows when the daemon is a
`TokenAuthority`; `Forwarding` takes the daemon's rotation as the single step
`TokenAuthority!Rotate` allows, and adds clients, losses and a tunnel. Its daemon is
a `TokenAuthority` too (`DaemonImplementsAuthority`): in both, a pair goes live, is
replaced whole, and its tokens do not come back, while the refresh token outlives every
process until it has expired, is rotated or is revoked. These
refinements and `ImplementsAtomicFile` are what makes the
coarser steps of the layer above sound, and the violation runs show where they
are not. `OpRun` stands below `Forwarding!OpEnds` and the step of `TokenDaemon` from
`run` to its reply: it shows which results a run of `op` can have, and when it ends.
`Doctor` adds a second kind of client to `Forwarding`: an invocation is a command or
a doctor, and both kinds interleave over one directory. `Host` is the ground under
which process serves, at which moment, with which binary. Processes that start while one
serves, by hand or by launchd, are part of the layers above: `TokenDaemon` interleaves the
steps of any number of them with the serving one, and `Forwarding` has `ServeBeside`, the
second start that rewrites the host's files and exits. Both take it that one process at a
time has the listener; the two daemons of `Host` that take a socket from each
other and both run are outside them. `TokenFile` also covers `replaceBinaryAt`, which makes
`Host!ReplaceBinary` one step.

Correspondence with the code, beyond what `PROJECT.json` "map" lists line by line:

- `TokenDaemon!phase[p]` is the position of a starting process in `runServe`, `loaded[p]` and
  `issued[p]` are its two local variables; `serving` says that a process has the listener, and
  `accessToken`, `refreshToken` are its pair. `pc[h]` is the position of a
  handler's goroutine, `mu` its holder. `minted` numbers what `crypto/rand` yields:
  every generation is new.
- `retired`, `promised`, `stale`, `company`, `outdated` and `crossed` in `TokenDaemon`, `hostRuns` and `disturbed` in
  `Forwarding`, and `atOpen` in `TokenFile` are history variables. No action of the
  code reads them.
- `OpRun!pc` is the position of the goroutine that handles the request: `read` is
  inside `ReadFrom`, `wait`, `collect` and `drain` are the three things `cmd.Wait` waits
  for, in its order: the process, the watcher of the context, the copier of the
  output. `holders` are the processes that have the terminal or the pipe open.
  `opWrote` is a history variable.
- `Forwarding!held` is the local variable of `runProxy`, or of the doctor, that holds
  the token it sends next. `Doctor!doctor[i]` is the doctor's flags and what its
  checks have found; `probeMu` is the daemon's lock of that name, with its holder;
  `renewals` counts rotations and is a history variable. `wire[i]` is the connection of proxy `i`, which carries one request
  or one reply at a time (`cargo` is its token), as HTTP/1.1 does here. A doctor's
  position is in the same `pc`.
- `Host!place[p]` is the position of a process in `listenUnix`, `image[p]` the release
  it runs, `managed` the process of the launchd job, `dying` those that SIGTERM was
  sent to and that have not ended. `path` is the socket file by its name: none, one that nobody
  listens on, or that of the process that bound it. `update` and `service` are the positions
  in the two commands; `settled` and `beside` are history variables.

Three of the histories of `TokenDaemon` delimit what several processes over one set of files leave
true. `company` says that a process was started beside another one since the last that was
started alone: only without it are `access.token` and `session.token` those of the daemon.
`outdated` holds the starting processes that have looked at `refresh.token` (that it is absent, unusable,
or which token it holds) before somebody replaced it, and `crossed` says that such a process
went on to write `refresh.token` or to serve, or that a process wrote it in the middle of a rotation. Up to that
moment every promise about the pair is kept with any number of starts; from then on a
spent refresh token may be accepted again (see [findings](#what-the-runs-found)).

## Runs

| Run | Question | Bounds and why they are enough |
|---|---|---|
| `daemon_reliable` | Is the daemon a token authority, with concurrent requests, a second start, crashes anywhere, expiry and revocation, when writes succeed? | Two handlers: the properties speak of one rotation against one other request, and the lock admits one rotation. One process at a time that starts, beside the one that serves: it is on its way while the other rotates, ends or has files revoked, and finds the address taken or takes over. `MaxMinted = 4` counts generated tokens and pairs: a first start takes two of them, so two rotations, or a rotation and a second start, follow, and a crash in any step of the second. Refresh tokens expire, and the access token of the same number before them. Beyond the five minutes of a run it was also checked once with access and refresh tokens expiring by themselves (10.5 million states), and with two starting processes and one handler (3.2 million); the theorems have no such bounds. |
| `daemon_failing` | Is every request answered and does every start end, when any write may fail? | Two handlers, one of which waits for the other's rotation, and a process that starts alone or beside the one that serves. `MaxMinted = 2`: a start that finds a refresh token leaves one rotation. No expiry, which only shortens paths. |
| `daemon_spent_token` | (violation) Does a failed save break the promise about retired tokens? | One handler is enough. |
| `forwarding` | Is an undisturbed command or doctor served, does the client keep its credential, is the daemon a token authority to its clients, does a shim never fall back on itself? | Two clients, each a command or a doctor with or without `--no-refresh`, so that one rotates under the other; four initial states of the client's files; `MaxMinted = 3`: the start's pair, a rotation, and a restart or a second `serve` beside the daemon. All four outcomes of an authenticated request; both kinds expire, up to the third number, from which on only rotations and the start of a daemon that is down go on; `access.token` may be unwritable. Every `PATH` of up to three of five directories: the shim's, the same in another spelling, a relative one, `/usr/bin` and one more, with every content of them; three entries are one to skip, one to find and one that comes too late. |
| `forwarding_lossy` | Is op run once, is one probe run at a time and refused for no other reason, and does every client end, when messages are lost, saves fail and the daemon crashes? | The same with losses, both files unwritable and doctors that ask for a probe. The outcomes are reduced to the two of an `op` that ran, which are the ones a retry would spoil, and nothing expires, which only shortens paths. |
| `forwarding_lost_reply` | (violation) Does the client keep its credential when a reply is lost? | One command. |
| `forwarding_host_directory` | (violation) Do proxies in the daemon's directory keep the newest token? | Two commands on the host. |
| `token_file` | Is a save atomic for readers, through failures and crashes, does it write what it was given, and is its result truthful? | One writer, two readers, four saves: a reader holds an old inode while two later saves happen. Five inodes: the file, the temporary file and three open ones. |
| `token_file_two_writers` | (violation) Is it still with two writers? | Two writers, one reader. |
| `op_run` | Is the outcome of a run `op`'s own and complete, is `op` gone, does the run end, in each of the three ways to run it? And is the `op` that is started the one the integration check judges? | One run, as runs share nothing. A buffer of two chunks and four written ones: `op` and its descendant both write before and after a copy, and either can fill the buffer. An int64 of 8 bits and a millisecond of 4 units: the requested timeouts are absent, short, equal to the maximum, above it, and such that the product overflows into a negative, a zero and a positive number. The `PATH`s of `forwarding`. |
| `op_run_terminal_held` | (violation) Does the handler answer when the deadline has passed? | One chunk. |
| `host` | Does a settled daemon keep its socket while it answers probes, does a loaded service serve again after anything, and does an update end with the new release serving? | Two processes: one takes the path from the other, or finds what it left. One start by hand, one crash or reboot, one service command, at any moment of one update. The safety properties were also checked with three processes, and are proved for any number. |

`Forwarding`, `TokenFile`, `OpRun` and `Host` may stop for good: all clients have ended, all
saves were begun, the run is over, or no service is loaded and nobody is left to start a
daemon. Their runs do not check for deadlock. The daemon never stops for
good, as it can always be started or sent a request, and its runs check for it.
`MaxMinted` never blocks a handler or a starting process in the middle of its work: from that number on
no rotation, crash or start beside another process begins, beyond it no write fails, and everything
in flight ends.

What the passing runs show: the daemon keeps its promises in the
liveness sense as well (`RequestAnswered`, `StartupEnds`); a command or doctor that meets
no outage recovers from every set of files the documentation mentions, the legacy
token included for a command (`UndisturbedServed`, `DoctorServed`); the credential of a client
machine survives commands, doctors, restarts and an unwritable `access.token`, except
for one path of the doctor (`CredentialKept`); every client ends (`InvocationEnds`);
launchd brings the daemon back past every stale socket (`ServedWhileLoaded`), and a replaced
binary comes into effect even if the update says nothing or something premature
(`UpdateTakesEffect`).

### Fairness

- `WF_vars(StartupStep(p))`, for each starting process: `runServe` is sequential code that does not
  wait for anything. That a process is started at all is not assumed.
- `WF_vars(HandlerStep(h))`: a goroutine that can run does. The step from `run` to the reply
  (`ReplyResult`) is not among them: how long `op` runs is the executor's affair, and finding 5 is that it may be
  for ever. So `RequestAnswered` ends at `run`, where the handler holds no lock.
- `SF_vars(LockRefresh(h))`, `SF_vars(Authenticate(h))`: `sync.Mutex` hands the
  lock to a goroutine it has kept waiting for a millisecond (its starvation mode),
  so a waiter for whom the lock is free again and again gets it. Weak fairness would
  not give that: other handlers may take the lock in between.
- In `Doctor`, per invocation, weak fairness of the client's own steps and of the
  daemon's answers to it while it is up. The HTTP clients have timeouts, so a connection
  that broke is noticed; `op` and a probe are bounded by their timeouts.
- In `Host`, weak fairness of launchd's `KeepAlive` (`Launch`), of each process: it goes on
  with its start, or SIGTERM, which it does not handle, ends it; and of the two commands'
  own steps, which are sequential code with bounded waits. `Interrupt`, `Crash`,
  `Reboot`, `StartByHand` and the start of a command get none.
- In `OpRun`, weak fairness of the waiting, the copying and the watching goroutine,
  of the kill and of the clock. `op` and its descendant may do nothing for ever.
  `Drain` may also end with the pipe open, which is `WaitDelay`: two or three
  seconds, in which what is in the pipe is taken to be copied. `Forwarding` and `Doctor`
  assume that the daemon answers once `op` or the probe has ended (`InvocationEnds`). `RunEnds` justifies
  that except where finding 5 applies, a descendant of `op` that keeps a Linux terminal open; there what ends
  the command is the proxy's own HTTP timeout (`GiveUp`), of which no fairness is assumed.
- Nothing is assumed of the environment: no message must be lost, and no daemon
  restarted, for a property to hold.

### What the runs found

Five statements of the documentation or of comments do not hold:

1. `daemon_spent_token`: `handleTokenRefresh` only logs a failed save of the rotated
   refresh token and answers with the new pair. After a restart the daemon loads the
   spent token from disk and accepts it again, and refuses the one it handed out.
2. `forwarding_lost_reply`: a rotation takes effect before its reply is delivered and
   the old token is not kept. If the reply is lost, the client's credential is spent
   and only a redeployment repairs it.
3. `forwarding_host_directory`: in a token directory shared with the daemon, a proxy
   may save the pair of its own rotation after a later rotation was saved, and so
   replace the current refresh token with a spent one.
4. `token_file_two_writers`: all savers of a file use the same temporary name. Two
   of them at once can rename a file the other has just truncated, and a reader sees
   a partial token.
5. `op_run_terminal_held`: on Unix the terminal is read to its end before `op` is
   waited for. On Linux a process `op` has started, and that ignores the hang-up,
   keeps it open after the deadline has killed `op`, and the handler waits for it.
   The Windows runner and opcheck set `WaitDelay` against this.

Others have no run of their own. The models contain the behaviour, and the properties are stated
around it:

- Processes that cross. A process that has read `refresh.token` early comes to serve after the first
  has rotated and ended, and accepts the spent token again; or a second process migrates `session.token`
  when the operator has just revoked, or writes a refresh token of its own between a rotation's write and its swap.
  docs/protocol.md:212-214 and docs/tokens.md:140 say that spent tokens are invalid from the reply on, and
  docs/tokens.md that the refresh token persists. `NoRetiredTokenCurrent`, `KindsKeptApart`, `PromisedRefreshHonoured`,
  `StaleNeverServed`, `EachRefreshSpentOnce` and `ImplementsAuthority` therefore hold until `crossed`, which each names.
- A second `serve` beside the daemon replaces `access.token` and `session.token` by tokens that nobody accepts, and
  exits. The comment at cmd/serve_cmd_test.go:69-70 says that "a failed bind still leaves valid credentials
  behind"; they are valid of format and date only, and a client that copies or shares them is refused once and
  renews. `DiskMatchesMemory` claims the two files only without `company`, and `refresh.token` with it.
- "app_locked". docs/protocol.md:98 says of it that the authenticated read "produced no output before the timeout",
  and the comment at internal/opcheck/opcheck.go:413 that "A fast error is NOT what a locked app produces". The code
  (opcheck.go:439-440) also tells it of an `op` that failed at once with the word "locked" on stderr, and
  internal/opcheck/opcheck_test.go:156 expects that. The same line of docs/protocol.md explains `timeout` by "the
  integration itself did not answer", where the code also gives it to an `op` that said something before the deadline.
  `ProbeTrue` states what the code does.
- A probe whose `op` succeeded while a descendant keeps the pipe open is reported as failed,
  because `runOp` returns `ErrWaitDelay`, where internal/opcheck/opcheck.go:381-382 says
  that the exit status alone decides.
- A `timeout_ms` whose nanoseconds overflow an int64 is not "reduced to" the maximum, as
  docs/protocol.md:306 says: the product wraps before the comparison, and the run may have no time at all or any
  time up to the maximum (`NeverBeyondMax` shows that it cannot be more).
- Two daemons that start together can each find the other's socket not yet listening: one
  removes what the other has bound, and both run, one of them unreachable. So can a daemon that
  does not answer the probe of another within its 200 ms. docs/transport.md:129-130 says "Two daemons
  configured with the same path cannot both run". `SettledReachable` speaks of a daemon that was
  reachable while no other was starting, until it misses a probe.
- A deployment by docs/tokens.md (an `scp` of the host's `refresh.token`) while a client of that machine holds a
  rotated pair it has not saved: the copy may be newer than what the client then writes over it, or older
  than the pair that is being saved. `Deploy` leaves this case out (see [abstractions](#abstractions)).

The rest are consequences of the code that no document denies:

- A doctor whose save of `access.token` fails does not save the rotated `refresh.token`
  (`SaveRenewedAccess`), and the machine's credential is spent; a proxy goes on and saves it.
  `CredentialKept` names this as the only way to lose the credential while replies arrive and
  `refresh.token` can be written.
- A doctor does not fall back on `session.token` as its refresh credential, as a proxy does;
  a failing `daemon_health` check does not keep `daemon_op` from being asked.
- "Serving again" may be the answer of the process that was sent SIGTERM, or of a daemon
  beside it (`ServingAgainTrue` names both). An update interrupted after it replaced the binary
  is not resumed: the next one finds the release up to date. It waits on the endpoint of its
  own environment, which need not be the one written into the plist.
- Where `launchctl unload` does not work, an uninstallation leaves a job loaded that was
  bootstrapped, until the next boot.
- `findRealOp` skips one spelling of the shim's directory and accepts files that cannot be
  executed. A relative entry of `PATH`, or a shim in front of `op`, makes `Locate` and
  `exec.LookPath` differ: then the daemon runs no `op`, or the shim (`LocatedIsRun` covers the
  rest).
- The lock of the probe ends with the daemon; a probe of a crashed daemon and one of its
  successor may both ask the user.

`PROJECT.json` "findings" quotes the lines of the five. The passing runs hold under the
complementary condition of each: writes that succeed, replies that arrive, a client
directory of its own, one writer at a time, and processes that do not cross.

## Proofs

`TokenDaemonProofs` proves, for any set of handlers, any bound `MaxMinted` and any
`Expiring`:

| Theorem | Of |
|---|---|
| `TypeCorrect` | `TypeOK`, with no further assumption: writes may fail and any files may be deleted |
| `Invariance` | `IInv` |
| `RetiredForGood` | `NoRetiredTokenCurrent` |
| `KindsApart` | `KindsKeptApart` |
| `PromiseKept` | `PromisedRefreshHonoured` |
| `DiskAgrees` | `DiskMatchesMemory` |
| `StaleRefused` | `StaleNeverServed` |
| `SpentOnce` | `EachRefreshSpentOnce` |
| `Refinement` | `ImplementsAuthority` |
| `AccessNeverRevived` | `AccessTokenNew` |
| `StaleNeverRun` | `StaleNeverRuns` |
| `RotatesAlone` | `RotationReplacesPair` |

They hold for any number of starting processes too, and come in three levels, by what they assume of
the disk and the operator:

- Nothing at all, for `TypeCorrect` and the last three: any write may fail and any files may be deleted. What
  finding 1 costs is thereby bounded from above. Until processes cross, a failed save can revive a refresh token,
  but never an access token, so it never lets a stale request run `op` (`StaleNeverRun`), and every rotation still
  replaces the whole pair in memory by one that was never accepted, with no other rotation under way.
- `Documented`, for `KindsApart`: an operator who revokes deletes both `refresh.token` and `session.token`, as
  docs/tokens.md says. An operator who deletes only `refresh.token` leaves a copy of the access token in
  `session.token`, which the next start migrates: the access token becomes the refresh token. Failing saves do
  not spoil this one.
- `Dependable`, for the others: `Documented`, and writes succeed. Finding 1 shows that the second half is needed.

`TypeCorrect` and `RotatesAlone` do not mention `crossed`; `DiskAgrees` needs it for `refresh.token` only.

The argument. None of the properties is inductive: they speak of a serving daemon,
and what a serving daemon holds was decided by the files an earlier process left
behind, or that another process is about to write. Inductive invariants, each built on the one before, tie them together.

`AnyInv` holds whatever happens:

- `MemoryInv`, `LockInv`: which tokens each process has in memory in which phase, that handlers
  run only while one serves, and that only the holder of `mu` rotates.
- `KnownInv`: every token anywhere was generated before (`Known`), so the next
  number is new. This makes a new token differ from everything retired.
- `PairInv`: the token a rotation spends is still current, and its pair is neither retired nor in use.
- `ExpiryInv`: what was not generated yet has not expired, so a new refresh token can be used.
- `ReliedInv`: what a starting process has read of `refresh.token` is still so, unless it is `outdated`.
  It is what makes `outdated` and `crossed` the right histories: without it a process that comes late could not
  be told from one that may go on.

`ApartInv` adds what holds until processes cross, whatever the disk does: `NewInv`, that the access token of each
process is its own, and `StaleInv`, that a stale request stays so and is not let through to `op`.
`KindInv` adds that a file holds the kind its name says, and that the migration of a missing
`refresh.token` would find no access token. `IInv` adds what saves that succeed give:

- `AloneInv`: without `company`, which files agree with memory after which step of a start or of a rotation.
- `RotationInv`: what the rotation in flight has written of `refresh.token`, and that otherwise it
  is the one in memory unless that has expired.
- `RetiredInv`: neither memory nor what the next startup may load has been retired.
  It is the heart of `RetiredForGood`: a crash between two writes leaves
  `refresh.token` either old, in which case memory's token is not retired by the
  crash, or new, in which case nobody has used it yet.
- `PromiseInv`: the refresh token handed out last is on disk, and in memory if a process serves, until it expires.

Each conjunct has a lemma (`TypeStep` to `PromiseStep`) with one step per kind of action. `StepSplit` names
the kinds, and `ReadsFrame`, `StarterFrame` and `HandlerFrame` say what each kind leaves alone.
`MigratesAlone` shows that a migration that does not cross finds nobody serving, and `GeneratesInNeed` that a
process that generates a refresh token replaces an unusable one.
`TokenFacts` states what the provers need of token arithmetic, once.

The refinement. The authority's refresh token is there while no process is, so it must be the
one on disk, and a rotation takes effect at `SaveRefresh`, not at `Swap`: a process that ends
in between leaves the new token to the next. From there to the swap (`Superseded`) memory still
holds the old pair, but the handler that rotates holds `mu`, so nobody is let in with it. When the refresh
token in memory has expired, the one that counts is on disk, where a second start may have put a new one. The
mapping (`AcceptedAccess`, `AcceptedRefresh`, `RetiredSoFar`) says this without the invariant;
`ViewHolds` shows from `IInv` that the refresh token it accepts is the one on disk in every state.
`AuthorityStep` then shows that `GenerateRefresh` and a migration are `Prepare` (`Prepares`), `Listen` is
`GoLive`, `SaveRefresh` is `Rotate`, `Stop` is `Shutdown`, `RemoveFiles` is
`Revoke`, and every other action but `Tick` is a stutter (`Stutters`, `OutsideStutters`); the step in which processes cross is
excepted, and so is everything after it.

`OpRunProofs` proves, for any timeouts, any width of an integer, any buffer and any
amount of output that `RunAssumption` admits:

| Theorem | Of |
|---|---|
| `TypeCorrect`, `Invariance` | `TypeOK`, `IInv` |
| `OutputIsComplete` | `OutputComplete` |
| `ResultIsTrue` | `ResultTrue` |
| `OpIsGone` | `NoOpLeftBehind` |
| `ProbeIsTrue` | `ProbeTrue` |
| `MaxIsHonoured` | `NeverBeyondMax` |
| `LocatedOpIsStarted` | `RunsTheLocatedOp`, from `OpLookupProofs` |

The properties speak of a run that has returned, so `IInv` follows it there:
`ProcessInv` says in which state `op`, its output and its terminal are at each place
of the waiting goroutine, `ContextInv` why the context may have ended and that `op`
is killed for no other reason, `ErrorInv` that the error of the wait tells what
became of `op`, and `ResultInv` that the result, once told, stays true. The case that
needs all of them is an `op` that succeeds while the watcher is killing it: `Wait`
returns the context's error, and neither a success nor another status is told. The
timeout is bounded by `WrapType` and `TimeoutType`, on the product of two integers
that may overflow.

`DoctorProofs` proves, for any number of clients, machines and pairs, any losses and any
unwritable files, without further assumption:

| Theorem | Of |
|---|---|
| `TypeCorrect` | `SystemTypeOK`, which includes that no client sends a request without a token |
| `RunsOnce` | `RunOnce` |
| `RotatesOnce` | `RotatesAtMostOnce` |
| `ProbesAreAlone` | `OneProbe` |
| `RefusedForProbe` | `RefusalMeansProbe` |
| `ShimNeverRunsShim` | `ShimRunsNoShim`, from `OpLookupProofs` |

`RunOnce` counts what happened at the daemon, and is decided by where the client is. `Control` ties the two
together: `RunControl` says that an invocation for which `op` ran is past every point from which
a request is sent, that one whose connection may still carry an "execute" has not had a run yet,
and which messages can be on the connection at each place; `RenewControl` says the same of
rotations, and why an invocation does not come back to the refresh; `ProbeControl` confines
`/health/op` to doctors. `LockInv` is the equivalence of holding `probeMu` and a probe on the wire, from which
both properties of the lock follow.

`CredentialProofs` proves, for any number of commands and doctors and any pairs:

| Theorem | Of | Assumes |
|---|---|---|
| `NeverOverwrittenByOlder` | `NoStaleOverwrite` | `ClientsApart` |
| `DaemonIsAuthority` | `DaemonImplementsAuthority` | `ClientsApart` |
| `KeptUntilRotatedElsewhere` | a machine keeps the credential until a client of another one rotates it | `ClientsApart`, `Reliable` |
| `CredentialIsKept` | `CredentialKept` | `OneClient`, `Reliable` |
| `CredentialIsHeld` | `CredentialHeld` | `OneClient`, `Lossless` |

`ClientsApart` says that no client runs in the daemon's own directory of token files (finding 3); there may be
any number of client machines, where the runs have one. `OneClient` says that there is only one: a second machine with a
copy of the credential rotates it away from the first, which is how refresh tokens are meant, and
`KeptUntilRotatedElsewhere` is the action property that says that nothing else does. `Reliable` says that
replies arrive (finding 2) and that `refresh.token` can be written; `access.token` need not be. `Lossless` is
`Reliable` with a writable `access.token`: then no doctor drops a pair either, so the property that the run
`forwarding_lost_reply` violates holds, and lost replies are the only thing that run adds.

`NewestInv` says that no refresh token anywhere is newer than the daemon's.
`Sole` is the heart: while a client has a rotated pair that it has not saved, no file of its machine and no
other client there holds a refresh token as new as that, and nobody else there is in the same place, so nobody on the
machine rotates it away. `Keeping` says of one machine that what it would present is current, or has expired, or is about
to be replaced. `KeptControl` says that a doctor whose renewal failed is at its end, so a credential it dropped
stays accounted for. `PairMoves` says that the daemon's pair changes in three ways only, a rotation, a start
and a stop, and `AuthorityStep` that they are `Rotate`, `GoLive` and `Shutdown` of the authority; the start needs
`NewestInv`, by which the file it reloads still holds the refresh token of the last process, and replaces that
token only when it has expired.

`ServedProofs` proves, under `ClientsApart` and for any number of client machines, commands and doctors, `UndisturbedAlwaysServed`
(`UndisturbedServed`) and `DoctorAlwaysServed` (`DoctorServed`). `disturbed` is set by whatever can make a
client's tokens worthless; `ServedControl` says what a client has while it is not set: a connection that
answers, before its renewal a credential the daemon accepts (in the files, then in hand, then in the request),
and after it an access token the daemon accepts. The step that matters is another client's save: what it
saves is known to nobody else on the machine (`Sole`), so the file it replaces was not the credential this client relies on. With
proxies in the daemon's directory that fails (finding 3).

`HostProofs` proves, for any number of processes and any bounds, `TypeCorrect` (`TypeOK`),
`SettledStaysReachable` (`SettledReachable`) and `ServingAgainAlwaysTrue` (`ServingAgainTrue`).
`SettledInv` strengthens the first: while a daemon is settled, the path is its own, and no other
one is past its probe, because whoever probes finds it answering and exits, or the daemon is not settled any longer. `UpdateInv` says that from
the replacement on every process that runs the old release is the target, dying, or beside it: a process
that starts takes the new binary.

`OpLookupProofs` proves `FallbackIsNoShim` (`FallbackNeverShim`) and `LocatedIsRun` (`LocatedAlwaysRun`), on
which `ShimRunsNoShim` and `RunsTheLocatedOp` rest, for a `PATH` of any length over
any directories. The heart is that the first position of a non-empty set of positions exists, by
the well-foundedness of the naturals, and that two searches agree when what the one finds and the other
does not lies behind what both find.

`TokenFileProofs` proves, for any finite sets of writers, readers and inodes:

| Theorem | Of | Assumes |
|---|---|---|
| `TypeCorrect` | `TypeOK` | - |
| `ReadsAreWhole` | `WholeReads` | `OneWriter` |
| `ReadsAreFresh` | `FreshReads` | `OneWriter` |
| `ReturnsAreTruthful` | `TruthfulReturns` | `OneWriter` |
| `Refinement` | `ImplementsAtomicFile` | `OneWriter` |

`OneWriter` is needed by finding 4. `StagingInv` says what the temporary name and its inode hold at
each step of the writer, an inode that a crash left behind included, and that this inode is not the
one the path names; `ReadingInv` that an inode a reader has open is either the one the path names or no longer has a name, so nobody
writes to it; `SpareInode`, by counting, that an unused inode is always left. The refinement (`WriterRefines`)
maps what a writer has not yet returned to what it is saving: the rename is `Succeed`, a failure or a crash `Fail`,
and the temporary file is not seen. That the inode renamed holds what this save was given, and not what a
crashed one left, is `StagingInv`.

Only model-checked: the liveness properties (`RequestAnswered`, `StartupEnds`, `InvocationEnds`, `RunEnds`,
`ServedWhileLoaded`, `UpdateTakesEffect`), as they rest on fairness, which is beyond this
prover. Every safety property of the passing runs is proved. The safety properties of the violation runs are proved
under what the code does guarantee: `NoRetiredTokenCurrent` where saves succeed, `CredentialHeld` where replies
arrive, `NoStaleOverwrite` outside the daemon's directory, `WholeReads` with one writer.

## Abstractions

- A token is its kind and a number. Its 32 random bytes matter through equality
  alone, and a pair that is generated together shares a number.
- Time is a watermark per kind: tokens of a kind live equally long, so they expire
  in the order of their generation. Access tokens live for an hour and refresh
  tokens for 30 days, so the refresh watermark never passes the access watermark.
  The clock does not go back. In `Forwarding` the legacy token does not expire.
- One process at a time has the listener (`Listen`, `FailToListen`), all have one directory of token files, and one that
  has lost its socket to another while it runs (`Host`) is not in `TokenDaemon`.
- The files of `TokenDaemon` are replaced in one step, by `TokenFile`. Client proxies
  on the daemon's machine that write to its files are the subject of `Forwarding`,
  not of `TokenDaemon`.
- The daemon of `Forwarding` rotates in one step and its writes succeed, by
  `TokenDaemon`. A start, and a second one beside the daemon (`ServeBeside`), are one step each, so processes do not
  cross there. `CredentialHeld` is proved without lost replies.
- `Deploy`, the operator's `scp`, is one step, and does not happen while a client of the machine holds a
  rotated pair it has not saved, or one is on its way to it. Nothing in the code prevents that: the client would then
  write its pair over what was deployed, which may be newer. Commands in any other state may be running.
- A probe in `Forwarding` succeeds exactly when the daemon is up. A listener of the SSH
  tunnel with no daemon behind it is the daemon that stops between the probe and
  the request.
- A client's write of a token file is one step that succeeds or, for a file in `Unwritable`,
  may fail. `CredentialKept` is checked with a writable `refresh.token`: an unwritable one leaves the
  state a lost reply leaves.
- A doctor is modelled in the client role. Its check of `/health` is one step; `checkTokens` reads the
  files in one step, as what it reports of them is not acted upon. A report of the daemon is one value.
- In `Host`, `launchctl` and launchd are external: `legacy` says whether `load` and `unload` work on this
  machine, and both kinds are initial states. `pgrep` finds a daemon that runs, if there is one: its pattern is the
  updater's own path with symbolic links resolved (update.go:247-268), so a daemon started by another spelling of the path
  would be missed, and the update would end as with none running. One service command and one update run at a time.
  What is not a socket at the path, which makes the daemon refuse to start, is left out. An update
  that fails before it replaces the binary, or is up to date, changes nothing and is left out.
- In `OpLookup` a directory stands for its file `op`; the names Windows tries are one.
- The output of `op` is counted in chunks. The switch of the terminal's output
  processing, which changes bytes, is left out; so is the split of a pipe's output
  into stdout and stderr. The terminal of a macOS host is taken for one of Linux;
  macOS revokes it when `op` ends, which removes behaviours (finding 5 among them)
  and adds none. `ClassifyProbe` keeps the classes apart that the documents tell apart by the race of deadline, output and
  exit: of the ones read off the text of stderr, `app_locked` is its own, chosen for any `op` that has failed before its deadline and
  written something, and the others are one, `failed`.
- A deployed or stored bearer value that belongs to no token is like a retired one,
  and is not represented on its own.

## Not modelled

Listed with reasons in `PROJECT.json` "components". In short: the peer check is one comparison per
request and keeps no state; endpoint parsing, configuration and the version order are pure functions
without a boundary that their table tests would miss; `ShouldRenew`, `Renew`, `Save`, `Load` and
`TokenPath` of `internal/auth` have no caller outside tests; dispatch, usage texts and packaging
have no behaviour to check. The metadata queries of opcheck and the doctor's local checks of binary,
shim and host `op` fill fields of a report, and its rendering is wording. `checkSocketDir` and the length
of a socket path only refuse a start.

No property says that a command is run on one machine only: the shim runs `op`
locally on every 127, also when the answer was lost or `op` itself exited 127, and
docs/protocol.md documents that.

## Plan

Done: everything the table of modules lists, with the proofs of `TokenDaemon`, `OpRun`, `TokenFile`,
`Host`, `OpLookup`, and of the safety of `Forwarding` and `Doctor`, the refinement of `TokenAuthority` by both
daemons included.

Left: `Forwarding` takes a rotation and a start of the daemon as one step each. Both `TokenDaemon` and
`Forwarding` are shown to be the same `TokenAuthority`, but that authority knows no file but the one the refresh
token outlives a process in; an
abstract daemon with its files, which `TokenDaemon` implements and whose steps are those of `Forwarding`, would
close what is left between the two, and would bring processes that cross into `Forwarding`. A violation
run of `TokenDaemon` without its `crossed` would show what they do.
