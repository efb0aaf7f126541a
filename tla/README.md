# Verification of immich-share

immich-share publishes selected albums of a private Immich server through a VPS. This directory
holds TLA+ models of its parts that keep state, the TLC configurations that check them on small
instances, and TLAPS proofs of all the safety properties that the passing runs check.

To check one model: `tlc -workers 2 -config ShareFaults.cfg MCShareCommands`. To check the
proofs of one: `tlapm ShareCommands_proofs.tla`.

Contents: [the system](#the-system) · [the models](#the-models) · [the runs](#the-runs) ·
[the proofs](#the-proofs) · [what disagrees](#what-the-models-disagree-with) ·
[not modelled](#not-modelled) · [plan](#plan)

## The system

| Component | Source | State | Operations |
|---|---|---|---|
| Share commands | `immich-share` | none of its own between runs | `open`, `close`, `sweep`, `sync`, `adopt`, `list`, `doctor` |
| Immich client | `immich-share`, class `Immich` | the shared links of the server | create, list, delete |
| Ownership registry | `immich-share`, class `ManagedShares` | `managed-shares.json`: the links the tool owns; a lock file | read, add, remove, lock |
| Edge | `immich-share`, class `Edge` | on the VPS one Caddy snippet per share and `00-globals.caddy`, the configuration the running Caddy loaded; on the NAS the forward | upload, validate, restore, remove, reload, switch the forward |
| Sweep timer | `local.immich-share-sweep.plist`, `sweep.cron.example` | none | runs `sweep` every 900 s |
| Monitor: start | `macmini/photo-share-monitor.py`, its launch agent | the salt, the database file | check the configuration, create the salt once, serve |
| Monitor: ingestion | same | SQLite tables `events`, `shares`, `meta` | poll Caddy's log, the tunnels and Immich, count, stamp, purge |
| Monitor: authentication | same | failed logins of each client | judge a request |
| Monitor: handlers | same | the lock of the database | check a request, query, ask Immich, run the CLI, answer |
| Monitor: page | same, `SCRIPT` | the table, the button | poll, create, close |
| Monitor: log | same | last line and suppressed count of each category | print or count |
| VPS containment | `vps/containment/` | the rules of `DOCKER-USER` | `apply`, `remove`, `status` |
| Tripwire | `macmini/denied-tripwire.sh` | pending refusals of a stream | coalesce, notify |
| WireGuard container | `nas/wireguard-entrypoint.sh` | firewall of a namespace, the tunnel, the relay | bring up, supervise, tear down |
| WireGuard on the admin host | `macmini/start-wireguard-fail-closed.sh` | the tunnel | wait for pf, bring up |
| Forced command of the NAS | `nas/forward-command.sh` | none | dispatch one request |
| Upload helper | `nas/upload-admin-helper.py` | none | translate one request |
| Benchmark | `scripts/benchmark-downloads.py` | counters of workers and levels | download, count, report |
| Public tree check | `scripts/check-public-tree.py` | none | scan files |
| Filters, guards, Caddy | nginx and Caddy configuration | none of ours | match, limit, log |
| Doctors, preflight | `nas/*doctor*.sh`, `nas/controller/doctor-preflight.sh` | none | probe |

How they meet. A terminal, the timer and the monitor each start the CLI, which takes the lock of
the registry: exclusive for what changes something, shared for `list` and `doctor`. Under it the
CLI talks to Immich by HTTP and to the VPS and the NAS by ssh, one command after another. Any of
these calls may fail, before or after it had its effect, and an ssh command may outlive the client
that started it. Caddy writes an access log that the monitor reads by ssh. On the VPS the
containment script edits a chain that Docker, `ufw` and others share with it. Inside the monitor a
thread for each request, the ingesting thread and the log share three locks; its page polls it and
starts the CLI through it. The upload helper is started by the gate of the NAS, one process for each
request.

What is hard about it:

- *Partial failure.* One `open` makes seven changes on three hosts and rolls back by four
  more; each may fail, and the rollback's steps may fail as well.
- *Ownership.* Only links in the registry may ever be deleted or published. One that is lost
  from it is never revoked; one that is in it wrongly may be somebody else's.
- *Processes that die*, the monitor's timeout foremost: it kills a CLI but neither the remote
  command it waits for nor what that command does next.
- *Two views of one thing*: the snippets on disk and the configuration that Caddy runs; the
  registry and the links of Immich; the log and the table of events; the clock a thread read and
  the list it finds under the lock; the rule at an index and the index.
- *Exceptions that are none*: the CLI's client leaves with `SystemExit`, a body may nest too deep
  for the parser, a connection may end in the middle of an answer.
- *Starts that are interrupted*, of the monitor, the container and the notifier, and started again.
- *Things that must happen in the end*: an expired share is revoked, the portal empties, the page
  shows what is so, the monitor serves again.

What makes each part correct: the tool never loses or usurps ownership and its reports are true
(share commands); the bridges stay contained at every step and exactly the configured traffic
passes after a success (containment); no visit is counted twice, none is missing while the
telemetry is called fresh (ingestion); no window lets more guesses through than the limit
(authentication) and the right credential comes back; every refusal that was read is in one
notification, in time (tripwire); every request is answered once and told of failures (handlers);
addresses are hashed with one salt (start); a drop is what was asked for (upload helper); nothing
but the allowlist is ever reachable from the container (tunnel).

## The models

### Portal: what the CLI controls from afar

`links`, `past` and `origin` are the shared links of Immich, those whose expiry date has passed,
and who made each; `disk` is the content of each snippet on the VPS, `running` the snippets in the
configuration that Caddy has loaded, `forward` the NAS forward. A snippet is `absent`, `good`, or
`bad`: truncated, so that Caddy refuses it. `late` holds the commands whose client is gone and
which will still take effect.

A command sent to a host is a record (`EdgeOp`). `Succeeds(o)` is its success, `Errs(o)` every way
to fail: Caddy refuses, the connection is lost before the command ran, after it ran or half-way
(`Partly`: some of the files removed, part of the snippet written), or the command is still
running. `Deletes` and `DeleteErrs` are the same for a request to Immich. `Expire`, `UserCreate`,
`UserDelete`, `CaddyRestart` and `Land` are what happens without the tool.

### ShareCommands: the commands

Every process has a `pc`, the next call it will make, and a record `loc` of its local variables.
An action is one remote call, or one write of the registry, with all the local work up to the next
one, so that any failure, kill or step of another process may come between two calls.

| Actions | Code |
|---|---|
| `Enter`, `Leave` | `main`, `ManagedShares.lock` |
| `OpenRead`, `CreateLink`, `Record`, `Unadd`, `EnableForward` | `_open_share`, up to the forward |
| `Write`, `Validate`, `Restore` | `Edge.write_snippet` |
| `Survey`, `Remove`, `Reload`, `Disable` | the common end of `_open_share`, `cmd_sync`, `_sync_portal` |
| `UndoKey`, `UndoGlobals`, `UndoReload`, `UndoForward`, `UndoLink` | the rollback of `_open_share` |
| `CloseRead`, `Revoke` | `cmd_close` |
| `SweepRead`, `Purge`, `Forget`, `Converge` | `cmd_sweep`, `_sync_portal` |
| `SyncRead`, `AdoptRead` | `cmd_sync`, `cmd_adopt` |
| `ListLinks`, `ListSnippets` | `cmd_list` |
| `Kill` | the death of a process, the monitor's timeout (`_run_cli`) for one |

`recorded` (every key that was ever in the registry), `fate` (how an open that did not succeed
ended: `failed` and rolled back, `warned` of, `killed`, or `stranded` with its link alive and
unrecorded) and the field `due` of `loc` (what a sweep read as expired) are history. `managed_links`
forgets what Immich no longer lists: that write is part of the action that reads (`ManagedLinks`).

### ShareLifecycle: what the commands promise

The life of the shares without calls, processes and hosts: a key is made once, its link lives and
is over; the registry forgets it only then; the tool ends only links that it made or recorded; only
recorded ones have a snippet or a route. `ShareCommands` implements it (`KeepsLifecycle`) under

| ShareLifecycle | ShareCommands |
|---|---|
| `life[k]` | `LifeOf(k)`: from `origin` and `links` |
| `maker`, `known`, `owned`, `users` | `origin`, `registry`, `recorded`, `meddles` |
| `public` | the keys in `Installed \cup running` |

Most steps of a command (reads, reloads, the forward, failures) are stutters there.

### Containment: the VPS firewall

`chain` is `DOCKER-USER` as a sequence of rules, `jump` whether `FORWARD` jumps to it, `config` the
`.env` file. A run of the script is a process with one action per `iptables` command: `NewChain`,
`Jump`, `Guard`, `Probe`, `Find` and `Delete`, `Insert`, `FindStage` and `DeleteStage`. A command
that fails ends the run (`set -e`), except a listing inside a pipeline, which then looks like one
that found nothing. `Flush`, `DockerStart`, `AlienInsert` and `EditConfig` are other users.
`Passes` is the judgement of the chain on a packet: the first matching rule wins.

### Telemetry: the monitor's ingestion

`log` is what Caddy wrote, `rolled` how much of it is no longer in `access.log`, as Caddy starts a
new file at 5 MB (`Write`, `vps/Caddyfile:160`) and `tail` reads the current one only (`LogTail`);
`shook` is when each peer last shook hands. `events[i]` is the number of rows that entry `i` has in
the table, `seen` the `last_seen` of each share's row, `meta` the watermark, the stamp of freshness,
the date of the last purge and the number of peers that were up. The loop is one process, in two
halves around the ssh call: `Fetch` is what the VPS reads, `Fetched` the answer, up to
`SshTimeout` later, when the monitor reads its own clock and watermark and counts the peers whose
handshake is less than `PeerWindow` old by that clock (`CountPeers`). So a stamp may be younger than
the data it vouches for. `ListShares`, `Commit`, `Check`, `Purge` and `MarkPurge` follow; each may
fail, and `Crash` comes anywhere. Between `Fetched` and `Commit` any time may pass, as Immich may be
slow. `Status`, `Healthy`, `ShareDownloads` and `AlbumDownloads` are what the console and the hub
show. Time advances in polls; the clocks of the VPS and of the Mac are taken to agree.

### Lockout: the monitor's authentication

Every request has a thread, which reads the clock (`Arrive`) and takes the lock later (`Judge`), so
that the list of failures is pruned and extended out of the order of the clocks. `counted` is the
history of the guesses that were counted since the last success. `Kept` is the list as a lockout
leaves it, on which the end of the lockout depends.

### LogLimit: the monitor's log

One category of `log`, called by any number of threads: `CallLog` reads the clock, `Decide` is what
happens under `_log_lock`, `PrintLine` the line after it. Categories share nothing but the lock.

### MonitorStart: the start of the monitor

`main` up to the serving of requests, step by step: `LoadSettings`, the creation of the salt
(`LookAtSalt`, `CreateTmp`, `WriteTmp`, `RenameTmp`, `ReadSalt`), `InitDb`, the ingesting thread
(`Ingest`) and `Bind`. Any step may fail and the process die anywhere; launchd starts another one
with some pid, perhaps one that was used before, whose leftover has the name that it wants. `Edit`
changes the configuration. `hashed` is the history of the salts in use.

### Handlers: what answers a request

Each thread has a request (its method, path, header, credentials, body, each as the class that the
checks tell apart) and a list `todo` of the calls that its answer is made of: `_conn` takes and gives
back the lock of the database around queries, Immich and the CLI are asked. `CheckAccess` is
`_access_ok`, the body and the fields in their order. Any call may raise (`CallRaises`), Immich's
also `SystemExit`; `Handled` is what catches it. A client may be gone when its answer is sent
(`ClientGone`); the hub's answer is sent inside of its own `try`, so that a second one is tried
(`SendsAgain`). `answered` are the codes sent.

### Console: the page

The page (its table and the button *create*), the requests under way and the shares. Requests of the
timer overlap and are answered in any order (`Deliver`) or never (`Lose`); a click runs the CLI,
which takes effect at some moment (`Act`), ends or is killed after 180 seconds (`CliTimeout`) and may
then act still (`OrphanActs`). What a command does step by step is the business of `ShareCommands`,
where the same timeout is `Kill`. The checks before a handler are in `Handlers`.

### UploadRequests: the upload helper

One process per request: `Call` with the alarm set, `ReadBody`, `Disarm`, `Check`, which refuses,
crashes or becomes the command with the arguments `Argv`, and `Done`. Numbers are numbers; a text is
the class of what the checks see of it (`TextClasses`), a body that is no object of distinct fields
one of `Malformed`.

### TunnelBoot: the WireGuard container

`Script` lists the commands of `lock_output` and `wg-quick up`; `line` is the next one. `policies`
and `accepted` are the rules of `OUTPUT`, `Reachable` what they let through. A command fails
(`CommandFails`, `set -e`), a signal arrives (`Signal`) and is handled when the command in the
foreground has ended (`Trap`), the relay dies, process 1 is killed; `down` is two steps
(`DownRelay`, `Exit`), and Docker starts the container again.

### Benchmark: the download benchmark

`main` runs one level of workers after another; a worker is at a place (`loop`, `waiting` for
headers, `reading`, reading the body of a `rejected` response, `asleep`, `returned`, `raised`) and
has its counters. Of the time only what the code compares matters: `early`, the last half second
(`closing`), `over`.

### MCMonitor, MCUtilities and MCTelemetry

Parts that share no state are put beside each other in one run: `part` (`program`) says which one
moves in a behaviour, the others stay as they were at first. So their states add up and do not
multiply, and every part is checked whole, as if it were alone. `MCTelemetry` does the same with the
two subjects of `Telemetry`, of which no property speaks together: the entries of the log, while no
peer shakes hands again, and the peers, while nobody visits.

### Tripwire: the notifications of refusals

`denied` is the log on the NAS, `pipe` what is on its way from `stream` to `consume`. The two halves
of the script are two processes: `Deliver` and `Wake`, and `Read`, `Notified` and `Eof`. `Restart`
and `Kill` are launchd and signals, `Disconnect` a lost connection. A delivery takes its time, in
which `stream` goes on; one that fails is no different but for the log. Points in time are kept as
the time left until then, `Pass` lets all of it go by, and only when nothing that is due is
outstanding (`Settled`): so a deadline can be stated as a number. `owed`, `age` and `reports` are
history.

## The runs

A name in *italics* is a run that finds a violation: see below.

| Run | Question | Instance |
|---|---|---|
| `ShareFaults` | Is what `open`, `close`, `sweep`, `sync`, `adopt` and `list` report true, and, while nothing failed, "fully closed"; does a reported failure stay private, and are links of others left alone? | 2 processes, 3 keys, one eternal, 2 faults, 1 kill, 1 change by a user |
| `ShareStragglers` | When commands outlive their client, is ownership kept, nothing else published, and every step one of `ShareLifecycle`? | 1 process, 2 shares, 1 fault, 1 kill, 1 late command |
| `ShareEnds` | Is every expired share revoked, and does the portal empty, although a call fails or leaves a command that lands late? | 1 process, 2 shares, 1 fault, 1 late command, fairness |
| `ContainmentRuns` | Do the bridges stay contained through any sequence of runs, and does `apply` do what it says? | 1 run at a time, 3 configurations, 2 first chains, 1 fault, 1 change by others |
| `TelemetryLoop` | Is nothing counted twice, nor missing while the console says ok, did all expected peers shake hands lately while the hub is told ok, do the sums agree, and is every visit counted in the end while its share is open and the tail shows it? | 1 share, 3 entries, a tail of 2, rotations, 4 polls; 2 peers, a window of 2, 6 polls; an ssh call of 1, 1 fault, fairness |
| `MonitorParts` | `Console`, `Handlers`, `Lockout`, `LogLimit`, `MonitorStart`: is every request answered once and truly, does the lock come back, are guesses, lines and the salt right, and do page, button, credential and monitor come back? | see the bounds; fairness |
| `Utilities` | `UploadRequests`, `TunnelBoot`, `Benchmark`: is a drop what was asked for, the container confined and ended by a signal or its relay, and does a row account for the downloads? | see the bounds; fairness |
| `TripwireAlerts` | Does every summary tell exactly what it owes, in time and once, and is a lost stream followed again? | 4 lines, 2 faults, a quiet period of 3, a tick each 2, fairness |
| *`ShareMessage`* | Is a closed portal closed when one call may fail? | 1 process, 1 share, 1 fault |
| *`ShareLock`* | Does the lock serialize what the commands do? | 2 processes, 1 share, 1 kill, 1 late command |
| *`ShareRestore`* | Is a snippet reported restored the one that was there before? | 1 process, 1 share, 2 faults |
| *`ContainmentTunnel`* | Does the tunnel stay closed to other bridges while `apply` runs? | 1 run at a time, no fault, no change by others |

### Bounds, and why they are enough

- *Two shares* give one that is opened while another is active, the two cases of the rollback, and
  a last one whose end empties the portal; a third key in `ShareFaults` is the link that never
  expires. `Prefixes` holds every set of keys that a typed prefix can select.
- *Two processes* give every conflict that the lock must settle. `ShareStragglers` and
  `ShareEnds` have one: there the race is between what a dead command left behind and the next
  command, and at most one process holds the exclusive lock. `ShareEnds` has no kills: a call that
  fails and leaves its command running ends the process at the same place with the same remains.
- *Two faults* are a failure and a failure of its rollback. Faults, kills, late commands and
  changes by users are counted in the state, so that a run explores every place for them.
- *`MaxRemovals`* stands for the 256 of `remove_owned_rules`; six rules is more than two
  unfinished runs leave, and the limit itself is reached as well.
- The stamps of `Telemetry` are polls, its log has no two entries of one stamp. A tail of two with
  three entries makes the log outrun a poll, a rotation may come at every entry. The ssh call may
  last from one stamp to the next, as long as the telemetry stays fresh without another poll. For the
  peers a window of two and a time of six leave room for one that was counted, fell silent and is
  shown for `StaleAfter` longer, and for one that was never heard of again.
- Four lines give `Tripwire` a notification, a second one that has to wait, and lines written while
  it is down. Its quiet period of 3 is no multiple of the tick of 2, so that the period ends between
  two ticks.
- `Lockout` has three wrong credentials and a limit of two: the least that lets a replayed one
  stand apart from a new one when the limit is reached. The window is 3, time goes to 5.
- `LogLimit`: two threads, one line each 2, five ticks and five messages: two lines, and messages
  of an older clock than the last line.
- `MonitorStart`: one process, two pids, so that one comes again; three faults, which are a death
  with a leftover, a death of its successor and an edit; eight configurations, each bad in one way.
- `Handlers`: two threads beside the ingestion; two mishaps, so that a second call raises after a
  first was caught; the requests are one for every outcome of the checks and every list of calls.
- `Console`: one share, two overlapping requests of the timer, one click, one trouble (a lost
  answer, a failed listing, a lockout or a reload). Two shares hold as well, in a longer run.
- `UploadRequests`: each number at the edges of its range and beside them, and a number of files
  that is not the default, with all combinations of fields that are sent and left out.
- `TunnelBoot`: two faults, so that a command fails after the relay died, or after a restart.
- `Benchmark`: levels of one and two workers, two downloads for each worker of a level, of which one
  may be early and one late.

`FailedOpenStaysPrivate`, `ActiveRoutesServed`, `SucceedsWhole` and `RevokesWhole` are checked
without late commands (`MaxLate = 0`): a command that lands after its successor has finished can
undo anything it reported. That is the finding of `ShareLock`, and what remains true in spite of it
(`OwnershipKept`, `OnlyRecordedPublished`, `PortalEmpties`) is checked, and the first two proved,
with late commands; so is, proved, the part of `RevokesWhole` about links and registry
(`RevocationHolds`). `ClosedUnlessFailed` says of `FullyClosedIsClosed` what is true of it: it holds
in every behaviour up to the first fault or kill, for the reason that `ShareMessage` shows.

### Fairness

`FairSpec` of `ShareCommands` assumes that a running process is scheduled and its calls return
(weak fairness of `Work`), that dates come (`Expire`), that a command left on a host ends (`Land`),
and that a sweep gets the lock again and again (strong fairness of `Enter(p, "sweep")`): the timer
starts one every 900 seconds, and a process waits in `flock` until it has the lock. `flock` prefers
no waiting writer, so that an endless chain of overlapping `list` commands would keep every sweep
out; the last conjunct assumes that they pause. The code does nothing to ensure it, nor does it
bound every ssh call in time; both are listed as hazards. No fairness is assumed of opens, users or
restarts of Caddy. The liveness properties hold with the bounded number of faults of the instance:
a sweep that fails for ever revokes nothing.

`FairSpec` of `Telemetry` assumes that the loop goes on (weak fairness of `Cycle`), as the
`while True` of `_ingest_loop` does under launchd's KeepAlive.

`FairSpec` of `Tripwire` assumes that time passes, that `sleep` and `curl` end when theirs is up
(`--max-time`), that `consume` is scheduled, and that launchd starts the script again (KeepAlive).
Nothing makes a line arrive (`Deliver`) or a connection break. A connection that is dead without
either end noticing is `Disconnect` at the moment when ssh gives up (`ServerAliveCountMax`).

`ConsoleFairness`: the timer of an open page fires, the threads of the server run, an answer that is
not lost is delivered, and the timeout of `subprocess.run` ends a command; not that a command ends by
itself. `StartFairness`: launchd starts the monitor again (KeepAlive) and its steps are carried out.
`EntryFairness`: Docker starts the container again (`restart: unless-stopped`), the script runs, socat
listens or dies. `MCMonitor`, `MCUtilities` and `MCTelemetry` state the same for the part that moves. The other
modules need no fairness: what they are asked is safety.

### The properties

`ShareCommands`: `OwnershipKept`, `OnlyRecordedPublished`, `ForeignUntouched`,
`FailedOpenStaysPrivate`, `ActiveRoutesServed`, `SucceedsWhole` (of an open `OpenSucceedsWhole`, of
`sync` and `adopt` `SyncSucceedsWhole`), `RevokesWhole` (`CloseRevokes`, `SweepRevokes`),
`OrphanMeansNoLink`, `ClosedUnlessFailed`, the refinement `KeepsLifecycle`; in the end
`ExpiredIsRevoked`, `PortalEmpties`. `Containment`: `StaysContained`, `ApplyExact`,
`UndisturbedSparesOthers`. `Telemetry`: `CountedOnce`, `FreshMeansCounted`, `DownloadsAgree`,
`HealthyMeansUp`, `VisitsCounted`. `Tripwire`: `SummaryExact`, `ReportedInTime`, `ReportedOnce`,
`FollowsAgain`. `Lockout`: `GuessesBounded`, `Restored`. `LogLimit`: `LinesSpaced`. `MonitorStart`:
`SaltKept`, `ServesAgain`. `Handlers`: `AnsweredOnce`, `FailuresTold`, `LockComesBack`. `Console`:
`TableCatchesUp`, `ButtonReturns`. `UploadRequests`: `OpensWhatWasAsked`, `CommandUndisturbed`.
`TunnelBoot`: `TunnelConfined`, `RelayDeathFailsClosed`, `SignalEndsContainer`. `Benchmark`:
`RowAccounts`. Each is stated in words above its
definition. For each there is a variant of one definition, marked *Mutant* in the module and
used by no specification, under which it fails: a plausible bug of the code it is about.

`ActiveRoutesServed` excepts shares whose open is running, was killed, failed or warned of its
rollback; not those that were stranded, whose routes, should they be adopted, must be served like any
other.

## The proofs

For any sets of keys, processes, threads, clients, requests, addresses and configurations, any log
or first chain, and any bounds:

| Module | Theorem | Statement |
|---|---|---|
| `ShareCommands_proofs` | `Invariance` | `Spec => []IInv` |
| | `TypeCorrectness` | `Spec => []TypeOK` |
| | `Ownership` | `Spec => []OwnershipKept` |
| | `Publication` | `Spec => []OnlyRecordedPublished` |
| | `Neighbours` | `Spec => ForeignUntouched` |
| `ShareReports_proofs` | `BaseHolds` | `Spec => []BaseInv` |
| | `OrphansHaveNoLink` | `Spec => []OrphanMeansNoLink` |
| | `CloseIsTrue` | `Spec => []ClosedUnlessFailed` |
| | `ReportHolds` | `Spec => []ReportInv`, if no command is left behind |
| | `FailedStayPrivate` | `Spec => []FailedOpenStaysPrivate`, if no command is left behind |
| | `RoutesAreServed` | `Spec => []ActiveRoutesServed`, if no command is left behind |
| | `SuccessesWhole` | `Spec => []SucceedsWhole`, if no command is left behind |
| | `RevocationsWhole` | `Spec => []RevokesWhole`, if no command is left behind |
| | `RevocationHolds` | `Spec => []LinksRevoked`: what `close` and `sweep` say of links and registry |
| | `NobodyIsLeft` | no command is left behind, if `MaxLate = 0` |
| | `ReportsTrue` | the four properties above, of `Spec` alone, if `MaxLate = 0` |
| `ShareLifecycle_proofs` | `Implementation` | `Spec => KeepsLifecycle` |
| `Containment_proofs` | `ChainHolds` | `Spec => []ChainInv`, with one run at a time |
| | `ContainedKept` | `Spec => StaysContained`, with one run at a time |
| | `AppliesExactly` | `Spec => []ApplyExact`, with one run at a time |
| | `SparesOthers` | `Spec => UndisturbedSparesOthers`, with one run at a time |
| `Telemetry_proofs` | `CountsOnce` | `Spec => []CountedOnce` |
| | `FreshIsCounted` | `Spec => []FreshMeansCounted` |
| | `UpWhileHealthy` | `Spec => []HealthyMeansUp` |
| | `DownloadsAddUp` | `Spec => []DownloadsAgree` |
| `Tripwire_proofs` | `TripHolds` | `Spec => []TripInv` |
| | `SummaryHolds` | `Spec => []SummaryExact` |
| | `InTime` | `Spec => []ReportedInTime` |
| | `Once` | `Spec => []ReportedOnce` |
| `Monitor_proofs` | `Bounded` | `AuthSpec => []FailuresBounded` |
| | `GuessWindow` | `AuthSpec => []GuessesBounded` |
| | `Restoration` | `AuthSpec => Restored` |
| | `Spacing` | `LogSpec => []LinesSpaced` |
| | `OneSalt` | `StartSpec => []SaltKept`, if there is one process |
| | `AnswersOnce` | `HandSpec => []AnsweredOnce` |
| | `TellsFailures` | `HandSpec => []FailuresTold` |
| | `LockReturns` | `HandSpec => []LockComesBack` |
| `Utilities_proofs` | `Confinement` | `EntrySpec => []TunnelConfined` |
| | `OpensAsAsked` | `UploadSpec => []OpensWhatWasAsked` |
| | `AlarmEnds` | `UploadSpec => []CommandUndisturbed` |
| | `RowsAccount` | `BenchSpec => []RowAccounts` |

They rest on the assumptions of the modules on their constants: the globals are no key, `NoKey` is no
name, prefixes select keys, bounds are natural numbers, the right credential is not a wrong one,
nobody is no thread, a placeholder is no address, `.env` holds addresses or placeholders. TLC
evaluates these on every run. Three theorems or groups of theorems assume more, and say so:

- *If no command is left behind* is `[]NoneLeft`, that is, `late = {}` in every state: whatever
  clients and calls fail, no ssh command outlives its client. Lost connections, half-written files,
  rollbacks that fail and kills between two calls are all still there. Without it each of the four
  properties is false, TLC finds with one late command, for the reason that `ShareLock` shows: the
  lock ends with the process that holds it and a straggler knows nothing of it. `Spec` assumes no
  fairness, so the statements hold of every behaviour up to the first command that is left behind.
  `NobodyIsLeft` shows that the hypothesis holds of the instances that `ShareFaults` checks, those
  with `MaxLate = 0`, and `ReportsTrue` states the properties of these with no other hypothesis.
- *With one run at a time* is `OneRun`: the set `Runs` has no two elements. systemd starts no second
  run of a oneshot beside the first, and a run may follow another without end; with two runs beside
  each other TLC finds each of the three properties false.
- `OneSalt` assumes that one monitor runs at a time, as under launchd.

### The share commands

*Why the invariant is as strong as it is.* `OwnershipKept` says that a recorded share whose link
exists is in the registry. The registry shrinks in `managed_links`, which keeps what Immich lists,
and in `registry.remove`, which is safe only because the process has seen the deletion of each link
in its `gone` succeed *and* no link comes back: keys are handed out once (`Handed`). So the
invariant says of the locals that `gone` holds no living link, and of the world that what is
recorded or lives was handed out. `OnlyRecordedPublished` needs the same of everything a process
may still write (`todo`, `active`, `name`), and of every command that may still land (`SafeOp`), a
removal being safe whatever it removes. `ForeignUntouched` needs that whatever a process is about to
delete is recorded or was made by its own open (`LocalOK`).

*How the proof goes.* `IInv` splits into four parts (`IInvParts`): keys and registry, edge,
counters, processes. `CallSafe` shows that any outcome of any call of a safe command keeps the edge
part, `SoundMove` and `QuietMove` that a step of one process leaves the others in order; then there
is one lemma per action, gathered in `WorkStep`, `KillStep` and `EnvironmentStep`.

*Why the commands implement the life of shares.* `ShareLifecycle_proofs` assumes `IInv` in both
states of a step and sorts the steps by what they do to `links`: a step that leaves the links alone
is a `Forget`, a `Publish`, an `Own` or a stutter (`QuietPublishes`, `QuietForgets`), a creation is a
`Make`, a deletion a `Revoke`, because whatever a process deletes is recorded or its own
(`OwnDeletes`, from the lemmas behind `Neighbours`), and only the action of a user is a `Withdraw`.

*What the lock is for.* What a command reports is true only because nobody else changes the registry,
the files or Caddy between its first read and its report. `BaseInv` adds this to `IInv`: whoever may
change things is the only one who holds the lock in any form (`Exclusive`), every process keeps to
the steps of its command, and what it knows of links and registry is still so (`KnownInv`): the
orphans that `list` found at the end have no link, a `close` past its purge has a key that is
neither linked nor recorded, an `open` works on a key that is nobody else's, what a `sweep` read as
expired is still to be visited or has no link, and after its purge is neither linked, recorded nor
active (`SweepOK`), and the key of an `adopt` is recorded (`AdoptOK`). That much holds whatever
is left behind, for a straggler is a command to the edge and touches neither links nor registry.
`KnownInv` is kept step by step by the process that moves (`WorkProceeds`), and by the others because they hold
the lock in a way that excludes the move.

*What a command knows of the edge* is `ReportInv`, in five parts: no process is going to write a
share whose open failed and was rolled back (`PrivateOK`; one that was stranded is written by nobody
until it is recorded, by `OnlyRecordedPublished`), an open has written the globals and then its snippet and has
seen Caddy load both (`WholeOK`), a survey overlooks no snippet and the removal removes all of them
(`SurveyOK`), a `sync` or `adopt` has uploaded the globals and every active snippet it has passed
(`SyncOK`), and a process knows everything that is active, so that what it removes leaves the
globals and the forward to the routes that need them (`ServedInv`, `ServedOK`). The hard case is
the rollback: an open that found the portal in use (`prior`) must touch neither the globals nor the
forward. While an open runs, was killed or has warned, its own share is excused. At the end of a
`sync` the parts meet (`Synced`): what is on disk is the globals and what is active, by `SyncOK` and
`SurveyOK`; all of it parses, because each upload was validated; so the reload that succeeded loaded
exactly that.

`ClosedUnlessFailed` needs one thing more, that the running Caddy agrees with the files whenever
nobody is about to reload it (`CleanInv`); that is false after the first failure (`ShareMessage`),
so `CleanSafe` says it of the behaviours in which nothing has failed yet, in which nothing is left
behind either.

### Containment

As long as nobody meddles (`seen = meddles`), `ChainInv` says what an `apply` has on top of the chain
at each of its places: after `Guard` the two guards (`GuardsAt(0)`), during `Insert` the first `k`
new rules and the guards behind them (`Inserting`), in the end all the new rules (`TopIs`). It holds
through deletions because a listing never finds what it must not delete: an owned rule is no guard,
so its index lies behind them (`GuardsStay`), and a guard is none of the new rules (`RulesStay`). What
is below the top, whatever older runs left there, does not matter.

That the top decides is `DroppedBy`: a packet that some rule drops is dropped unless an earlier rule
accepts it. The new rules are allow rules for granted addresses and three that drop the rest
(`Shape`); so behind any number of them the guards stop everything of the two bridges that was not
granted (`GuardsContain`), and so do the last two of them (`RulesContain`). `StaysContained` then
asks only what the steps that write to the chain make of it (`ChainWriters`), and `ApplyExact` is that
a complete top accepts exactly what is in it (`RulesDecide`). The index that a run found stays right
(`IndexOK`) because only others may change the chain in between, and that counts as meddling.

### The others

- `Telemetry`: `CountInv` says that no entry with a row or a purged one lies above the watermark
  `meta.event`, that the stamps of the log rise, and that the entries a poll holds above its own copy
  of the watermark have no row: so a commit makes first rows only, and whatever it makes is below the
  watermark that it leaves. For `FreshMeansCounted`, `FreshInv` says that a poll holds all that was
  visible when the VPS read the log, which was no longer ago than an ssh call when its clock was read
  (`Polled`), that an entry of a share which is still open was of a share in its list, as shares open but once (`Listed`), and that what is due and before the watermark,
  or an ssh call before the stamp of freshness, is counted (`MarkCounts`); a commit keeps the last because the watermark
  passes no visible entry that is not in the poll. `UpInv` says that
  the peers a poll has counted, and those stored, are no more than those whose latest handshake, as
  it is now, was less than the window before the stamp of the poll (`UpAt`): handshakes only become
  later. For `DownloadsAgree`, `RowsInv` says that a row belongs to a share that
  was seen and that the shares ever seen are finitely many, though the shares that may come are not.
  The rest is about sums over finite sets, which the library defines by an order that `CHOOSE` fixes:
  that there is one such function (`SumExists`, `SumUnique`) and that a sum of sums over the parts of
  a set is the sum over the set (`SumOfSums`). Each is shown by a least counterexample (`LeastOf`,
  `LeastSet`), as no induction theorem can be used.
- `Benchmark`: `RowInv` bounds what each worker started from both sides: by its completed, limited
  and failed downloads and the one under way (`NoneTwice`), and by these with the unexpected and the
  late ones and the one that still owes an outcome (`NoneMissing`). A row is what the workers add up
  to, so it is bounded in the same way; a worker that raised owes the second bound and gives no row.
- `Lockout`: `AuthInv` adds to `FailuresBounded` that the failures kept are counted guesses and that
  a waiting thread's clock is not in the future; the number of failures grows only when it is below
  the limit. For `GuessesBounded`, `WindowInv` says that a counted guess is dropped from the list only
  when it is a window old, and that a waiting thread read its clock no more than `MaxDelay` ago: so
  whoever adds a guess still sees all that share a window with it, and the lockout bounds those; for
  the same reason a credential that is still to be seen is not counted again (`JudgeApart`). For
  `Restored`, the failures that lock out are a subset of the counted guesses in the
  window.
- `LogLimit`: every line is at most as late as the stamp in `_log_last` (`LastIsLatest`), and a new
  line comes at least `Every` after that stamp, whatever clock its thread has read.
- `MonitorStart`: `SaltInv` says what the place of the process tells of the file: before the salt is
  read nothing is hashed with another one, and a process past the reading holds the salt of the file.
  With two processes this is not inductive, and false (see below).
- `Handlers`: `AnswerInv` says of each thread that it has answered exactly if it is over and its
  client stayed (`OneAnswer`), and that a code of 200 remembers whether something raised
  (`Remembered`); one lemma for the change of one thread, then one step per action. `LockComesBack` is
  about the calls that are left: `BracketInv` says that every `lock` in `todo` has its `unlock` behind
  it with nothing but queries in between, and that the thread that holds the lock is inside such a
  bracket. The lists of calls are put together from bracketed parts (`BracketsJoin`), and one that
  raises leaves by the `unlock`.
- `TunnelBoot`: `TunnelInv` says of each line of the script what the commands before it have done to
  the policies and rules (`DoneBefore`), and that the tunnel is up at the last line only.

- `UploadRequests`: past the check the alarm is off, the body was accepted and the command is `Argv`
  of it (`UploadInv`); that `Argv` of an accepted body is what was asked for is a fact about each
  field and its default (`ArgvKeeps`): label, folder, profile and every number that was sent are
  those of the body.
- `Tripwire`: `TripInv` relates what `consume` remembers to `owed`: the lines in the pipe are in order
  and come after all that is owed (`PipeInv`), `pending` is the number of what is owed and `first`
  the least of it (`SummaryInv`), what was reported is neither owed nor on its way (`OnceInv`). For
  the deadline, `TimeInv` adds up the age of what is owed and the time left: of the quiet period, then
  of the tick that is under way or already in the pipe, then of the delivery.

*Only model-checked:* the liveness properties (`ExpiredIsRevoked`, `PortalEmpties`, `VisitsCounted`,
`FollowsAgain`, `TableCatchesUp`, `ButtonReturns`, `ServesAgain`, `RelayDeathFailsClosed`,
`SignalEndsContainer`), as liveness under fairness is beyond the prover. The properties of the
last four runs are false.

## What the models disagree with

Four runs find that the code does not do what a comment, a message or a document says.

1. `ShareMessage`: a removal succeeds, the reload after it fails, the command dies. No later sweep
   finds anything stale, none reloads, and each says "Portal fully closed (no public attack
   surface)" while Caddy still serves the route (`immich-share:1650`).
2. `ShareLock`: the monitor kills a CLI, the lock is free, and its remote command takes effect while
   the next one holds the lock that "prevents concurrent … mutations" (`photo-share-monitor.py:804`).
3. `ShareRestore`: "previous snippet restored" is said without looking at the result of the command
   that should restore it (`immich-share:524`).
4. `ContainmentTunnel`: the guards stand in for the rules of the two bridges, but not for the drop
   of everything else towards `wg0`, which is missing during every `apply` and after one that failed
   in between (`immich-share-containment.sh:157`).

What the models show beside these, without a run of its own:

- `remove_owned_rules` deletes the rule at an index that an earlier command found; a rule that
  another user inserts in between makes it another rule (`immich-share-containment.sh:127`).
  `StaysContained` and `UndisturbedSparesOthers` therefore except a run that others disturb.
- Two runs of the containment script at one time (`Runs = {r1, r2}`) leave the bridges open in
  between: the first to finish removes the guards of both. systemd never runs a oneshot twice at a
  time.
- An `open` that loses the answer of `create_link`, gets a key that `check_key` refuses, or cannot
  read the registry when it records the share (a `SystemExit`, which its `except Exception` does not
  catch) reports a failure and leaves the link it has made alive, unknown to the registry
  (`immich-share:1398`–`1408`). It is never published (`FailedOpenStaysPrivate`,
  `OnlyRecordedPublished`), but no `close` or `sweep` ends it: only its expiry in Immich does. The model
  calls it `stranded`. When the DELETE that should undo a failed recording fails itself, the command
  dies with the error of the DELETE, which the model counts as a warning (`Unadd`).
- A visit that Caddy writes between a poll and a rotation of its log is in the old file, which no
  poll reads, and the watermark passes it (`vps/Caddyfile:160`, `photo-share-monitor.py:434`): it is
  never counted, though far fewer than 8000 entries were written. `Due` therefore speaks of what the
  tail of the current file shows.
- "ok" may be shown for a tunnel that has been silent for 300 seconds and `STALE_AFTER`
  (`photo-share-monitor.py:454`), and the entries behind a fresh stamp may be up to 20 seconds older
  than the stamp, as the clock is read after the ssh call (`photo-share-monitor.py:461`–`465`).
- Only visits to shares that Immich lists at the moment of the poll are counted; those since the
  last poll before a share ends are lost although the log has them (`photo-share-monitor.py:469`),
  so `VisitsCounted` speaks of shares that stay open.
- A lockout ends when the first of the counted guesses leaves the window, not the last as the
  comment at `photo-share-monitor.py:939` has it.
- "At most one notification per COALESCE_SECONDS" (`denied-tripwire.sh:9`) holds of one `consume`
  loop only: the flush at the end of the stream and the first line after a restart ask no clock.
- "Reported once, not turned into a restart loop" (`photo-share-monitor.py:1168`) holds of the
  process: its launch agent has KeepAlive, and starts a monitor with a bad configuration again and
  again. `ServesAgain` therefore asks for a configuration that loads in the end.
- Two monitors that both start for the first time may each use a salt of its own
  (`Monitors = {m1, m2}` violates `SaltKept`): the one that renames last wins the file, and the other
  has hashed addresses already. launchd starts one.
- A label with a lone surrogate, or a folder, is no `RequestError` but a traceback
  (`upload-admin-helper.py:83`), and so, with some versions of Python, is a body that nests too deep
  (`upload-admin-helper.py:63`): nothing is opened in either case.
- A fetch that is rejected leaves the button *create* disabled until the page is loaded again
  (`photo-share-monitor.py:677`); `ButtonReturns` excepts it.
- In the benchmark a rejected download whose body breaks off is counted as unexpected and as an error
  (`benchmark-downloads.py:111`, `144`), and a body in chunks that is cut short raises what no clause
  catches and ends the program (`CollectRaised`). `RowAccounts` allows for the first.
- A notification that fails takes all the refusals it was to report with it
  (`denied-tripwire.sh:92`), so `ReportedInTime` and `ReportedOnce` speak of attempts.

## Not modelled

- Within the modelled parts: two controllers with a registry each (documented as unsupported);
  power loss between a rename and the sync of its directory; an ssh that never returns; a snippet
  truncated to something that still parses; backups and temporary files, which neither
  `list_snippets` nor Caddy looks at; a listing of snippets that fails because the directory is
  missing and therefore looks empty; the texts, passwords and TTLs of a share beyond whether they
  are refused; log entries from before the redaction of URIs; a clock that is set back, and clocks
  of the VPS and of the Mac that differ, by which handshakes and entries would look older or younger.
- In the newer models: entries of equal stamp or out of order, and a purge that is put off for as
  long as Immich is unreachable (`photo-share-monitor.py:528`); what the page looks like; the throughput and percentiles of the benchmark; the checks of the container's
  variables, which are one step that may fail; the message of a refusal.
- Switching the upload filter on and off by the forced command, which sets one variable of a container
  and probes it, like the share filter in `Portal`; the upload application behind the helper is not
  part of the repository.
- `doctor`, the security doctors and the preflight, which only read; the reading and checking of the
  CLI's configuration, which keeps no state.
- nginx filters, guards, Caddyfile, Compose files and Dockerfiles, which are configuration.
- The start-up of WireGuard on the admin host, which waits for pf, starts the interface and ends, with
  nothing running beside it, and `check-public-tree.py`, a scan for patterns.
- The tests and test tools of `scripts/`, which exercise the parts above.

## Plan

Done: `Portal`, `ShareCommands`, `ShareLifecycle`, `Containment`, `Telemetry`, `Lockout`,
`LogLimit`, `MonitorStart`, `Handlers`, `TunnelBoot`, `UploadRequests`, `Benchmark` and `Tripwire`
with proofs, `Console`.

What would add most, in this order:

1. `Telemetry` with a clock that may be set back and with entries of equal stamp.
2. The two halves of a report in spite of stragglers: `FailedOpenStaysPrivate` for shares whose own
   open left nothing behind.
3. Two shares and two clicks in `Console`.
4. The upload filter, switched on and off by the forced command.
