# Verification of the Elixir MCP collector

TLA+ models of the Go collector (`cmd/`, `internal/`, `scripts/`), TLC
configurations that check them on small instances, and TLAPS proofs of their
main safety properties for every instance.

## 1. The system

The collector is one process beside a supervisor. It asks the Elixir MCP hub
(the "door": `/config`, `/lease`, `/submit`) for work, fetches one Clash Royale
API path per lease, and submits the result. It updates itself to the release the
hub names and rolls itself back when that release cannot start.

| Component | State it keeps | Operations | Interacts with |
|---|---|---|---|
| Self-update (`v2.go` updateTo, applyUpdate, installBinary) | the binary, `.prev`, `.trial`, `.refused` beside it | stage, self-check, keep, mark, swap, undo | hub `/config`, GitHub release, supervisor |
| Trial and rollback (`fallback.go`) | `.trial` (from, to, crashes, live), `.refused`, `.failed`; the Trial in memory, its timer | guard, Proven, End, Exit, rollBack | main, every door answer, supervisor |
| Supervisors (`run-forever.sh`, the systemd unit, launchd, Task Scheduler with `run-collector.cmd`) | running, restarting, stopped | restart, stop on exit 2, put `.prev` back | the exit code of the process |
| Collector loop (`v2.go` Run, PollOnce, LoadConfig, pace) | last progress, config, fetch; tooOld; the config in use | refresh, check in, pace, fetch, submit, sleep, watchdog | hub, CR API, breaker |
| Breaker (`breaker.go`) | threshold, cooldown, streak, openedAt | Configure, Record403, RecordSuccess, IsOpen | the loop |
| Job (`PollOnce`, `submitWithRetry`, `crapi.Fetch`, `filter.Battlelog`) | the lease's mark, the result, attempts, back-off | pace, fetch, filter, send, wait, retry | hub, CR API, the lease's lifetime, other collectors |
| Release trust (`trust.go`, `releasekey.go`) | the keys and the floor built in | URL, floor, signature, checksum between three downloads | the release page, which changes under it |
| Release workflows (`release.yml`, `sign-release.yml`, `next-version.sh`) | tags and assets on GitHub, the signing secret | number, build, sign, publish; sign an old release file by file | pushes to main, the maintainer who rotates keys |
| Env file, doctor, report headers | none | sequential I/O | - |
| Installers | the installed binary, the task or unit | install over a running collector | self-update |

What is hard here: the process can be killed, and a file operation can fail,
between any two steps of a swap, a proof or a rollback; what decides the next
start is whatever files are then left; the supervisor reads meaning into exit
codes; the trial's timer runs beside the code it guards. In the loop five
clocks (watchdog, cooldown, pacing and hold, refresh, too-old re-read) start and
stop in the order the hub and the API happen to answer. In a job the lease runs
out while waits, calls and retries add up, an answer can be lost after the hub
took the result, and what the filter drops is only right if the hub really has
it. A release is checked in three downloads while a workflow may replace the
files one by one, and keys rotate through releases that every collector has to
pass through.

`PROJECT.json` lists every component with its status, and every hazard with its
line and the properties that watch it.

## 2. Modules

| Module | Models | Notes |
|---|---|---|
| `Updater` | self-update, trial, rollback, supervisor, operator | one process, five files, a kill or failure at every step |
| `UpdaterInv` | - | the inductive invariants of `Updater` |
| `UpdaterProofs` | - | types, the start path, the insurance of an unproven binary |
| `UpdaterHistoryProofs` | - | refusals and crash counts |
| `UpdaterTrialProofs` | - | what is proven stays, what is on trial is not left stopped, no crash of it is forgotten |
| `UpdatePromise` | what the self-update promises | abstract: a current binary, who vouches for it, its fallback |
| `UpdaterRefinement` | - | the mapping under which `Updater` implements `UpdatePromise` |
| `UpdaterRefinementProofs` | - | the proof of that |
| `MCUpdater` | - | releases for TLC |
| `Breaker` | `internal/breaker` | operators on a breaker record |
| `CollectorLoop` | Run, PollOnce, LoadConfig, pace, refusedAsTooOld | composes `Breaker`; timers instead of timestamps |
| `CollectorLoopProofs` | - | the theorems about the loop's fetches and its breaker |
| `CollectorLoopClockProofs` | - | those about check-ins, re-reads, the watchdog and outages |
| `MCCollectorLoop` | - | durations and configs for TLC |
| `Job` | one job: lease, pace, fetch, filter, submit with retries | with the hub that gives the filter its mark |
| `Delivery` | what a collection promises | abstract: a collector gives the hub whole battlelogs, or nothing |
| `JobRefinement` | - | the mapping under which `Job` implements `Delivery` |
| `JobInv`, `JobProofs` | - | its inductive invariants and theorems |
| `MCJob` | - | durations in ticks of 5 s, configs and Retry-After values |
| `Release` | applyUpdate's checks, both workflows, next-version.sh, the key rotation | any number of collectors |
| `ReleaseInv`, `ReleaseProofs` | - | its inductive invariants and theorems |
| `MCRelease` | - | versions for TLC |

How they fit: `CollectorLoop` decides when `/config` is read and when a job is
taken. A job, one step after another, is `Job`. What a `/config` answer leads to
is `Release` up to the verified download, and `Updater` from the first change of
a file on. `Updater` in turn implements `UpdatePromise`, and `Job` `Delivery`.

### Updater

The five file variables are the files beside the binary: a binary file is the
version whose bytes it holds, `trial` is the decoded `.trial` or `Garbled`. `pc`
is the line the process stands at; each action is the code between two changes
of a file, so that `Killed` and the failure actions can fall between any two.
`Quality` says what running a release does on this machine: a sound one reaches
the hub, a broken one passes its self-check and crashes, a flaky one does either
at any start, an unrunnable one fails its self-check.

Modelling decisions:

- Metadata reaches the disk in the order it was written (`writeJSON` and the
  swap fsync file and directory). On filesystems that cannot fsync the fault
  `torn` leaves a state file unreadable.
- `full` means that a new file cannot be written, `rename` that a rename is
  refused, `kill` a death at any step. `MaxFaults` bounds how many happen;
  crashes of a broken or flaky release are not faults and are not bounded.
- The ten retries of the Windows rename are one rename that may fail.
- The trust checks and the three downloads come before the first change of a
  file: one step that fails (`DownloadFails`) or goes on.
- The version `dev` (never updates, never on trial) and releases from before
  the self-check are left out, as is `trialState.Since`, which nothing reads.
- The operator may install any release that starts, at any moment Unix allows
  (also while the process installs), and may delete `.refused` after a
  rollback, as the log line invites. What an operator installs counts as
  vouched for (`chosen`): its failures are not the updater's to insure.
- `answered` (the hub's first answer), `settled` (Proven has got past the removal
  of `.prev`), `deaths` and `banned` are history variables; no action reads them
  except `OperatorForgives`, for "after a rollback".
- The answer and `done = true` are one step: between them only the timer and a
  kill can act, and both find what they would have found before the answer. Each
  removal that follows is a step of its own, so a process can die after the
  answer with its trial still open.
- The refinement hides the files. `Current` is what the next start runs, `.prev`
  included when `run-collector.cmd` puts it back; the abstract count of failures
  is the deaths that happened, so that the rollback after `Limit` failures is one
  the code's own count must have got right.
- Time is not modelled: the trial timer may fire at any moment of an armed start
  of a release that is not sound, and the 5 s back-off is left out.

### CollectorLoop

Each timestamp of the Client is the time since it, capped where no comparison
tells the difference (`Cap`), and negative when the code put it in the future
(`lastFetchStarted` after a 429). Each action takes some time: a call up to
`MaxCall`, a sleep what it asked for and up to `Slack` more. `/config` is decoded
into the config in use, so a field that an answer leaves out keeps its value
(`Merged`), also when the answer is then refused. A submit is one step however
many attempts it makes: `Job` has the attempts, and the data. A self-update from
a config answer is one of the ways to die (`Dies`): `Updater` has the details.
Three variables are history: `heldAt`, the pacing in force at the last 429;
`short`, by how much its Retry-After fell short of it; and `tripped`, that the
breaker has opened and no limit was raised while it was half-open since.

### Job

One player's battlelog, job after job. A battle is its number, and its
`battleTime` too, so that times rise strictly; some battles have no readable
one. The API shows the last `WindowSize` of them. Everything the hub does is
read off what the collector relies on: it names the newest readable battle it
holds as the mark, takes a result while the lease lasts, and taking the same one
twice changes nothing. Another collector works on the same player whenever this
one holds no valid lease.

- Time is a count. A call takes its whole timeout or one of `CallTimes`; `age` is
  the lease's age (not told apart once the lease is over), `spent` the submit's,
  `rest` what pace still has to wait. The breaker is `CollectorLoop`'s.
- `Wrapped` is the code's multiplication into nanoseconds: 64 bits there, `Half`
  here. Values of the config and Retry-After wrap the same way.
- Of a status the submit tells apart below 400, 429, other 4xx and 5xx. A 426
  counts as any refusal here (`CollectorLoop` has what follows).
- `Client.Sleep` ends at once when a signal has cancelled the context, and so
  does a fetch; calls to the hub do not. A stopping collector thus runs its job
  to the end without waiting (`Signalled`, `Sleep`).
- A fetched body is a battlelog, a JSON null, anything else, cut off, or too
  large; `as` in the result is what it will be read as (`ReadAs`).
- Gzip and base64 are left out: `Fits` is how many entries make up the limit.
  Counters of the activity log are left out.

### Release

A version is a series and a patch; the bytes of a binary, and their hash, are the
version built into them. A `SHA256SUMS` is the hash of the platform's binary and
the version its `VERSION` line names; a signature is a key and the file it
covers. Each download is a step, and each upload of `sign-release.yml` too (the
`--clobber` of `SHA256SUMS` is a delete and an add), so that any mixture of old
and new files can be read.

- Releases from before signing (`Legacy`) check only the hash, as they did.
- The floor and the keys are those of the running binary: rolling back by naming
  brings the older ones back.
- Checkout, check, sign and verify of `sign-release.yml` change nothing anybody
  sees and are one step, `StartSigning`; so are checkout, tests and build of
  `release.yml`. A job is handed the environment's secret when it starts (`key`),
  so a build started before the secret is replaced is still signed with the old.
- What a person may mix up is a binary, or the signed pair of `SHA256SUMS` and
  `.sig`, on a release page, or the hash or URL of a row, `MaxMistakes` times. An
  unsigned page is what `sign-release.yml` takes at its word (it can only compare
  the files with each other), so it is not mixed up.
- The rotation is SECURITY.md's procedure, with its one wait for the fleet.

## 3. What the runs check

| Run | Instance | Properties |
|---|---|---|
| `updater_unix` | Unix, a sound, a flaky and an unrunnable release, 4 kills or refused renames | `TypeOK`, `UnprovenIsInsured`, `OnlyCrashesCount`, `EveryCrashCounts`, `RolledBackStaysOut`, `TrialIsNeverStranded`, `ProvenIsNeverRolledBack`, `PromiseKept` |
| `updater_any_fault` | Windows, all four fault kinds, 4 faults | `StartPathLeadsSomewhere` |
| `updater_crash_loop` | a sound and a broken release, 2 faults, fairness | `CrashLoopEnds` |
| `updater_arrival` | a sound and a flaky release, 1 fault of any kind but `torn`, fairness | `NamedReleaseArrives` |
| `loop` | configs with missing and zero fields, limits above and below the defaults, a pacing that rises and falls, holds shorter and longer than a pacing, every answer | `TypeOK`, `PacingKept`, `HoldKept`, `FetchesArePaced`, `OneProbePerCooldown`, `WatchdogMeansUnreachable`, `OutageIsNoticed`, `NoTightLoop`, `RereadsAreSpaced`, `ConfigIsReadAgain` |
| `job` | 4 battles, a window of 3, a limit of 2, one unreadable; two configs out of range; every answer | `TypeOK`, `BudgetKept`, `ResendsAreWarranted`, `SendsExactlyTheNew`, `NothingShownIsMissed`, `FilterIsUnseen`, `BattlesArrive` |
| `release` | two workflows, two series, 2 releases beside the unsigned one, 2 keys, 1 mistake | `TypeOK`, `VersionsOnlyRise`, `InstallsTheNamedBuild` |
| `release_rotation` | one series, 3 releases beside the unsigned one, 2 keys, no mistake, fairness | `NoCollectorIsStranded`, `NamedIsInstalled` |

What they show, beyond each property's own comment: `PromiseKept` that all the
interleavings of files, processes and operators add up to the nine moves of
`UpdatePromise`. `OnlyCrashesCount` and `EveryCrashCounts` together that a trial's
count lies between the deaths it must not exceed and the deaths it must not
forget, a fault of the host aside. `NothingShownIsMissed` that the filter loses nothing, although
the mark is one battle and the hub's store a set: entries below the mark are
held because each submit carried a whole stretch of the window. `FilterIsUnseen`
that nobody can tell from the hub's store that there is a filter at all: it is
what whole battlelogs would have made it, no less and no more.
`NoCollectorIsStranded` that a rotation leaves a way by naming alone, also for a
collector that comes back after it, through the release that trusts both keys.
`NamedIsInstalled` that a release signed late ends up installed, in whatever
order its files appeared.

Each property has a mutant, a plausible bug in a mapped definition, under which
its run fails (`PROJECT.json`, `mutants`; the mutated operators stand before the
ones they mutate, named `<definition>_<what is wrong>`).

**Bounds.** `MaxTrialCrashes` is 3 as in the code. Four faults let one fault fall
in an install, one in its trial, one in the rollback and one in the start after
it; the three crashes a rollback needs come on top. Three releases are the old
one, the one on trial and another the hub can name. The loop's durations keep
the order of the code's (the head of `MCCollectorLoop`) but for one: `loop` has
a default cooldown below the watchdog's limit, like one that a hub names, and
`loop_default_cooldown` the code's, which is as long. `Cap` is above every
comparison. `MCJob` keeps the code's numbers in ticks of 5 s (a lease of
18, calls up to 4, a hold of 12): two attempts more than fill a lease that waited
out a hold. Four battles let the window move on past what the hub holds. In
`release_rotation` three signed releases are a whole rotation: one with the old
key, one signed with it that carries both, one signed with the new. A collector
on the first does not accept the third and needs the second as a bridge, to which
the floor may be raised (in `release` to any). In
`release` two make a lower and a higher number race; one collector is enough because collectors share nothing but what they read (the
theorems are for any number).

**Fairness.** Updater: `WF` on the process and its supervisor together (a process
that is scheduled goes on, a supervisor restarts); `SF` on the hub's answer, the
look at the update authority and a successful download, because these fail and
come back: an outage that never ends is excluded, one that recurs is not. That
the collector looks again and again is not an assumption about the code:
`ConfigIsReadAgain` checks it on the loop, which has only `WF` of the running
process. No fairness on faults, operators or the hub's choices. Job: `WF` on the
process's own steps; `SF` on a fetch and a submit that succeed and on a pace that
no signal cuts short, because each of them fails and comes back. Release: `SF` on
each step of a collector's update, which every hour tries again; nobody has to
release, sign or name anything, so `NamedIsInstalled` starts where the hub has
settled on a release that this collector accepts.

### Disagreements found

| Run | The code | The text |
|---|---|---|
| `updater_full_rollback` | On a full disk `.trial` becomes `.refused` before `.prev` is back; a kill between leaves the failing release in place with no trial, for ever | README.md:463-465 |
| `updater_panic` | A collector with no trial in progress (in the run, one an operator installed) that panics exits 2, and the supervisor stops | scripts/run-forever.sh:37 |
| `loop_default_cooldown` | The default cooldown is as long as the watchdog's limit, so an open breaker ends in a watchdog exit and a fresh breaker | internal/v2/v2_test.go:370-373, README.md:310-312 |
| `submit_lease` | A lease is taken before the hold of an earlier 429 is waited out, so submits go out after its 90 s | README.md:527-530, internal/v2/v2.go:245-246 |

Limits that the properties and theorems carry as assumptions or exceptions, each
of which TLC refutes without:

- A trial start that cannot record itself (`"full"` among the faults, guard in
  fallback.go:297-299) runs without crash mode and without a Trial: its panic
  exits 2 and stops the supervisor (`TrialIsNeverStranded`;
  docs/THREAT-MODEL.md:82 says otherwise), and the hub's answer proves nothing,
  so later crashes roll the release back (`ProvenIsNeverRolledBack`).
- A process that dies between the hub's answer and Proven's removal of `.prev`
  leaves its trial open: the death counts as a crash, and crashes before later
  answers can add up to a rollback of a binary the hub has answered, although the
  log then says "before any answer from the hub" (fallback.go:283-285).
  `ProvenIsNeverRolledBack` starts at that removal (`settled`); for `answered` in
  its place it is false.
- A Retry-After of the CR API shorter than the pacing shortens the pacing once
  (v2.go:740-746), by what it falls short (`short`; `PacingKept`).
- Half-open is the threshold of that moment less one (breaker.go:86): raised
  before the probe, the probe's 403 does not re-open (breaker.go:77-78 says
  otherwise). `OneProbePerCooldown` covers every other change of the limits
  (`tripped`).
- `HoldKept` lets a hold end early by what the pacing in force is lower than at
  its 429 (`heldAt`), and no more, because `lastFetchStarted` is kept relative to
  the pacing.
- A 200 whose body is the JSON null is no array, and yet with a mark it goes out
  as an empty one with observed 0 (filter.go:40-41; filter.go:27-30 says it is
  returned untouched). `SendsExactlyTheNew` names it as the one exception.
- `RereadsAreSpaced` covers an unbroken run of 426s: any other answer of
  `/lease`, a 429 or a 5xx included, ends the refusal.
- A Retry-After of the CR API has no upper bound, and a job waits it out without
  a look at the watchdog: `OutageIsNoticed` is for holds that fit under it.
- Error answers of `/config` carry no pacing in the runs (`ErrorBodies`): one
  that carried `pacing_ms: 0` would leave fetches unpaced until the next good one.
- `ResendsAreWarranted` excepts a Retry-After past 2^63 ns, which wraps, and a
  collector that has been told to stop, which retries at once.
- `BattlesArrive` excepts a player with more new battles than fit one submit:
  that job is an overflow each time, until another collector or a larger limit
  takes it.
- After a rotation, a release signed with the old key alone cannot be named
  again: "To a signed release: name it" (SECURITY.md:174) holds within a key's
  time only, and `sign-release.yml` signs nothing twice.

## 4. What is proved

TLAPS checks these for every value of the constants that the named assumptions
of the modules allow.

| Theorem | Property | Further assumes |
|---|---|---|
| `TypeCorrect` | `TypeOK` of `Updater` | - |
| `StartPathSafe` | `StartPathLeadsSomewhere` | - (every kind of fault, both platforms) |
| `UnprovenAlwaysInsured` | `UnprovenIsInsured` | state files can be written and are not torn |
| `RolledBackAlwaysOut` | `RolledBackStaysOut` | state files are not torn (the disk may be full) |
| `OnlyCrashesAlwaysCount` | `OnlyCrashesCount` | state files can be written (they may be torn) |
| `ProvenStaysInPlace` | `ProvenIsNeverRolledBack` | state files can be written (they may be torn) |
| `NoTrialIsStranded` | `TrialIsNeverStranded` | state files can be written and are not torn; Unix, or a supervisor that does not stop on 2 |
| `CrashesAlwaysCounted` | `EveryCrashCounts` | state files can be written and are not torn |
| `PromiseAlwaysKept` | `PromiseKept`, the refinement | state files can be written and are not torn |
| `LoopTypeCorrect` | `TypeOK` of `CollectorLoop` | - |
| `PacingAlwaysKept` | `PacingKept` | - |
| `FetchesAlwaysPaced` | `FetchesArePaced` | `ErrorsKeepPacing`: no pacing <= 0 in an error answer of `/config` |
| `HoldAlwaysKept` | `HoldKept` | the same |
| `OneProbeAlways` | `OneProbePerCooldown` | - |
| `NeverATightLoop`, `RereadsAlwaysSpaced` | `NoTightLoop`, `RereadsAreSpaced` | - |
| `WatchdogAlwaysMeansUnreachable` | `WatchdogMeansUnreachable`, but for the end of a long cooldown | `RestsFit`: the watchdog is longer than every rest |
| `OutagesAlwaysNoticed` | `OutageIsNoticed` | `OutagesFit`: the watchdog is longer than every rest, and a job with its holds takes at most two calls more than it |
| `TypeCorrect`, `SubmitsEndInTime`, `ResendsWarranted`, `SubmitsSendTheNew`, `NothingIsMissed` | `TypeOK`, `BudgetKept`, `ResendsAreWarranted`, `SendsExactlyTheNew`, `NothingShownIsMissed` of `Job` | - |
| `FilterIsNeverSeen` | `FilterIsUnseen`, the refinement | - |
| `ReleaseTypeCorrect`, `OnlyTheNamedBuild`, `NumbersOnlyRise`, `NobodyInstallsByHand` | `TypeOK`, `InstallsTheNamedBuild`, `VersionsOnlyRise`, `NoCollectorIsStranded` of `Release` | - |

The further assumptions are not for the prover's convenience: without them the
property is false (the limits above, `updater_full_rollback` for
`UnprovenIsInsured` on a full disk), or, for `RestsFit` and `OutagesFit`, may be
false for durations just past them. The instances of both loop runs satisfy
`RestsFit`, that of `loop` satisfies `OutagesFit` too, and so do the code's
durations `RestsFit` for every `next_check_in_s` below 300.
`WatchdogAlwaysMeansUnreachable` has one exception, a state: an open breaker has
just been waited out, and its cooldown does not fit under the watchdog after
every rest (`LongCooldownIsOver`). The default cooldown does not, which is the
finding of `loop_default_cooldown`; the theorem says that there is no other way
to a watchdog exit with an answering hub, for the code's constants too. The
theorems about pacing, holds and probes assume nothing of what the hub names:
what it can break is in the properties, through their history variables.

No property is inductive as it stands. `UpdaterInv`, `JobInv`,
`ReleaseInv` and the proof modules of the loop hold the strengthenings; each proof shows that `Init` satisfies it, that
every action keeps it (one step per action) and that it implies the property.

- `TypeInv`: a recorded crash count is below the limit (else the next start
  could count past it), and the locals each line reads are set.
- `PathInv`: per line, which file it relies on. The line that undoes a swap
  relies on `.prev`, the one that keeps `.prev` on a start path that is there.
- `InsuranceInv`: the file under a running image is that image or one that is
  vouched for (an operator may replace it at any moment), `.prev` is always
  vouched for, only a process whose bytes are vouched for gives `.trial` up, and
  the `.trial` in force is about this image.
- `RefusalInv`: after a rollback `.refused` names it and `.prev` is gone, so
  that no second rollback can overwrite the refusal before the hub has named
  something else.
- `ProvenInv`: where a process can still roll back, `.trial` is about its image;
  a `.trial` that outlives Proven's removal of `.prev` (`settled`) has none to go
  back to, or is about a binary that is not on the start path yet.
- `StrandedInv`: only a process that ends on its own terms ends with the code
  the supervisor stops on. `SwapInv`: no failure counts against a swap under way,
  and the start path is empty between Windows' two renames; the refinement needs
  both.
- `CountInv`: a `.trial` still marked live by a process that is gone stands for
  one death more than it has counted.
- `ForgetInv`: while a trial runs, its file is the state in memory; and as long as
  a release nobody vouched for is on the path (or parked, where a failed rename
  would bring it back), its deaths are at most what the file counts, plus a live
  mark that no running process owns, plus the faults so far.
- `PacingInv`, `HoldInv`: `lastFetchStarted` is before the last fetch by `short`
  at most; with the pacing of the last 429 (`heldAt`) added it is never before the
  end of its hold.
- `PacedInv`: a process past its first `/config` has a pacing.
- `ProbeInv`: an open breaker is as old as the last 403; while `tripped`, one
  that has closed again is one 403 from opening and its cooldown is over.
- `SpacedInv`: who comes to the top of the loop without a job has rested since
  its last check-in. `WatchInv`: an open breaker is older than the answer that
  the watchdog counts from, so that one cooldown is all it can add to a rest.
- `HeardInv`: the watchdog's clock never runs behind the last answer, and how much
  each line may have added to it since the watchdog looked.
- `BudgetInv`: what each line of `submitWithRetry` may have used up before its
  attempt; `AnswerInv`: what a sleep knows of the answer it follows.
- `BattleInv`: what the hub holds has no gap below a readable battle within the
  window, so that a battle at or before the mark is held whenever it is shown.
  `ResultInv`: a result that is no success has no body, and one that is has
  exactly what the filter kept.
- `TrustInv`: wherever a signature lies, it covers a `SHA256SUMS` whose hash and
  version belong together, and what a collector has checked stays true while it
  reads on. `RiseInv`: at most one workflow is past its start.
- `RotationInv`: a build trusts one key or two consecutive ones, later releases
  trust newer keys and were signed no earlier, and (`BridgeInv`, what the one wait
  for the fleet buys) whoever trusts a key that signs no more trusts the next one
  too, or accepts a release that was signed with it and carries the next. This
  gives `NobodyIsStranded`: of all the releases a collector can be taken to by
  naming, take one that trusts the newest key up to the one that signed the
  newest release. If it is that very key, the newest release can be named; if it
  is older, a bridge leads to a newer key, and it was not the newest
  (`NewestUpTo`: a set of keys that is bounded has a newest one, from the
  library's facts about well-founded orders).

The loop's proofs first reduce every action to what the fetch timers and the
breaker see of it: `Quiet` (time passes), `Fetching` (a fetch) or a fresh start.

Only model-checked: liveness (`CrashLoopEnds`, `NamedReleaseArrives`,
`ConfigIsReadAgain`, `BattlesArrive`, `NamedIsInstalled`), which needs `ENABLED`
and is beyond the prover. Every other property of the passing runs is a theorem. No
operator here is declared RECURSIVE.

The refinement of `UpdatePromise` is proved step by step: most lines of `Updater`
change only what the mapping hides (`Unmoved`, `UnmovedFiles`), a death counts a failure
(`Death`), and each line that moves the current binary, its vouchers or its
fallback is one of the nine moves (`Promise<Group>`, one lemma per group of
actions). That of `Delivery` rests on two facts: to take what a collector's filter
kept is to take its whole battlelog (`TakesTheWhole`), and the same for another
collector with a mark of its own (`OtherTakesTheWhole`).

## 5. Not modelled, and the plan

Next:

1. The supervisor's own start limit (systemd's five starts in ten seconds against
   the 5 s back-off of fallback.go:286), which needs time in `Updater`.
2. The compression and its cost in time, and the counters of the activity log.

Left to tests: env file parsing, doctor, report headers, redirects and body
limits, log rotation, ACLs and service registration, the validation workflow.
They are sequential, keep no state across a failure, or are pure I/O.
