------------------------------ MODULE Updater ------------------------------
(***************************************************************************)
(* The self-update of the collector and the way back from a bad release:   *)
(* updateTo / applyUpdate / installBinary (internal/v2/v2.go), the trial,  *)
(* its proof and the rollback (internal/v2/fallback.go), and what starts   *)
(* the binary again (scripts/run-forever.sh, elixir-collector.service,     *)
(* launchd, run-collector.cmd).                                            *)
(*                                                                         *)
(* The state is the five files beside the binary, one process (which line  *)
(* of which function it stands at), what the hub names, and the history    *)
(* variables the properties need. Each action is the stretch of code       *)
(* between two changes of a file, so that the process can die, and a file  *)
(* operation can fail, at every point the code passes through.             *)
(***************************************************************************)
EXTENDS Naturals

CONSTANTS
  Releases,         \* versions the hub can name and an operator can install
  Quality,          \* what running each of them does here, see Qualities
  Windows,          \* runtime.GOOS == "windows"
  StopsOn2,         \* the supervisor stops on exit code 2
  MaxTrialCrashes,  \* maxTrialCrashes, 3 in the code
  Faults,           \* the kinds of fault the environment may inject
  MaxFaults,        \* bound: how many of them in one behaviour
  None,             \* no such file, no version
  Garbled           \* a state file that does not parse

(***************************************************************************)
(* A sound release reaches the hub or exits deliberately; a broken one     *)
(* passes its self-check and then panics or wedges before any answer; a    *)
(* flaky one may do either, at any start; an unrunnable one fails its      *)
(* self-check.                                                             *)
(***************************************************************************)
Qualities == {"sound", "flaky", "broken", "unrunnable"}

(***************************************************************************)
(* kill: power cut, OOM or signal 9. full: a new file cannot be written.   *)
(* rename: a rename is refused. torn: a power cut on a filesystem that     *)
(* cannot fsync leaves a state file unreadable.                            *)
(***************************************************************************)
FaultKinds == {"kill", "full", "rename", "torn"}

\* What a .trial file holds (trialState; since is left out).
Trials == [from : Releases, to : Releases,
           crashes : 0 .. MaxTrialCrashes, live : BOOLEAN]

ASSUME ReleasesAssumption == Quality \in [Releases -> Qualities]
ASSUME HostAssumption == Windows \in BOOLEAN /\ StopsOn2 \in BOOLEAN
ASSUME LimitAssumption ==
  /\ MaxTrialCrashes \in Nat \ {0}
  /\ MaxFaults \in Nat
  /\ Faults \subseteq FaultKinds
ASSUME FileAssumption ==
  /\ None \notin Releases \cup Trials
  /\ Garbled \notin Releases \cup Trials
  /\ None # Garbled

VARIABLES
  \* The files. A binary file is the version whose bytes it holds.
  bin,      \* self, the path the supervisor starts
  prev,     \* self.prev
  parked,   \* self.failed, Windows only
  trial,    \* self.trial: a Trials record, None or Garbled
  refused,  \* self.refused: the version it names, None or Garbled
  \* The process.
  pc,       \* where it stands, "down" (to be restarted) or "stopped"
  ver,      \* main.version of the running image
  st,       \* trialState in memory: guard's st, then Trial.state
  armed,    \* a Trial is active: t # nil and not t.done
  fired,    \* the trial timer has read done = false and will exit(1)
  target,   \* the version being installed
  \* The world.
  named,    \* what the hub's update authority names, None for ""
  budget,   \* faults left
  cause,    \* why the last process ended
  \* History.
  answered, \* versions the hub has answered since they were put in place
  settled,  \* those for which Proven has also got past the removal of .prev
  chosen,   \* versions an operator put in place by hand
  deaths,   \* deaths no process chose since the trial was opened (saturated)
  banned    \* the version rolled back and not yet superseded by the hub

disk == <<bin, prev, parked, trial, refused>>
proc == <<pc, ver, st, armed, fired, target>>
hist == <<answered, settled, chosen, deaths, banned>>
vars == <<disk, proc, named, budget, cause, hist>>

-----------------------------------------------------------------------------
\* Helpers

IsTrial(t) == t \notin {None, Garbled}

Alive == pc \notin {"down", "stopped"}

Vouched == answered \cup chosen

\* One environment fault of kind k happens in this step.
Fault(k) == k \in Faults /\ budget > 0 /\ budget' = budget - 1

\* The ways a process can end, and those that exit with code 2.
Causes == {"none", "clean", "config", "update", "rollback",
           "killed", "wedged", "abort", "panic"}
ExitsWith2(c) == c \in {"config", "panic"}

\* The process is gone; the supervisor restarts it or stops.
Die(c) ==
  /\ pc' = IF ExitsWith2(c) /\ StopsOn2 THEN "stopped" ELSE "down"
  /\ cause' = c
  /\ ver' = None /\ st' = None /\ target' = None
  /\ armed' = FALSE /\ fired' = FALSE

\* A death the process did not choose.
DieUnchosen(c) ==
  /\ Die(c)
  /\ deaths' = IF deaths < MaxTrialCrashes THEN deaths + 1 ELSE deaths
  /\ UNCHANGED <<answered, settled, chosen, banned>>

GoTo(step) == pc' = step /\ UNCHANGED <<ver, st, armed, fired, target>>

Init ==
  /\ bin \in {v \in Releases : Quality[v] = "sound"}
  /\ prev = None /\ parked = None /\ trial = None /\ refused = None
  /\ pc = "down" /\ ver = None /\ st = None /\ target = None
  /\ armed = FALSE /\ fired = FALSE
  /\ named \in Releases \cup {None} /\ budget = MaxFaults /\ cause = "none"
  /\ answered = {bin} /\ settled = {bin} /\ chosen = {}
  /\ deaths = 0 /\ banned = None

-----------------------------------------------------------------------------
\* Supervisor and operator

\* run-collector.cmd: put .prev back when the start path is empty.
WrapperRestores ==
  /\ Windows /\ pc = "down" /\ bin = None /\ prev # None
  /\ bin' = prev /\ prev' = None
  /\ UNCHANGED <<parked, trial, refused, proc, named, budget, cause, hist>>

SupervisorStarts ==
  /\ pc = "down" /\ bin # None
  /\ pc' = "guard" /\ ver' = bin
  /\ UNCHANGED <<disk, st, armed, fired, target, named, budget, cause, hist>>

OperatorStarts ==
  /\ pc = "stopped"
  /\ GoTo("down")
  /\ UNCHANGED <<disk, named, budget, cause, hist>>

\* install.sh moves a verified release over the binary, running or not;
\* install.ps1 cannot move it over a running .exe.
OperatorInstalls(v) ==
  /\ Windows => ~Alive
  /\ Quality[v] # "unrunnable"
  /\ bin' = v /\ chosen' = chosen \cup {v}
  /\ answered' = answered \ {v} /\ settled' = settled \ {v}
  /\ UNCHANGED <<prev, parked, trial, refused, proc, named, budget, cause,
                 deaths, banned>>

\* "Deleting collector.refused retries that version": the log line that says
\* so is written once the rollback is done.
OperatorForgives ==
  /\ refused # None /\ banned # None
  /\ refused' = None /\ banned' = None
  /\ UNCHANGED <<bin, prev, parked, trial, proc, named, budget, cause,
                 answered, settled, chosen, deaths>>

HubNames(v) ==
  /\ named' = v
  /\ UNCHANGED <<disk, proc, budget, cause, hist>>

-----------------------------------------------------------------------------
\* Guard: the start of main

\* Unreadable, or left by a swap that never happened or was overwritten.
Stale_ComparesFrom(t) == t = Garbled \/ (IsTrial(t) /\ t.from # ver)
Stale(t) == t = Garbled \/ (IsTrial(t) /\ t.to # ver)

\* A start that finds live still set follows a crash.
CountStart_Never(t) == t
CountStart(t) == [t EXCEPT !.crashes = IF t.live THEN @ + 1 ELSE @]

GivesUp_OneLate(t) == t.crashes > MaxTrialCrashes
GivesUp(t) == t.crashes >= MaxTrialCrashes

GuardFindsNoTrial ==
  /\ pc = "guard" /\ trial = None
  /\ parked' = None /\ GoTo("boot")
  /\ UNCHANGED <<bin, prev, trial, refused, named, budget, cause, hist>>

GuardDiscardsTrial ==
  /\ pc = "guard" /\ trial # None /\ Stale(trial)
  /\ parked' = None /\ GoTo("drop_prev")
  /\ UNCHANGED <<bin, prev, trial, refused, named, budget, cause, hist>>

GuardResumesTrial ==
  /\ pc = "guard" /\ IsTrial(trial) /\ ~Stale(trial)
  /\ parked' = None
  /\ st' = CountStart(trial)
  /\ pc' = IF GivesUp(st') THEN "refuse" ELSE "arm"
  /\ UNCHANGED <<bin, prev, trial, refused, ver, armed, fired, target,
                 named, budget, cause, hist>>

Arm ==
  /\ pc = "arm"
  /\ st' = [st EXCEPT !.live = TRUE] /\ trial' = st'
  /\ armed' = TRUE /\ pc' = "boot"
  /\ UNCHANGED <<bin, prev, parked, refused, ver, fired, target,
                 named, budget, cause, hist>>

\* "this start cannot be rolled back": guard returns no Trial.
ArmFails ==
  /\ pc = "arm" /\ Fault("full")
  /\ st' = [st EXCEPT !.live = TRUE] /\ pc' = "boot"
  /\ UNCHANGED <<disk, ver, armed, fired, target, named, cause, hist>>

-----------------------------------------------------------------------------
\* dropTrial, shared by guard, Proven and the failed install

\* The line after the removal of .prev, by the caller.
AfterPrev ==
  CASE pc = "drop_prev" -> "drop_trial"
    [] pc = "proven_prev" -> "proven_trial"
    [] pc = "abort_prev" -> "abort_trial"

\* os.Remove(self + prevSuffix)
PrevDropped_ButNotByProven == IF pc = "proven_prev" THEN prev ELSE None
PrevDropped == None

DropPrev ==
  /\ pc \in {"drop_prev", "proven_prev", "abort_prev"}
  /\ prev' = PrevDropped
  /\ settled' = IF pc = "proven_prev" THEN settled \cup {ver} ELSE settled
  /\ GoTo(AfterPrev)
  /\ UNCHANGED <<bin, parked, trial, refused, named, budget, cause,
                 answered, chosen, deaths, banned>>

DropTrialFile ==
  /\ pc \in {"drop_trial", "proven_trial", "abort_trial"}
  /\ trial' = None
  /\ pc' = IF pc = "drop_trial" THEN "boot" ELSE "collect"
  /\ target' = None
  /\ UNCHANGED <<bin, prev, parked, refused, ver, st, armed, fired,
                 named, budget, cause, hist>>

-----------------------------------------------------------------------------
\* From the token check to the first answer of the hub

Reaches(v) == Quality[v] \in {"sound", "flaky"}

\* Any answer, any status: Trial.Proven runs inside the call. Between the
\* answer and done = TRUE only the timer and a kill can step, and each finds
\* what it would have found before the answer, so the two are one step; the
\* removals that follow are DropPrev and DropTrialFile. A nil Trial drops
\* nothing.
HubAnswers ==
  /\ pc = "boot" /\ Reaches(ver)
  /\ answered' = answered \cup {ver}
  /\ pc' = IF armed THEN "proven_prev" ELSE "collect"
  /\ settled' = IF armed THEN settled ELSE settled \cup {ver}
  /\ armed' = FALSE /\ st' = None
  /\ UNCHANGED <<disk, ver, fired, target, named, budget, cause,
                 chosen, deaths, banned>>

\* Trial.Exit: a missing token exits 2; an outage and a signal do not.
DeliberateExit(c) ==
  /\ pc = "boot" /\ Reaches(ver) /\ c \in {"clean", "config"}
  /\ IF armed
     THEN /\ pc' = "end" /\ cause' = c /\ armed' = FALSE
          /\ UNCHANGED <<ver, st, fired, target>>
     ELSE Die(c)
  /\ UNCHANGED <<disk, named, budget, hist>>

Ended_StillLive(t) == t
Ended(t) == [t EXCEPT !.live = FALSE]

\* Trial.End writes its own copy of the state.
EndRecords ==
  /\ pc = "end"
  /\ trial' = Ended(st)
  /\ Die(cause)
  /\ UNCHANGED <<bin, prev, parked, refused, named, budget, hist>>

EndFails ==
  /\ pc = "end" /\ Fault("full")
  /\ Die(cause)
  /\ UNCHANGED <<disk, named, hist>>

\* The five-minute timer reads t.done under the lock, and exits after it.
TimerReads ==
  /\ pc = "boot" /\ armed /\ ~fired /\ Quality[ver] # "sound"
  /\ fired' = TRUE
  /\ UNCHANGED <<disk, pc, ver, st, armed, target, named, budget, cause, hist>>

TimerExits ==
  /\ fired
  /\ DieUnchosen("wedged")
  /\ UNCHANGED <<disk, named, budget>>

\* crashNotExit: a trial's panic dies by SIGABRT on Unix, else Go exits 2.
PanicCause_AlwaysExit2 == "panic"
PanicCause == IF armed /\ ~Windows THEN "abort" ELSE "panic"

Panics ==
  /\ \/ pc = "boot" /\ Quality[ver] \in {"flaky", "broken"}
     \/ pc = "collect" /\ Quality[ver] = "flaky"
  /\ DieUnchosen(PanicCause)
  /\ UNCHANGED <<disk, named, budget>>

Killed ==
  /\ Alive /\ Fault("kill")
  /\ DieUnchosen("killed")
  /\ UNCHANGED <<disk, named>>

\* The cut lands in writeJSON on a filesystem that lost the file's data.
KilledMidWrite ==
  /\ Fault("torn")
  /\ \/ pc \in {"arm", "end", "mark"} /\ trial' = Garbled /\ refused' = refused
     \/ pc = "refuse" /\ prev # None /\ refused' = Garbled /\ trial' = trial
  /\ DieUnchosen("killed")
  /\ UNCHANGED <<bin, prev, parked, named>>

-----------------------------------------------------------------------------
\* Collecting, and the hourly word of the update authority

\* Watchdog, signal, or a first /config that was refused.
CollectorExits ==
  /\ pc = "collect"
  /\ Die("clean")
  /\ UNCHANGED <<disk, named, budget, hist>>

\* readRefusal: an unreadable file refuses nothing.
Refusal == IF refused = Garbled THEN None ELSE refused

\* An entry that names no version, or the version refused here.
Ignored_ForgetsRefusal == named = None
Ignored_AnyRefusal == named = None \/ Refusal # None
Ignored == named = None \/ named = Refusal

UpdateTo ==
  /\ pc = "collect" /\ ~Ignored
  /\ refused' = IF Refusal # None THEN None ELSE refused
  /\ banned' = IF named \notin {banned, None} THEN None ELSE banned
  /\ IF named = ver
     THEN pc' = pc /\ target' = target
     ELSE pc' = "stage" /\ target' = named
  /\ UNCHANGED <<bin, prev, parked, trial, ver, st, armed, fired,
                 named, budget, cause, answered, settled, chosen, deaths>>

\* The trust checks and the downloads precede every change of a file.
DownloadFails ==
  /\ pc = "stage"
  /\ pc' = "collect" /\ target' = None
  /\ UNCHANGED <<disk, ver, st, armed, fired, named, budget, cause, hist>>

\* No binary to replace, no room for the staged file, or a failed selfCheck.
StageFails ==
  /\ pc = "stage"
  /\ \/ bin = None /\ UNCHANGED budget
     \/ Fault("full")
     \/ Quality[target] = "unrunnable" /\ UNCHANGED budget
  /\ GoTo("abort_trial")
  /\ UNCHANGED <<disk, named, cause, hist>>

StagePasses ==
  /\ pc = "stage" /\ bin # None /\ Quality[target] # "unrunnable"
  /\ GoTo("keep")
  /\ UNCHANGED <<disk, named, budget, cause, hist>>

\* keepPrevious and the Windows branch both begin by removing .prev.
RemoveOldPrev ==
  /\ pc = "keep"
  /\ prev' = None
  /\ GoTo(IF Windows THEN "mark" ELSE "link")
  /\ UNCHANGED <<bin, parked, trial, refused, named, budget, cause, hist>>

LinkPrev ==
  /\ pc = "link"
  /\ prev' = bin
  /\ GoTo("mark")
  /\ UNCHANGED <<bin, parked, trial, refused, named, budget, cause, hist>>

\* No hard links here, and no room for a copy.
LinkFails ==
  /\ pc = "link" /\ Fault("full")
  /\ GoTo("abort_trial")
  /\ UNCHANGED <<disk, named, cause, hist>>

\* beforeSwap: open the trial.
OpenTrial ==
  /\ pc = "mark"
  /\ trial' = [from |-> ver, to |-> target, crashes |-> 0, live |-> FALSE]
  /\ deaths' = 0
  /\ GoTo(IF Windows THEN "aside" ELSE "swap")
  /\ UNCHANGED <<bin, prev, parked, refused, named, budget, cause,
                 answered, settled, chosen, banned>>

OpenTrialFails ==
  /\ pc = "mark" /\ Fault("full")
  /\ GoTo(IF Windows THEN "abort_trial" ELSE "abort_prev")
  /\ UNCHANGED <<disk, named, cause, hist>>

\* Windows: the running .exe is renamed aside first.
MoveAside ==
  /\ pc = "aside"
  /\ prev' = bin /\ bin' = None
  /\ GoTo("swap")
  /\ UNCHANGED <<parked, trial, refused, named, budget, cause, hist>>

MoveAsideFails ==
  /\ pc = "aside" /\ Fault("rename")
  /\ GoTo("abort_trial")
  /\ UNCHANGED <<disk, named, cause, hist>>

\* The candidate takes the path, and the process exits for the supervisor.
\* The trial starts afresh for it: old answers are forgotten, and only bytes
\* that an operator had put here meanwhile stay vouched for.
Swap ==
  /\ pc = "swap"
  /\ bin' = target
  /\ answered' = answered \ {target} /\ settled' = settled \ {target}
  /\ chosen' = IF target \in {bin, prev} THEN chosen \cup {target}
                                         ELSE chosen \ {target}
  /\ Die("update")
  /\ UNCHANGED <<prev, parked, trial, refused, named, budget, deaths, banned>>

AfterSwapFails_DropsPrev == "abort_prev"
AfterSwapFails == IF Windows THEN "undo" ELSE "abort_prev"

SwapFails ==
  /\ pc = "swap" /\ Fault("rename")
  /\ GoTo(AfterSwapFails)
  /\ UNCHANGED <<disk, named, cause, hist>>

UndoSwap ==
  /\ pc = "undo"
  /\ bin' = prev /\ prev' = None
  /\ GoTo("abort_trial")
  /\ UNCHANGED <<parked, trial, refused, named, budget, cause, hist>>

UndoFails ==
  /\ pc = "undo" /\ Fault("rename")
  /\ GoTo("abort_trial")
  /\ UNCHANGED <<disk, named, cause, hist>>

-----------------------------------------------------------------------------
\* rollBack

NothingToRestore ==
  /\ pc = "refuse" /\ prev = None
  /\ trial' = None
  /\ Die("rollback")
  /\ UNCHANGED <<bin, prev, parked, refused, named, budget, hist>>

RefusedVersion_Other == st.from
RefusedVersion == st.to

\* readRefusal finds in a .trial renamed to .refused the version in its "to".
RenamedRefusal(t) == t.to

\* The refusal is on disk before the old binary can run and ask the hub.
Refuse ==
  /\ pc = "refuse" /\ prev # None
  /\ refused' = RefusedVersion
  /\ GoTo(IF Windows THEN "park" ELSE "restore")
  /\ UNCHANGED <<bin, prev, parked, trial, named, budget, cause, hist>>

\* A full disk cannot take a new file, so .trial itself becomes the refusal.
RefuseByRename ==
  /\ pc = "refuse" /\ prev # None /\ Fault("full")
  /\ IsTrial(trial)
  /\ refused' = RenamedRefusal(trial) /\ trial' = None
  /\ GoTo(IF Windows THEN "park" ELSE "restore")
  /\ UNCHANGED <<bin, prev, parked, named, cause, hist>>

RefuseFails ==
  /\ pc = "refuse" /\ prev # None /\ "rename" \in Faults /\ Fault("full")
  /\ Die("rollback")
  /\ UNCHANGED <<disk, named, hist>>

\* restorePrevious: Windows parks the running .exe first.
Park ==
  /\ pc = "park"
  /\ parked' = bin /\ bin' = None
  /\ GoTo("restore")
  /\ UNCHANGED <<prev, trial, refused, named, budget, cause, hist>>

ParkFails ==
  /\ pc = "park" /\ Fault("rename")
  /\ parked' = None
  /\ Die("rollback")
  /\ UNCHANGED <<bin, prev, trial, refused, named, hist>>

Restore ==
  /\ pc = "restore"
  /\ bin' = prev /\ prev' = None
  /\ banned' = ver
  /\ GoTo("rolled")
  /\ UNCHANGED <<parked, trial, refused, named, budget, cause,
                 answered, settled, chosen, deaths>>

\* Windows then tries to bring the parked .exe back, which may fail too.
RestoreFails ==
  /\ pc = "restore" /\ Fault("rename")
  /\ \/ ~Windows /\ UNCHANGED <<bin, parked>>
     \/ Windows /\ bin' = parked /\ parked' = None
     \/ Windows /\ UNCHANGED <<bin, parked>>
  /\ Die("rollback")
  /\ UNCHANGED <<prev, trial, refused, named, hist>>

CloseTrial ==
  /\ pc = "rolled"
  /\ trial' = None
  /\ Die("rollback")
  /\ UNCHANGED <<bin, prev, parked, refused, named, budget, hist>>

-----------------------------------------------------------------------------
\* The specification

Guard == GuardFindsNoTrial \/ GuardDiscardsTrial \/ GuardResumesTrial \/ Arm

ToFirstAnswer == \/ DropPrev \/ DropTrialFile \/ HubAnswers
                 \/ \E c \in {"clean", "config"} : DeliberateExit(c)
                 \/ EndRecords \/ TimerReads \/ TimerExits \/ Panics

Install == \/ UpdateTo \/ DownloadFails \/ StageFails \/ StagePasses
           \/ RemoveOldPrev \/ LinkPrev \/ OpenTrial \/ MoveAside \/ Swap
           \/ UndoSwap

RollBack == NothingToRestore \/ Refuse \/ Park \/ Restore \/ CloseTrial

Failures == \/ ArmFails \/ EndFails \/ LinkFails \/ OpenTrialFails
            \/ MoveAsideFails \/ SwapFails \/ UndoFails
            \/ RefuseByRename \/ RefuseFails \/ ParkFails \/ RestoreFails
            \/ Killed \/ KilledMidWrite

\* What runs on its own once started: the process and its supervisor.
System == \/ WrapperRestores \/ SupervisorStarts
          \/ Guard \/ ToFirstAnswer \/ Install \/ CollectorExits \/ RollBack

Operator == \/ OperatorStarts \/ OperatorForgives
            \/ \E v \in Releases : OperatorInstalls(v)

Next == \/ System \/ Failures \/ Operator
        \/ \E v \in Releases \cup {None} : HubNames(v)

Spec == Init /\ [][Next]_vars

(***************************************************************************)
(* The process and its supervisor keep going. The hub, the downloads and   *)
(* the collector's hourly look at /config are not out for ever: what is    *)
(* possible again and again happens.                                       *)
(***************************************************************************)
Fairness ==
  /\ WF_vars(System)
  /\ SF_vars(HubAnswers)
  /\ SF_vars(UpdateTo)
  /\ SF_vars(StagePasses)

LiveSpec == Spec /\ Fairness

-----------------------------------------------------------------------------
\* Properties

Steps == {"down", "stopped", "guard", "drop_prev", "drop_trial", "arm",
          "boot", "end", "proven_prev", "proven_trial", "collect", "stage",
          "keep", "link", "mark", "aside", "swap", "undo", "abort_prev", "abort_trial",
          "refuse", "park", "restore", "rolled"}

Installing == {"stage", "keep", "link", "mark", "aside", "swap", "undo"}
RollingBack == {"refuse", "park", "restore"}

\* Every variable has its type.
TypeOK ==
  /\ bin \in Releases \cup {None}
  /\ prev \in Releases \cup {None}
  /\ parked \in Releases \cup {None}
  /\ trial \in Trials \cup {None, Garbled}
  /\ refused \in Releases \cup {None, Garbled}
  /\ pc \in Steps
  /\ ver \in Releases \cup {None}
  /\ st \in Trials \cup {None}
  /\ armed \in BOOLEAN /\ fired \in BOOLEAN
  /\ target \in Releases \cup {None}
  /\ named \in Releases \cup {None}
  /\ budget \in 0 .. MaxFaults
  /\ cause \in Causes
  /\ answered \subseteq Releases /\ settled \subseteq Releases
  /\ chosen \subseteq Releases
  /\ deaths \in 0 .. MaxTrialCrashes
  /\ banned \in Releases \cup {None}

\* The path the supervisor starts always leads to a binary: on Unix it is
\* never empty, and on Windows a power cut between the two renames of a swap,
\* a rollback or an undo leaves .prev for run-collector.cmd to put back.
\* (installBinary, restorePrevious and install.ps1's wrapper, together.)
StartPathLeadsSomewhere == bin = None => Windows /\ prev # None

\* A binary nobody vouched for (the hub never answered it, no operator chose
\* it) is never the start path without its insurance: a readable .trial that
\* names it and, beside it, a previous binary that is vouched for. This is
\* what lets any start of it, after any crash, still be rolled back.
UnprovenIsInsured ==
  bin \notin Vouched \cup {None} =>
    IsTrial(trial) /\ trial.to = bin /\ prev \in Vouched

\* A hub outage, a missing token or a signal is never taken for a crash: the
\* crashes recorded, and the three a rollback needs, are all deaths that no
\* process chose and that happened since this trial was opened.
OnlyCrashesCount ==
  /\ IsTrial(trial) => trial.crashes <= deaths
  /\ pc \in RollingBack => deaths >= MaxTrialCrashes

\* And no crash of an unproven release is forgotten: once its process is gone,
\* each death is recorded or marked as live, but for those a fault of the host
\* put before the start could be recorded. Three crashes are always enough.
EveryCrashCounts ==
  ~Alive /\ bin \notin Vouched \cup {None} =>
    deaths <= trial.crashes + (IF trial.live THEN 1 ELSE 0)
                            + (MaxFaults - budget)

\* Once the hub has answered a binary and Proven has removed .prev, guard
\* never rolls it back, whatever kills follow, between the two removals or at
\* any later start. (A process that dies between the answer and that removal
\* leaves its trial open, and counts as a crash of it.)
ProvenIsNeverRolledBack ==
  [][pc = "restore" /\ pc' = "rolled" => ver \notin settled]_vars

\* A version rolled back here is not installed again until the hub has named
\* another or the operator deleted .refused, across every crash and restart:
\* no install / crash / rollback loop.
RolledBackStaysOut == pc \in Installing => target # banned

\* The supervisor never gives up on an unproven update: a panic in its trial
\* is restarted, into the rollback if need be, and not read as exit 2.
TrialIsNeverStranded ==
  pc = "stopped" /\ cause = "panic" => bin \in Vouched

\* A release that crashes before every answer is rolled back.
CrashLoopEnds ==
  \A v \in Releases :
    (bin = v /\ v \notin Vouched /\ Quality[v] = "broken") ~> (bin # v)

\* Once the hub keeps naming a sound release, the collector runs it, unless
\* it is refused here, the supervisor was told to stop, or an operator chose
\* a release that never reaches the hub.
NamedReleaseArrives ==
  \A v \in {r \in Releases : Quality[r] = "sound"} :
    <>[](named = v) =>
      []<>(\/ bin = v \/ Refusal = v \/ pc = "stopped"
           \/ bin \in chosen /\ Quality[bin] = "broken")

\* run-forever.sh:37: "Every other exit is restarted: crash, watchdog, or
\* self-update." Only a missing token stops the supervisor. (Only a trial enters
\* the crash mode, so a panic without one exits with the code that stops it.)
CrashIsRestarted == pc = "stopped" => cause = "config"

=============================================================================
