----------------------------- MODULE UpdaterInv -----------------------------
(***************************************************************************)
(* Inductive invariants of Updater. They say where the process stands when *)
(* its locals hold what, and tie the image in memory to the files: an      *)
(* operator may replace the file under a running process, so that the two  *)
(* agree is itself something to show.                                      *)
(***************************************************************************)
EXTENDS Updater

\* From main's first line to the hub's first answer, and out again.
Starting == {"guard", "drop_prev", "drop_trial", "arm", "boot", "end",
             "refuse", "park"}

\* Lines only a process the hub has answered can reach.
AfterAnswer == {"proven_prev", "proven_trial", "collect", "abort_prev",
                "abort_trial"} \cup Installing

-----------------------------------------------------------------------------
\* TypeInv makes TypeOK inductive, under every kind of fault.

\* A recorded count is below the limit: the start that reaches it rolls back.
CountsBelowLimit ==
  /\ IsTrial(trial) => trial.crashes < MaxTrialCrashes
  /\ armed \/ pc \in {"arm", "end"} => st.crashes < MaxTrialCrashes

\* The locals a line reads are there.
LocalsAreSet ==
  /\ Alive => ver \in Releases
  /\ armed => pc = "boot"
  /\ armed \/ pc \in {"arm", "end", "refuse", "park", "restore", "rolled"}
       => st \in Trials
  /\ pc \in Installing => target \in Releases

TypeInv == TypeOK /\ CountsBelowLimit /\ LocalsAreSet

-----------------------------------------------------------------------------
\* PathInv makes StartPathLeadsSomewhere inductive, under every kind of fault.

\* Lines that are about to remove .prev, or to need it, and what they rely on.
PathLines ==
  /\ pc \in Starting \cup {"proven_prev", "keep", "link", "mark", "aside"}
        => bin # None
  /\ pc \in {"link", "abort_prev"} => ~Windows
  /\ pc \in {"aside", "undo", "park"} => Windows
  /\ pc \in {"undo", "park", "restore"} => prev # None
  /\ pc = "swap" => prev # None
  /\ pc = "mark" /\ ~Windows => prev # None

PathInv == StartPathLeadsSomewhere /\ PathLines

-----------------------------------------------------------------------------
\* InsuranceInv makes UnprovenIsInsured inductive when state files can be
\* written and are not torn.

StateFilesHold == "full" \notin Faults /\ "torn" \notin Faults

\* The file under a running image is that image or one that is vouched for.
ImageMatchesFile == Alive => bin \in Vouched \cup {None, ver}

\* A kept binary was the start path of a process that the hub had answered.
PrevIsVouched == prev \in Vouched \cup {None}

\* Where .trial is given up, or its file replaced, nothing is insured by it.
NothingAtStake ==
  /\ pc \in AfterAnswer => ver \in Vouched
  /\ pc \in {"drop_prev", "drop_trial", "rolled"} => bin \in Vouched

\* Where .trial is in force it is about this image, in memory and on disk.
TrialIsOurs ==
  /\ armed \/ pc \in {"arm", "end"} => st.to = ver
  /\ pc \in {"refuse", "park", "restore"} => IsTrial(trial) /\ trial.to = ver
  /\ pc \in {"aside", "swap"} => IsTrial(trial) /\ trial.to = target
  /\ pc = "restore" /\ Windows => parked \in Vouched \cup {None, ver}

InsuranceInv ==
  /\ UnprovenIsInsured /\ ImageMatchesFile /\ PrevIsVouched
  /\ NothingAtStake /\ TrialIsOurs

-----------------------------------------------------------------------------
\* RefusalInv makes RolledBackStaysOut inductive when state files are not torn.

\* From the restore on, and until the hub names another release or the
\* operator forgives, .refused names what was rolled back; and with .prev gone
\* nothing can be rolled back over it.
RefusalIsKept ==
  /\ pc \in {"park", "restore"} => refused = ver /\ prev # None
  /\ banned # None => refused = banned /\ prev = None

\* What is being rolled back is the running version.
RollsBackItself ==
  pc = "refuse" => st.to = ver /\ (IsTrial(trial) => trial.to = ver)

RefusalInv ==
  /\ RefusalIsKept /\ RollsBackItself
  /\ pc \in Installing => banned = None

-----------------------------------------------------------------------------
\* CountInv makes OnlyCrashesCount inductive when state files can be written.

\* A trial marked live by a process that is gone has seen one death more than
\* it has counted.
LiveMeansDied ==
  IsTrial(trial) /\ trial.live =>
    trial.crashes < deaths \/ armed \/ pc \in {"end", "proven_prev", "proven_trial"}

CountInv ==
  /\ OnlyCrashesCount /\ LiveMeansDied
  /\ armed \/ pc \in {"arm", "end"} => st.crashes <= deaths

-----------------------------------------------------------------------------
\* ProvenInv makes ProvenIsNeverRolledBack follow when state files can be
\* written.

\* Where a process can still roll back, .trial is about this image; where it
\* has no Trial, or is past it, there is no .trial on disk either.
TrialMatchesLine ==
  /\ armed \/ pc \in {"arm", "end", "refuse", "park", "restore"}
       => IsTrial(trial) /\ trial.to = ver
  /\ armed \/ pc \in {"arm", "end"} => st.to = ver
  /\ pc = "boot" /\ ~armed => trial = None
  /\ pc \in {"collect", "stage", "keep", "link", "mark"} => trial = None
  /\ pc = "proven_trial" => prev = None

\* A .trial that outlives Proven's first removal has no .prev, or is about a
\* binary that has not taken the path yet.
SettledCannotGoBack ==
  IsTrial(trial) /\ trial.to \in settled /\ prev # None =>
    trial.to # bin /\ (pc \in Starting \cup {"restore"} => trial.to # ver)

\* Under a running image lies that image, or one that no process has settled
\* since it was put there; so a target, which is never the image, is never
\* what was settled in its place.
OnlyOwnProofs ==
  /\ Alive /\ pc # "rolled" /\ bin \in settled => bin = ver
  /\ pc = "undo" \/ (Windows /\ pc = "swap")
       => prev = ver \/ prev \notin settled
  /\ pc \in Installing => target # ver

ProvenInv == TrialMatchesLine /\ SettledCannotGoBack /\ OnlyOwnProofs

-----------------------------------------------------------------------------
\* StrandedInv makes TrialIsNeverStranded inductive on Unix, or where the
\* supervisor does not stop on 2, when state files hold.

StrandedInv ==
  /\ TrialIsNeverStranded
  /\ pc = "end" => cause \in {"clean", "config"}

-----------------------------------------------------------------------------
\* SwapInv is what the refinement needs on top of all of these.

SwapInv ==
  /\ pc \in {"aside", "swap"} => deaths = 0
  /\ Windows /\ pc \in {"swap", "undo", "restore"} => bin = None
  /\ target # None => pc \in Installing \cup {"abort_prev", "abort_trial"}

-----------------------------------------------------------------------------
\* ForgetInv makes EveryCrashCounts inductive when state files hold.

\* An unproven binary is on the path, or parked by a rollback that may bring it
\* back.
AtStake ==
  \/ bin \notin Vouched \cup {None}
  \/ Windows /\ pc = "restore" /\ parked \notin Vouched \cup {None}

\* A live mark on disk is a death, unless the process that set it still runs.
Owed == IF trial.live /\ ~armed /\ pc # "end" THEN 1 ELSE 0

\* While a trial runs its file is the state in memory; before that, the state in
\* memory is what the file will become. A trial opens with no death, and the
\* timer only fires in one.
StateMatchesFile ==
  /\ armed \/ pc = "end" => trial = st /\ st.live
  /\ pc = "arm" => IsTrial(trial) /\ st = CountStart(trial)
  /\ pc = "boot" => armed \/ trial = None
  /\ pc \in {"aside", "swap"} => deaths = 0
  /\ fired => pc \in {"boot", "end"} \cup AfterAnswer

Accounted == deaths <= trial.crashes + Owed + (MaxFaults - budget)

ForgetInv == StateMatchesFile /\ (AtStake => Accounted)

=============================================================================
