------------------------- MODULE UpdaterTrialProofs -------------------------
(***************************************************************************)
(* Theorems about how a trial ends in Updater: what is proven stays, what  *)
(* the hub has not answered is not left stopped by a panic, and no crash   *)
(* of it is forgotten.                                                     *)
(***************************************************************************)
EXTENDS UpdaterProofs, Integers

-----------------------------------------------------------------------------
\* What is proven stays

LEMMA ProvenInit == Init => ProvenInv
BY FileAssumption DEF Init, ProvenInv, TrialMatchesLine,
   SettledCannotGoBack, OnlyOwnProofs, Starting, Installing, IsTrial, Alive

LEMMA ProvenWorld ==
  ASSUME "full" \notin Faults, TypeInv, ProvenInv, Operator \/ WrapperRestores
         \/ SupervisorStarts \/ CollectorExits
  PROVE  ProvenInv'
<1> USE FileAssumption DEF TypeInv, TypeOK, LocalsAreSet, ProvenInv,
    TrialMatchesLine, SettledCannotGoBack, OnlyOwnProofs, Starting,
    Installing, IsTrial, Alive, GoTo, Die, DieUnchosen, Fault, disk, proc,
    hist
<1>1. CASE OperatorStarts
  BY <1>1 DEF OperatorStarts
<1>2. CASE OperatorForgives
  BY <1>2 DEF OperatorForgives
<1>3. ASSUME NEW v \in Releases, OperatorInstalls(v)
      PROVE  ProvenInv'
  BY <1>3 DEF OperatorInstalls
<1>4. CASE WrapperRestores
  BY <1>4 DEF WrapperRestores
<1>5. CASE SupervisorStarts
  BY <1>5 DEF SupervisorStarts
<1>6. CASE CollectorExits
  BY <1>6 DEF CollectorExits
<1> QED
  BY <1>1, <1>2, <1>3, <1>4, <1>5, <1>6 DEF Operator

LEMMA ProvenGuard ==
  ASSUME "full" \notin Faults, TypeInv, ProvenInv, Guard
  PROVE  ProvenInv'
<1> USE FileAssumption DEF TypeInv, TypeOK, LocalsAreSet, ProvenInv,
    TrialMatchesLine, SettledCannotGoBack, OnlyOwnProofs, Starting,
    Installing, IsTrial, Alive, GoTo, Die, DieUnchosen, Fault, disk, proc,
    hist
<1>1. CASE GuardFindsNoTrial
  BY <1>1 DEF GuardFindsNoTrial
<1>2. CASE GuardDiscardsTrial
  BY <1>2 DEF GuardDiscardsTrial, Stale
<1>3. CASE GuardResumesTrial
  <2>1. trial \in Trials /\ trial.crashes < MaxTrialCrashes /\ trial.to = ver
    BY <1>3 DEF GuardResumesTrial, Stale, CountsBelowLimit
  <2>2. st'.to = ver
    BY <1>3, <2>1, CountedRecords DEF GuardResumesTrial
  <2> QED
    BY <1>3, <2>1, <2>2 DEF GuardResumesTrial
<1>4. CASE Arm
  <2>1. IsTrial(st') /\ st'.to = st.to
    BY <1>4, TrialRecords DEF Arm
  <2> QED
    BY <1>4, <2>1 DEF Arm
<1> QED
  BY <1>1, <1>2, <1>3, <1>4 DEF Guard

LEMMA ProvenFirstAnswer ==
  ASSUME "full" \notin Faults, TypeInv, ProvenInv, ToFirstAnswer
  PROVE  ProvenInv'
<1> USE FileAssumption DEF TypeInv, TypeOK, LocalsAreSet, ProvenInv,
    TrialMatchesLine, SettledCannotGoBack, OnlyOwnProofs, Starting,
    Installing, IsTrial, Alive, GoTo, Die, DieUnchosen, Fault, disk, proc,
    hist
<1>1. CASE DropPrev
  BY <1>1 DEF DropPrev, PrevDropped, AfterPrev
<1>2. CASE DropTrialFile
  BY <1>2 DEF DropTrialFile
<1>3. CASE HubAnswers
  BY <1>3 DEF HubAnswers
<1>4. ASSUME NEW c \in {"clean", "config"}, DeliberateExit(c)
      PROVE  ProvenInv'
  BY <1>4 DEF DeliberateExit
<1>5. CASE EndRecords
  <2>1. trial' \in Trials /\ trial'.to = st.to
    BY <1>5, TrialRecords DEF EndRecords, Ended
  <2> QED
    BY <1>5, <2>1 DEF EndRecords
<1>6. CASE TimerReads
  BY <1>6 DEF TimerReads
<1>7. CASE TimerExits
  BY <1>7 DEF TimerExits
<1>8. CASE Panics
  BY <1>8 DEF Panics, PanicCause
<1> QED
  BY <1>1, <1>2, <1>3, <1>4, <1>5, <1>6, <1>7, <1>8 DEF ToFirstAnswer

LEMMA ProvenInstall ==
  ASSUME "full" \notin Faults, TypeInv, ProvenInv, Install
  PROVE  ProvenInv'
<1> USE FileAssumption DEF TypeInv, TypeOK, LocalsAreSet, ProvenInv,
    TrialMatchesLine, SettledCannotGoBack, OnlyOwnProofs, Starting,
    Installing, IsTrial, Alive, GoTo, Die, DieUnchosen, Fault, disk, proc,
    hist
<1>1. CASE UpdateTo
  BY <1>1 DEF UpdateTo, Ignored, Refusal
<1>2. CASE DownloadFails
  BY <1>2 DEF DownloadFails
<1>3. CASE StageFails
  BY <1>3 DEF StageFails
<1>4. CASE StagePasses
  BY <1>4 DEF StagePasses
<1>5. CASE RemoveOldPrev
  BY <1>5 DEF RemoveOldPrev
<1>6. CASE LinkPrev
  BY <1>6 DEF LinkPrev
<1>7. CASE OpenTrial
  <2>1. trial' \in Trials /\ trial'.to = target
    BY <1>7, LimitAssumption DEF OpenTrial, Trials
  <2> QED
    BY <1>7, <2>1 DEF OpenTrial
<1>8. CASE MoveAside
  BY <1>8 DEF MoveAside
<1>9. CASE Swap
  BY <1>9 DEF Swap
<1>10. CASE UndoSwap
  BY <1>10 DEF UndoSwap
<1> QED
  BY <1>1, <1>2, <1>3, <1>4, <1>5, <1>6, <1>7, <1>8, <1>9, <1>10 DEF Install

LEMMA ProvenRollBack ==
  ASSUME "full" \notin Faults, TypeInv, ProvenInv, RollBack
  PROVE  ProvenInv'
<1> USE FileAssumption DEF TypeInv, TypeOK, LocalsAreSet, ProvenInv,
    TrialMatchesLine, SettledCannotGoBack, OnlyOwnProofs, Starting,
    Installing, IsTrial, Alive, GoTo, Die, DieUnchosen, Fault, disk, proc,
    hist
<1>1. CASE NothingToRestore
  BY <1>1 DEF NothingToRestore
<1>2. CASE Refuse
  BY <1>2 DEF Refuse, RefusedVersion
<1>3. CASE Park
  BY <1>3 DEF Park
<1>4. CASE Restore
  BY <1>4 DEF Restore
<1>5. CASE CloseTrial
  BY <1>5 DEF CloseTrial
<1> QED
  BY <1>1, <1>2, <1>3, <1>4, <1>5 DEF RollBack

LEMMA ProvenFailures ==
  ASSUME "full" \notin Faults, TypeInv, ProvenInv, Failures
  PROVE  ProvenInv'
<1> USE FileAssumption DEF TypeInv, TypeOK, LocalsAreSet, ProvenInv,
    TrialMatchesLine, SettledCannotGoBack, OnlyOwnProofs, Starting,
    Installing, IsTrial, Alive, GoTo, Die, DieUnchosen, Fault, disk, proc,
    hist
<1>1. CASE ArmFails
  BY <1>1 DEF ArmFails
<1>2. CASE EndFails
  BY <1>2 DEF EndFails
<1>3. CASE LinkFails
  BY <1>3 DEF LinkFails
<1>4. CASE OpenTrialFails
  BY <1>4 DEF OpenTrialFails
<1>5. CASE MoveAsideFails
  BY <1>5 DEF MoveAsideFails
<1>6. CASE SwapFails
  BY <1>6 DEF SwapFails, AfterSwapFails
<1>7. CASE UndoFails
  BY <1>7 DEF UndoFails
<1>8. CASE RefuseByRename
  BY <1>8 DEF RefuseByRename, RenamedRefusal
<1>9. CASE RefuseFails
  BY <1>9 DEF RefuseFails
<1>10. CASE ParkFails
  BY <1>10 DEF ParkFails
<1>11. CASE RestoreFails
  BY <1>11 DEF RestoreFails
<1>12. CASE Killed
  BY <1>12 DEF Killed
<1>13. CASE KilledMidWrite
  BY <1>13 DEF KilledMidWrite
<1> QED
  BY <1>1, <1>2, <1>3, <1>4, <1>5, <1>6, <1>7, <1>8, <1>9, <1>10, <1>11,
     <1>12, <1>13 DEF Failures

LEMMA ProvenStep ==
  ASSUME "full" \notin Faults, TypeInv, ProvenInv, [Next]_vars
  PROVE  ProvenInv'
<1>1. CASE System
  BY <1>1, ProvenWorld, ProvenGuard, ProvenFirstAnswer, ProvenInstall,
     ProvenRollBack DEF System
<1>2. CASE Failures
  BY <1>2, ProvenFailures
<1>3. CASE Operator
  BY <1>3, ProvenWorld
<1>4. ASSUME NEW v \in Releases \cup {None}, HubNames(v)
      PROVE  ProvenInv'
  BY <1>4 DEF HubNames, TypeInv, TypeOK, LocalsAreSet, ProvenInv,
    TrialMatchesLine, SettledCannotGoBack, OnlyOwnProofs, Starting,
    Installing, IsTrial, Alive, GoTo, Die, DieUnchosen, Fault, disk, proc,
    hist
<1>5. CASE UNCHANGED vars
  BY <1>5 DEF vars, TypeInv, TypeOK, LocalsAreSet, ProvenInv,
    TrialMatchesLine, SettledCannotGoBack, OnlyOwnProofs, Starting,
    Installing, IsTrial, Alive, GoTo, Die, DieUnchosen, Fault, disk, proc,
    hist
<1> QED
  BY <1>1, <1>2, <1>3, <1>4, <1>5 DEF Next

\* Once the hub has answered a binary and Proven has removed .prev, no later
\* start of it reaches a restore, whatever is killed or torn after that, as
\* long as state files can be written: guard and Proven agree through the
\* files alone.
THEOREM ProvenStaysInPlace ==
  ASSUME "full" \notin Faults
  PROVE  Spec => ProvenIsNeverRolledBack
<1> DEFINE KeepsProven ==
      pc = "restore" /\ pc' = "rolled" => ver \notin settled
<1>1. TypeInv /\ ProvenInv /\ [Next]_vars => ProvenInv'
  BY ProvenStep
<1>2. TypeInv /\ PathInv /\ ProvenInv => [KeepsProven]_vars
  BY DEF PathInv, PathLines, ProvenInv, TrialMatchesLine,
         SettledCannotGoBack, Starting
<1> QED
  BY TypeInit, TypeStep, PathInit, PathStep, ProvenInit, <1>1, <1>2, PTL
  DEF Spec, ProvenIsNeverRolledBack

-----------------------------------------------------------------------------
\* No trial is left stopped

LEMMA StrandedInit == Init => StrandedInv
BY DEF Init, StrandedInv, TrialIsNeverStranded

LEMMA StrandedWorld ==
  ASSUME StateFilesHold, ~Windows \/ ~StopsOn2, TypeInv, PathInv,
         InsuranceInv, ProvenInv, StrandedInv, Operator \/ WrapperRestores \/
         SupervisorStarts \/ CollectorExits
  PROVE  StrandedInv'
<1> USE FileAssumption DEF TypeInv, TypeOK, LocalsAreSet, StrandedInv,
    TrialIsNeverStranded, Vouched, ExitsWith2, IsTrial, Alive, GoTo, Die,
    DieUnchosen, Fault, disk, proc, hist
<1>1. CASE OperatorStarts
  BY <1>1 DEF OperatorStarts
<1>2. CASE OperatorForgives
  BY <1>2 DEF OperatorForgives
<1>3. ASSUME NEW v \in Releases, OperatorInstalls(v)
      PROVE  StrandedInv'
  BY <1>3 DEF OperatorInstalls
<1>4. CASE WrapperRestores
  BY <1>4 DEF WrapperRestores
<1>5. CASE SupervisorStarts
  BY <1>5 DEF SupervisorStarts
<1>6. CASE CollectorExits
  BY <1>6 DEF CollectorExits
<1> QED
  BY <1>1, <1>2, <1>3, <1>4, <1>5, <1>6 DEF Operator

LEMMA StrandedGuard ==
  ASSUME StateFilesHold, ~Windows \/ ~StopsOn2, TypeInv, PathInv,
         InsuranceInv, ProvenInv, StrandedInv, Guard
  PROVE  StrandedInv'
<1> USE FileAssumption DEF TypeInv, TypeOK, LocalsAreSet, StrandedInv,
    TrialIsNeverStranded, Vouched, ExitsWith2, IsTrial, Alive, GoTo, Die,
    DieUnchosen, Fault, disk, proc, hist
<1>1. CASE GuardFindsNoTrial
  BY <1>1 DEF GuardFindsNoTrial
<1>2. CASE GuardDiscardsTrial
  BY <1>2 DEF GuardDiscardsTrial, Stale
<1>3. CASE GuardResumesTrial
  BY <1>3 DEF GuardResumesTrial, Stale, CountStart, GivesUp
<1>4. CASE Arm
  BY <1>4 DEF Arm
<1> QED
  BY <1>1, <1>2, <1>3, <1>4 DEF Guard

LEMMA StrandedFirstAnswer ==
  ASSUME StateFilesHold, ~Windows \/ ~StopsOn2, TypeInv, PathInv,
         InsuranceInv, ProvenInv, StrandedInv, ToFirstAnswer
  PROVE  StrandedInv'
<1> USE FileAssumption DEF TypeInv, TypeOK, LocalsAreSet, StrandedInv,
    TrialIsNeverStranded, Vouched, ExitsWith2, IsTrial, Alive, GoTo, Die,
    DieUnchosen, Fault, disk, proc, hist
<1>1. CASE DropPrev
  BY <1>1 DEF DropPrev, PrevDropped, AfterPrev
<1>2. CASE DropTrialFile
  BY <1>2 DEF DropTrialFile
<1>3. CASE HubAnswers
  BY <1>3 DEF HubAnswers
<1>4. ASSUME NEW c \in {"clean", "config"}, DeliberateExit(c)
      PROVE  StrandedInv'
  BY <1>4 DEF DeliberateExit
<1>5. CASE EndRecords
  BY <1>5 DEF EndRecords, Ended
<1>6. CASE TimerReads
  BY <1>6 DEF TimerReads
<1>7. CASE TimerExits
  BY <1>7 DEF TimerExits
<1>8. CASE Panics
  <2>1. bin = None => Windows
    BY DEF PathInv, StartPathLeadsSomewhere
  <2>2. CASE pc = "boot" /\ armed
    BY <1>8, <2>2 DEF Panics, PanicCause
  <2>3. CASE pc = "boot" /\ ~armed
    <3>1. trial = None /\ bin # None
      BY <2>3 DEF ProvenInv, TrialMatchesLine, PathInv, PathLines, Starting
    <3> QED
      BY <1>8, <2>3, <3>1
      DEF Panics, PanicCause, InsuranceInv, UnprovenIsInsured
  <2>4. CASE pc = "collect"
    BY <1>8, <2>1, <2>4
    DEF Panics, PanicCause, InsuranceInv, ImageMatchesFile, NothingAtStake,
        AfterAnswer
  <2> QED
    BY <1>8, <2>2, <2>3, <2>4 DEF Panics
<1> QED
  BY <1>1, <1>2, <1>3, <1>4, <1>5, <1>6, <1>7, <1>8 DEF ToFirstAnswer

LEMMA StrandedInstall ==
  ASSUME StateFilesHold, ~Windows \/ ~StopsOn2, TypeInv, PathInv,
         InsuranceInv, ProvenInv, StrandedInv, Install
  PROVE  StrandedInv'
<1> USE FileAssumption DEF TypeInv, TypeOK, LocalsAreSet, StrandedInv,
    TrialIsNeverStranded, Vouched, ExitsWith2, IsTrial, Alive, GoTo, Die,
    DieUnchosen, Fault, disk, proc, hist
<1>1. CASE UpdateTo
  BY <1>1 DEF UpdateTo, Ignored, Refusal
<1>2. CASE DownloadFails
  BY <1>2 DEF DownloadFails
<1>3. CASE StageFails
  BY <1>3 DEF StageFails
<1>4. CASE StagePasses
  BY <1>4 DEF StagePasses
<1>5. CASE RemoveOldPrev
  BY <1>5 DEF RemoveOldPrev
<1>6. CASE LinkPrev
  BY <1>6 DEF LinkPrev
<1>7. CASE OpenTrial
  BY <1>7 DEF OpenTrial
<1>8. CASE MoveAside
  BY <1>8 DEF MoveAside
<1>9. CASE Swap
  BY <1>9 DEF Swap
<1>10. CASE UndoSwap
  BY <1>10 DEF UndoSwap
<1> QED
  BY <1>1, <1>2, <1>3, <1>4, <1>5, <1>6, <1>7, <1>8, <1>9, <1>10 DEF Install

LEMMA StrandedRollBack ==
  ASSUME StateFilesHold, ~Windows \/ ~StopsOn2, TypeInv, PathInv,
         InsuranceInv, ProvenInv, StrandedInv, RollBack
  PROVE  StrandedInv'
<1> USE FileAssumption DEF TypeInv, TypeOK, LocalsAreSet, StrandedInv,
    TrialIsNeverStranded, Vouched, ExitsWith2, IsTrial, Alive, GoTo, Die,
    DieUnchosen, Fault, disk, proc, hist
<1>1. CASE NothingToRestore
  BY <1>1 DEF NothingToRestore
<1>2. CASE Refuse
  BY <1>2 DEF Refuse, RefusedVersion
<1>3. CASE Park
  BY <1>3 DEF Park
<1>4. CASE Restore
  BY <1>4 DEF Restore
<1>5. CASE CloseTrial
  BY <1>5 DEF CloseTrial
<1> QED
  BY <1>1, <1>2, <1>3, <1>4, <1>5 DEF RollBack

LEMMA StrandedFailures ==
  ASSUME StateFilesHold, ~Windows \/ ~StopsOn2, TypeInv, PathInv,
         InsuranceInv, ProvenInv, StrandedInv, Failures
  PROVE  StrandedInv'
<1> USE FileAssumption DEF TypeInv, TypeOK, LocalsAreSet, StrandedInv,
    TrialIsNeverStranded, Vouched, ExitsWith2, IsTrial, Alive, GoTo, Die,
    DieUnchosen, Fault, disk, proc, hist
<1>1. CASE ArmFails
  BY <1>1 DEF ArmFails
<1>2. CASE EndFails
  BY <1>2 DEF EndFails
<1>3. CASE LinkFails
  BY <1>3 DEF LinkFails
<1>4. CASE OpenTrialFails
  BY <1>4 DEF OpenTrialFails
<1>5. CASE MoveAsideFails
  BY <1>5 DEF MoveAsideFails
<1>6. CASE SwapFails
  BY <1>6 DEF SwapFails, AfterSwapFails
<1>7. CASE UndoFails
  BY <1>7 DEF UndoFails
<1>8. CASE RefuseByRename
  BY <1>8 DEF RefuseByRename, RenamedRefusal
<1>9. CASE RefuseFails
  BY <1>9 DEF RefuseFails
<1>10. CASE ParkFails
  BY <1>10 DEF ParkFails
<1>11. CASE RestoreFails
  BY <1>11 DEF RestoreFails
<1>12. CASE Killed
  BY <1>12 DEF Killed
<1>13. CASE KilledMidWrite
  BY <1>13 DEF KilledMidWrite
<1> QED
  BY <1>1, <1>2, <1>3, <1>4, <1>5, <1>6, <1>7, <1>8, <1>9, <1>10, <1>11,
     <1>12, <1>13 DEF Failures

LEMMA StrandedStep ==
  ASSUME StateFilesHold, ~Windows \/ ~StopsOn2, TypeInv, PathInv,
         InsuranceInv, ProvenInv, StrandedInv, [Next]_vars
  PROVE  StrandedInv'
<1>1. CASE System
  BY <1>1, StrandedWorld, StrandedGuard, StrandedFirstAnswer, StrandedInstall,
     StrandedRollBack DEF System
<1>2. CASE Failures
  BY <1>2, StrandedFailures
<1>3. CASE Operator
  BY <1>3, StrandedWorld
<1>4. ASSUME NEW v \in Releases \cup {None}, HubNames(v)
      PROVE  StrandedInv'
  BY <1>4 DEF HubNames, TypeInv, TypeOK, LocalsAreSet, StrandedInv,
    TrialIsNeverStranded, Vouched, ExitsWith2, IsTrial, Alive, GoTo, Die,
    DieUnchosen, Fault, disk, proc, hist
<1>5. CASE UNCHANGED vars
  BY <1>5 DEF vars, TypeInv, TypeOK, LocalsAreSet, StrandedInv,
    TrialIsNeverStranded, Vouched, ExitsWith2, IsTrial, Alive, GoTo, Die,
    DieUnchosen, Fault, disk, proc, hist
<1> QED
  BY <1>1, <1>2, <1>3, <1>4, <1>5 DEF Next

\* A panic in a trial is restarted, into the rollback if need be, under every
\* supervisor: on Unix it does not end in exit code 2, and where it does, on
\* Windows, nothing stops on 2. (Assumes that state files hold.)
THEOREM NoTrialIsStranded ==
  ASSUME StateFilesHold, ~Windows \/ ~StopsOn2
  PROVE  Spec => []TrialIsNeverStranded
<1>1. TypeInv /\ PathInv /\ InsuranceInv /\ [Next]_vars => InsuranceInv'
  BY InsuranceStep
<1>2. TypeInv /\ ProvenInv /\ [Next]_vars => ProvenInv'
  BY ProvenStep DEF StateFilesHold
<1>3. TypeInv /\ PathInv /\ InsuranceInv /\ ProvenInv /\ StrandedInv
        /\ [Next]_vars => StrandedInv'
  BY StrandedStep
<1>4. StrandedInv => TrialIsNeverStranded
  BY DEF StrandedInv
<1> QED
  BY TypeInit, TypeStep, PathInit, PathStep, InsuranceInit, <1>1, ProvenInit,
     <1>2, StrandedInit, <1>3, <1>4, PTL DEF Spec

-----------------------------------------------------------------------------
\* No crash is forgotten

LEMMA MatchInit == Init => StateMatchesFile
BY FileAssumption DEF Init, StateMatchesFile, AfterAnswer, Installing

LEMMA MatchWorld ==
  ASSUME StateFilesHold, TypeInv, StateMatchesFile, Operator \/ WrapperRestores
         \/ SupervisorStarts \/ CollectorExits
  PROVE  StateMatchesFile'
<1> USE FileAssumption DEF TypeInv, TypeOK, LocalsAreSet, StateMatchesFile,
    Starting, Installing, AfterAnswer, IsTrial, Alive, GoTo, Die,
    DieUnchosen, Fault, disk, proc, hist
<1>1. CASE OperatorStarts
  BY <1>1 DEF OperatorStarts
<1>2. CASE OperatorForgives
  BY <1>2 DEF OperatorForgives
<1>3. ASSUME NEW v \in Releases, OperatorInstalls(v) PROVE StateMatchesFile'
  BY <1>3 DEF OperatorInstalls
<1>4. CASE WrapperRestores
  BY <1>4 DEF WrapperRestores
<1>5. CASE SupervisorStarts
  BY <1>5 DEF SupervisorStarts
<1>6. CASE CollectorExits
  BY <1>6 DEF CollectorExits
<1> QED
  BY <1>1, <1>2, <1>3, <1>4, <1>5, <1>6 DEF Operator

LEMMA MatchGuard ==
  ASSUME StateFilesHold, TypeInv, StateMatchesFile, Guard
  PROVE  StateMatchesFile'
<1> USE FileAssumption DEF TypeInv, TypeOK, LocalsAreSet, StateMatchesFile,
    Starting, Installing, AfterAnswer, IsTrial, Alive, GoTo, Die,
    DieUnchosen, Fault, disk, proc, hist
<1>1. CASE GuardFindsNoTrial
  BY <1>1 DEF GuardFindsNoTrial
<1>2. CASE GuardDiscardsTrial
  BY <1>2 DEF GuardDiscardsTrial, Stale
<1>3. CASE GuardResumesTrial
  BY <1>3 DEF GuardResumesTrial
<1>4. CASE Arm
  <2>1. st' = [st EXCEPT !.live = TRUE] /\ trial' = st' /\ st \in Trials
    BY <1>4 DEF Arm
  <2>2. st'.live
    BY <2>1 DEF Trials
  <2> QED
    BY <1>4, <2>1, <2>2 DEF Arm
<1> QED
  BY <1>1, <1>2, <1>3, <1>4 DEF Guard

LEMMA MatchFirstAnswer ==
  ASSUME StateFilesHold, TypeInv, StateMatchesFile, ToFirstAnswer
  PROVE  StateMatchesFile'
<1> USE FileAssumption DEF TypeInv, TypeOK, LocalsAreSet, StateMatchesFile,
    Starting, Installing, AfterAnswer, IsTrial, Alive, GoTo, Die,
    DieUnchosen, Fault, disk, proc, hist
<1>1. CASE DropPrev
  BY <1>1 DEF DropPrev, PrevDropped, AfterPrev
<1>2. CASE DropTrialFile
  BY <1>2 DEF DropTrialFile
<1>3. CASE HubAnswers
  BY <1>3 DEF HubAnswers
<1>4. ASSUME NEW c \in {"clean", "config"}, DeliberateExit(c)
      PROVE  StateMatchesFile'
  BY <1>4 DEF DeliberateExit
<1>5. CASE EndRecords
  BY <1>5 DEF EndRecords
<1>6. CASE TimerReads
  BY <1>6 DEF TimerReads
<1>7. CASE TimerExits
  BY <1>7 DEF TimerExits
<1>8. CASE Panics
  BY <1>8 DEF Panics
<1> QED
  BY <1>1, <1>2, <1>3, <1>4, <1>5, <1>6, <1>7, <1>8 DEF ToFirstAnswer

LEMMA MatchInstall ==
  ASSUME StateFilesHold, TypeInv, StateMatchesFile, Install
  PROVE  StateMatchesFile'
<1> USE FileAssumption DEF TypeInv, TypeOK, LocalsAreSet, StateMatchesFile,
    Starting, Installing, AfterAnswer, IsTrial, Alive, GoTo, Die,
    DieUnchosen, Fault, disk, proc, hist
<1>1. CASE UpdateTo
  BY <1>1 DEF UpdateTo
<1>2. CASE DownloadFails
  BY <1>2 DEF DownloadFails
<1>3. CASE StageFails
  BY <1>3 DEF StageFails
<1>4. CASE StagePasses
  BY <1>4 DEF StagePasses
<1>5. CASE RemoveOldPrev
  BY <1>5 DEF RemoveOldPrev
<1>6. CASE LinkPrev
  BY <1>6 DEF LinkPrev
<1>7. CASE OpenTrial
  BY <1>7 DEF OpenTrial
<1>8. CASE MoveAside
  BY <1>8 DEF MoveAside
<1>9. CASE Swap
  BY <1>9 DEF Swap
<1>10. CASE UndoSwap
  BY <1>10 DEF UndoSwap
<1> QED
  BY <1>1, <1>2, <1>3, <1>4, <1>5, <1>6, <1>7, <1>8, <1>9, <1>10
  DEF Install

LEMMA MatchRollBack ==
  ASSUME StateFilesHold, TypeInv, StateMatchesFile, RollBack
  PROVE  StateMatchesFile'
<1> USE FileAssumption DEF TypeInv, TypeOK, LocalsAreSet, StateMatchesFile,
    Starting, Installing, AfterAnswer, IsTrial, Alive, GoTo, Die,
    DieUnchosen, Fault, disk, proc, hist
<1>1. CASE NothingToRestore
  BY <1>1 DEF NothingToRestore
<1>2. CASE Refuse
  BY <1>2 DEF Refuse
<1>3. CASE Park
  BY <1>3 DEF Park
<1>4. CASE Restore
  BY <1>4 DEF Restore
<1>5. CASE CloseTrial
  BY <1>5 DEF CloseTrial
<1> QED
  BY <1>1, <1>2, <1>3, <1>4, <1>5 DEF RollBack

LEMMA MatchFailures ==
  ASSUME StateFilesHold, TypeInv, StateMatchesFile, Failures
  PROVE  StateMatchesFile'
<1> USE FileAssumption DEF TypeInv, TypeOK, LocalsAreSet, StateMatchesFile,
    Starting, Installing, AfterAnswer, IsTrial, Alive, GoTo, Die,
    DieUnchosen, Fault, disk, proc, hist
<1>1. CASE ArmFails
  BY <1>1 DEF ArmFails, StateFilesHold
<1>2. CASE EndFails
  BY <1>2 DEF EndFails, StateFilesHold
<1>3. CASE LinkFails
  BY <1>3 DEF LinkFails, StateFilesHold
<1>4. CASE OpenTrialFails
  BY <1>4 DEF OpenTrialFails, StateFilesHold
<1>5. CASE MoveAsideFails
  BY <1>5 DEF MoveAsideFails
<1>6. CASE SwapFails
  BY <1>6 DEF SwapFails, AfterSwapFails
<1>7. CASE UndoFails
  BY <1>7 DEF UndoFails
<1>8. CASE RefuseByRename
  BY <1>8 DEF RefuseByRename, StateFilesHold
<1>9. CASE RefuseFails
  BY <1>9 DEF RefuseFails, StateFilesHold
<1>10. CASE ParkFails
  BY <1>10 DEF ParkFails
<1>11. CASE RestoreFails
  BY <1>11 DEF RestoreFails
<1>12. CASE Killed
  BY <1>12 DEF Killed
<1>13. CASE KilledMidWrite
  BY <1>13 DEF KilledMidWrite, StateFilesHold
<1> QED
  BY <1>1, <1>2, <1>3, <1>4, <1>5, <1>6, <1>7, <1>8, <1>9,
     <1>10, <1>11, <1>12, <1>13 DEF Failures

LEMMA MatchStep ==
  ASSUME StateFilesHold, TypeInv, StateMatchesFile, [Next]_vars
  PROVE  StateMatchesFile'
<1>1. CASE System
  BY <1>1, MatchWorld, MatchGuard, MatchFirstAnswer, MatchInstall,
     MatchRollBack DEF System
<1>2. CASE Failures
  BY <1>2, MatchFailures
<1>3. CASE Operator
  BY <1>3, MatchWorld
<1>4. ASSUME NEW v \in Releases \cup {None}, HubNames(v) PROVE StateMatchesFile'
  BY <1>4 DEF HubNames, StateMatchesFile, IsTrial, disk, proc, hist
<1>5. CASE UNCHANGED vars
  BY <1>5 DEF vars, StateMatchesFile, IsTrial, disk, proc, hist
<1> QED
  BY <1>1, <1>2, <1>3, <1>4, <1>5 DEF Next

\* What the accounts are about is there, and is a number.
LEMMA StakeIsATrial ==
  ASSUME TypeInv, InsuranceInv, AtStake
  PROVE  /\ trial \in Trials /\ trial.crashes \in Int /\ trial.live \in BOOLEAN
         /\ Owed \in {0, 1}
<1>1. trial \in Trials
  BY DEF AtStake, TypeInv, TypeOK, InsuranceInv, UnprovenIsInsured, TrialIsOurs,
         IsTrial
<1> QED
  BY <1>1 DEF Trials, Owed

LEMMA AccountTypes ==
  ASSUME TypeInv
  PROVE  MaxFaults \in Int /\ budget \in Int /\ deaths \in Int
BY LimitAssumption DEF TypeInv, TypeOK

\* No new stake, no new death, and the same file and mark.
LEMMA AccountKept ==
  ASSUME TypeInv, InsuranceInv, AtStake => Accounted, AtStake' => AtStake,
         UNCHANGED <<deaths, trial>>,
         AtStake => Owed' = Owed,
         budget' \in {budget, budget - 1}
  PROVE  (AtStake => Accounted)'
<1> SUFFICES ASSUME AtStake' PROVE Accounted'
  OBVIOUS
<1>1. AtStake /\ deaths <= trial.crashes + Owed + (MaxFaults - budget)
  BY DEF Accounted
<1>2. trial.crashes \in Int /\ Owed \in Int
  BY <1>1, StakeIsATrial
<1>3. /\ Owed' = Owed /\ deaths' = deaths /\ trial'.crashes = trial.crashes
  BY <1>1
<1>4. deaths <= trial.crashes + Owed + (MaxFaults - budget')
  BY <1>1, <1>2, AccountTypes
<1>5. deaths' <= trial'.crashes + Owed' + (MaxFaults - budget')
  BY <1>3, <1>4
<1> QED
  BY <1>5 DEF Accounted

\* A death is marked by the trial whose process dies, or is a fault.
LEMMA DeathAccounted ==
  ASSUME StateFilesHold, TypeInv, InsuranceInv, StateMatchesFile,
         AtStake => Accounted, DieUnchosen("abort") \/ DieUnchosen("panic")
                               \/ DieUnchosen("wedged") \/ DieUnchosen("killed"),
         UNCHANGED <<disk, named>>,
         \/ budget' = budget /\ (AtStake => armed \/ pc = "end")
         \/ budget' = budget - 1
  PROVE  (AtStake => Accounted)'
<1> USE DEF disk
<1> SUFFICES ASSUME AtStake' PROVE Accounted'
  OBVIOUS
<1>1. /\ deaths' \in {deaths, deaths + 1} /\ deaths' \in Int
      /\ ~armed' /\ pc' \in {"down", "stopped"}
      /\ UNCHANGED <<answered, settled, chosen, trial, bin>>
  BY AccountTypes DEF DieUnchosen, Die
<1>2. AtStake
  BY <1>1 DEF AtStake, Vouched
<1>3. deaths <= trial.crashes + Owed + (MaxFaults - budget)
  BY <1>2 DEF Accounted
<1>4. trial \in Trials /\ trial.crashes \in Int /\ Owed \in {0, 1}
  BY <1>2, StakeIsATrial
<1>5. Owed' = IF trial.live THEN 1 ELSE 0
  BY <1>1 DEF Owed
<1>6. Owed <= Owed' /\ Owed' \in {0, 1}
  BY <1>4, <1>5 DEF Owed
<1>7. CASE budget' = budget /\ (armed \/ pc = "end")
  <2>1. trial.live
    BY <1>7 DEF StateMatchesFile
  <2>2. Owed = 0 /\ Owed' = 1
    BY <1>5, <1>7, <2>1 DEF Owed
  <2>3. deaths' <= trial.crashes + Owed' + (MaxFaults - budget')
    BY <1>1, <1>3, <1>4, <1>7, <2>2, AccountTypes
  <2> QED
    BY <1>1, <2>3 DEF Accounted
<1>8. CASE budget' = budget - 1
  <2>1. deaths' <= trial.crashes + Owed' + (MaxFaults - budget')
    BY <1>1, <1>3, <1>4, <1>6, <1>8, AccountTypes
  <2> QED
    BY <1>1, <2>1 DEF Accounted
<1> QED
  BY <1>2, <1>7, <1>8

\* Where nothing is at stake nothing is owed.
LEMMA NothingOwed ==
  ASSUME TypeInv, InsuranceInv,
         pc \in AfterAnswer \cup {"drop_prev", "drop_trial", "rolled"}
  PROVE  ~AtStake
BY FileAssumption DEF TypeInv, TypeOK, LocalsAreSet, InsuranceInv,
   ImageMatchesFile, NothingAtStake, AtStake, AfterAnswer, Installing, Alive

LEMMA AccountWorld ==
  ASSUME StateFilesHold, TypeInv, PathInv, InsuranceInv, StateMatchesFile,
         AtStake => Accounted, Operator \/ WrapperRestores
                               \/ SupervisorStarts \/ CollectorExits
  PROVE  (AtStake => Accounted)'
<1> USE FileAssumption DEF TypeInv, TypeOK, LocalsAreSet, PathInv, PathLines,
    InsuranceInv, ImageMatchesFile, PrevIsVouched, NothingAtStake, Vouched,
    Starting, Installing, AfterAnswer, Alive, GoTo, Die, Fault, AtStake,
    Owed, disk, proc, hist
<1>1. CASE OperatorStarts
  <2>1. /\ AtStake' => AtStake
        /\ UNCHANGED <<deaths, trial>>
        /\ AtStake => Owed' = Owed
        /\ budget' \in {budget, budget - 1}
    BY <1>1 DEF OperatorStarts
  <2> QED
    BY <2>1, AccountKept
<1>2. CASE OperatorForgives
  <2>1. /\ AtStake' => AtStake
        /\ UNCHANGED <<deaths, trial>>
        /\ AtStake => Owed' = Owed
        /\ budget' \in {budget, budget - 1}
    BY <1>2 DEF OperatorForgives
  <2> QED
    BY <2>1, AccountKept
<1>3. ASSUME NEW v \in Releases, OperatorInstalls(v)
      PROVE  (AtStake => Accounted)'
  <2>1. /\ AtStake' => AtStake
        /\ UNCHANGED <<deaths, trial>>
        /\ AtStake => Owed' = Owed
        /\ budget' \in {budget, budget - 1}
    BY <1>3 DEF OperatorInstalls
  <2> QED
    BY <2>1, AccountKept
<1>4. CASE WrapperRestores
  <2>1. ~AtStake'
    BY <1>4 DEF WrapperRestores
  <2> QED
    BY <2>1
<1>5. CASE SupervisorStarts
  <2>1. /\ AtStake' => AtStake
        /\ UNCHANGED <<deaths, trial>>
        /\ AtStake => Owed' = Owed
        /\ budget' \in {budget, budget - 1}
    BY <1>5 DEF SupervisorStarts
  <2> QED
    BY <2>1, AccountKept
<1>6. CASE CollectorExits
  <2>1. /\ AtStake' => AtStake
        /\ UNCHANGED <<deaths, trial>>
        /\ AtStake => Owed' = Owed
        /\ budget' \in {budget, budget - 1}
    BY <1>6 DEF CollectorExits
  <2> QED
    BY <2>1, AccountKept
<1> QED
  BY <1>1, <1>2, <1>3, <1>4, <1>5, <1>6 DEF Operator

LEMMA AccountGuard ==
  ASSUME StateFilesHold, TypeInv, PathInv, InsuranceInv, StateMatchesFile,
         AtStake => Accounted, Guard
  PROVE  (AtStake => Accounted)'
<1> USE FileAssumption DEF TypeInv, TypeOK, LocalsAreSet, PathInv, PathLines,
    InsuranceInv, ImageMatchesFile, PrevIsVouched, NothingAtStake, Vouched,
    Starting, Installing, AfterAnswer, Alive, GoTo, Die, Fault, AtStake,
    Owed, disk, proc, hist
<1>1. CASE GuardFindsNoTrial
  <2>1. /\ AtStake' => AtStake
        /\ UNCHANGED <<deaths, trial>>
        /\ AtStake => Owed' = Owed
        /\ budget' \in {budget, budget - 1}
    BY <1>1 DEF GuardFindsNoTrial
  <2> QED
    BY <2>1, AccountKept
<1>2. CASE GuardDiscardsTrial
  <2>1. /\ AtStake' => AtStake
        /\ UNCHANGED <<deaths, trial>>
        /\ AtStake => Owed' = Owed
        /\ budget' \in {budget, budget - 1}
    BY <1>2 DEF GuardDiscardsTrial
  <2> QED
    BY <2>1, AccountKept
<1>3. CASE GuardResumesTrial
  <2>1. /\ AtStake' => AtStake
        /\ UNCHANGED <<deaths, trial>>
        /\ AtStake => Owed' = Owed
        /\ budget' \in {budget, budget - 1}
    BY <1>3 DEF GuardResumesTrial
  <2> QED
    BY <2>1, AccountKept
<1>4. CASE Arm
  <2> SUFFICES ASSUME AtStake' PROVE Accounted'
    OBVIOUS
  <2>1. /\ AtStake /\ ~armed /\ pc = "arm" /\ armed' /\ trial' = st'
        /\ st' = [st EXCEPT !.live = TRUE] /\ st = CountStart(trial)
        /\ deaths' = deaths /\ budget' = budget
    BY <1>4 DEF Arm, StateMatchesFile
  <2>2. /\ trial \in Trials /\ trial.crashes \in Int /\ trial.live \in BOOLEAN
        /\ Owed = IF trial.live THEN 1 ELSE 0
    BY <2>1, StakeIsATrial
  <2>3. trial'.crashes = trial.crashes + Owed
    BY <2>1, <2>2 DEF Trials, CountStart
  <2>4. Owed' = 0
    BY <2>1
  <2> HIDE DEF Owed
  <2>5. deaths <= trial.crashes + Owed + (MaxFaults - budget)
    BY <2>1 DEF Accounted
  <2>6. deaths' <= trial'.crashes + Owed' + (MaxFaults - budget')
    BY <2>1, <2>2, <2>3, <2>4, <2>5, AccountTypes
  <2> QED
    BY <2>6 DEF Accounted
<1> QED
  BY <1>1, <1>2, <1>3, <1>4 DEF Guard

LEMMA AccountFirstAnswer ==
  ASSUME StateFilesHold, TypeInv, PathInv, InsuranceInv, StateMatchesFile,
         AtStake => Accounted, ToFirstAnswer
  PROVE  (AtStake => Accounted)'
<1> USE FileAssumption DEF TypeInv, TypeOK, LocalsAreSet, PathInv, PathLines,
    InsuranceInv, ImageMatchesFile, PrevIsVouched, NothingAtStake, Vouched,
    Starting, Installing, AfterAnswer, Alive, GoTo, Die, Fault, AtStake,
    Owed, disk, proc, hist
<1>1. CASE DropPrev
  BY <1>1, NothingOwed DEF DropPrev, PrevDropped, AfterPrev
<1>2. CASE DropTrialFile
  BY <1>2, NothingOwed DEF DropTrialFile
<1>3. CASE HubAnswers
  <2>1. ~AtStake'
    BY <1>3 DEF HubAnswers
  <2> QED
    BY <2>1
<1>4. ASSUME NEW c \in {"clean", "config"}, DeliberateExit(c)
      PROVE  (AtStake => Accounted)'
  <2>1. /\ AtStake' => AtStake
        /\ UNCHANGED <<deaths, trial>>
        /\ AtStake => Owed' = Owed
        /\ budget' \in {budget, budget - 1}
    BY <1>4 DEF DeliberateExit, StateMatchesFile, UnprovenIsInsured, IsTrial
  <2> QED
    BY <2>1, AccountKept
<1>5. CASE EndRecords
  <2> SUFFICES ASSUME AtStake' PROVE Accounted'
    OBVIOUS
  <2>1. /\ AtStake /\ pc = "end" /\ trial = st /\ trial' = Ended(st)
        /\ deaths' = deaths /\ budget' = budget /\ st \in Trials
    BY <1>5 DEF EndRecords, StateMatchesFile
  <2>2. trial'.crashes = trial.crashes /\ trial'.live = FALSE
    BY <2>1 DEF Trials, Ended
  <2>3. Owed = 0 /\ Owed' = 0
    BY <2>1, <2>2
  <2> HIDE DEF Owed
  <2>4. deaths <= trial.crashes + Owed + (MaxFaults - budget)
    BY <2>1 DEF Accounted
  <2>5. deaths' <= trial'.crashes + Owed' + (MaxFaults - budget')
    BY <2>1, <2>2, <2>3, <2>4
  <2> QED
    BY <2>5 DEF Accounted
<1>6. CASE TimerReads
  <2>1. /\ AtStake' => AtStake
        /\ UNCHANGED <<deaths, trial>>
        /\ AtStake => Owed' = Owed
        /\ budget' \in {budget, budget - 1}
    BY <1>6 DEF TimerReads
  <2> QED
    BY <2>1, AccountKept
<1>7. CASE TimerExits
  <2>1. AtStake => armed \/ pc = "end"
    BY <1>7, NothingOwed
       DEF TimerExits, StateMatchesFile, UnprovenIsInsured, IsTrial
  <2> QED
    BY <1>7, <2>1, DeathAccounted DEF TimerExits
<1>8. CASE Panics
  <2>1. AtStake => armed \/ pc = "end"
    BY <1>8, NothingOwed
       DEF Panics, StateMatchesFile, UnprovenIsInsured, IsTrial
  <2> QED
    BY <1>8, <2>1, DeathAccounted DEF Panics, PanicCause
<1> QED
  BY <1>1, <1>2, <1>3, <1>4, <1>5, <1>6, <1>7, <1>8 DEF ToFirstAnswer

LEMMA AccountInstall ==
  ASSUME StateFilesHold, TypeInv, PathInv, InsuranceInv, StateMatchesFile,
         AtStake => Accounted, Install
  PROVE  (AtStake => Accounted)'
<1> USE FileAssumption DEF TypeInv, TypeOK, LocalsAreSet, PathInv, PathLines,
    InsuranceInv, ImageMatchesFile, PrevIsVouched, NothingAtStake, Vouched,
    Starting, Installing, AfterAnswer, Alive, GoTo, Die, Fault, AtStake,
    Owed, disk, proc, hist
<1>1. CASE UpdateTo
  <2>1. ~AtStake'
    BY <1>1 DEF UpdateTo
  <2> QED
    BY <2>1
<1>2. CASE DownloadFails
  <2>1. ~AtStake'
    BY <1>2 DEF DownloadFails
  <2> QED
    BY <2>1
<1>3. CASE StageFails
  <2>1. ~AtStake'
    BY <1>3 DEF StageFails
  <2> QED
    BY <2>1
<1>4. CASE StagePasses
  <2>1. ~AtStake'
    BY <1>4 DEF StagePasses
  <2> QED
    BY <2>1
<1>5. CASE RemoveOldPrev
  <2>1. ~AtStake'
    BY <1>5 DEF RemoveOldPrev
  <2> QED
    BY <2>1
<1>6. CASE LinkPrev
  <2>1. ~AtStake'
    BY <1>6 DEF LinkPrev
  <2> QED
    BY <2>1
<1>7. CASE OpenTrial
  <2>1. ~AtStake'
    BY <1>7 DEF OpenTrial
  <2> QED
    BY <2>1
<1>8. CASE MoveAside
  <2>1. ~AtStake'
    BY <1>8 DEF MoveAside
  <2> QED
    BY <2>1
<1>9. CASE Swap
  <2>1. AtStake' => trial \in Trials /\ deaths = 0
    BY <1>9 DEF Swap, StateMatchesFile, TrialIsOurs, IsTrial
  <2>2. /\ UNCHANGED <<deaths, trial, budget>> /\ budget \in 0 .. MaxFaults
        /\ pc' # "end" /\ ~armed'
    BY <1>9 DEF Swap
  <2>3. trial \in Trials => trial.crashes \in Nat /\ Owed' \in {0, 1}
    BY <2>2 DEF Trials
  <2> HIDE DEF AtStake, Owed
  <2> QED
    BY <2>1, <2>2, <2>3, LimitAssumption DEF Accounted
<1>10. CASE UndoSwap
  <2>1. ~AtStake'
    BY <1>10 DEF UndoSwap
  <2> QED
    BY <2>1
<1> QED
  BY <1>1, <1>2, <1>3, <1>4, <1>5, <1>6, <1>7, <1>8, <1>9, <1>10
  DEF Install

LEMMA AccountRollBack ==
  ASSUME StateFilesHold, TypeInv, PathInv, InsuranceInv, StateMatchesFile,
         AtStake => Accounted, RollBack
  PROVE  (AtStake => Accounted)'
<1> USE FileAssumption DEF TypeInv, TypeOK, LocalsAreSet, PathInv, PathLines,
    InsuranceInv, ImageMatchesFile, PrevIsVouched, NothingAtStake, Vouched,
    Starting, Installing, AfterAnswer, Alive, GoTo, Die, Fault, AtStake,
    Owed, disk, proc, hist
<1>1. CASE NothingToRestore
  <2>1. ~AtStake'
    BY <1>1 DEF NothingToRestore, UnprovenIsInsured
  <2> QED
    BY <2>1
<1>2. CASE Refuse
  <2>1. /\ AtStake' => AtStake
        /\ UNCHANGED <<deaths, trial>>
        /\ AtStake => Owed' = Owed
        /\ budget' \in {budget, budget - 1}
    BY <1>2 DEF Refuse
  <2> QED
    BY <2>1, AccountKept
<1>3. CASE Park
  <2>1. /\ AtStake' => AtStake
        /\ UNCHANGED <<deaths, trial>>
        /\ AtStake => Owed' = Owed
        /\ budget' \in {budget, budget - 1}
    BY <1>3 DEF Park
  <2> QED
    BY <2>1, AccountKept
<1>4. CASE Restore
  <2>1. ~AtStake'
    BY <1>4 DEF Restore
  <2> QED
    BY <2>1
<1>5. CASE CloseTrial
  <2>1. ~AtStake'
    BY <1>5 DEF CloseTrial
  <2> QED
    BY <2>1
<1> QED
  BY <1>1, <1>2, <1>3, <1>4, <1>5 DEF RollBack

LEMMA AccountFailures ==
  ASSUME StateFilesHold, TypeInv, PathInv, InsuranceInv, StateMatchesFile,
         AtStake => Accounted, Failures
  PROVE  (AtStake => Accounted)'
<1> USE FileAssumption DEF TypeInv, TypeOK, LocalsAreSet, PathInv, PathLines,
    InsuranceInv, ImageMatchesFile, PrevIsVouched, NothingAtStake, Vouched,
    Starting, Installing, AfterAnswer, Alive, GoTo, Die, Fault, AtStake,
    Owed, disk, proc, hist
<1>1. CASE ArmFails
  BY <1>1 DEF ArmFails, StateFilesHold
<1>2. CASE EndFails
  BY <1>2 DEF EndFails, StateFilesHold
<1>3. CASE LinkFails
  BY <1>3 DEF LinkFails, StateFilesHold
<1>4. CASE OpenTrialFails
  BY <1>4 DEF OpenTrialFails, StateFilesHold
<1>5. CASE MoveAsideFails
  <2>1. /\ AtStake' => AtStake
        /\ UNCHANGED <<deaths, trial>>
        /\ AtStake => Owed' = Owed
        /\ budget' \in {budget, budget - 1}
    BY <1>5 DEF MoveAsideFails
  <2> QED
    BY <2>1, AccountKept
<1>6. CASE SwapFails
  <2>1. /\ AtStake' => AtStake
        /\ UNCHANGED <<deaths, trial>>
        /\ AtStake => Owed' = Owed
        /\ budget' \in {budget, budget - 1}
    BY <1>6 DEF SwapFails, AfterSwapFails
  <2> QED
    BY <2>1, AccountKept
<1>7. CASE UndoFails
  <2>1. /\ AtStake' => AtStake
        /\ UNCHANGED <<deaths, trial>>
        /\ AtStake => Owed' = Owed
        /\ budget' \in {budget, budget - 1}
    BY <1>7 DEF UndoFails
  <2> QED
    BY <2>1, AccountKept
<1>8. CASE RefuseByRename
  BY <1>8 DEF RefuseByRename, StateFilesHold
<1>9. CASE RefuseFails
  BY <1>9 DEF RefuseFails, StateFilesHold
<1>10. CASE ParkFails
  <2>1. /\ AtStake' => AtStake
        /\ UNCHANGED <<deaths, trial>>
        /\ AtStake => Owed' = Owed
        /\ budget' \in {budget, budget - 1}
    BY <1>10 DEF ParkFails
  <2> QED
    BY <2>1, AccountKept
<1>11. CASE RestoreFails
  <2>1. /\ AtStake' => AtStake
        /\ UNCHANGED <<deaths, trial>>
        /\ AtStake => Owed' = Owed
        /\ budget' \in {budget, budget - 1}
    BY <1>11 DEF RestoreFails
  <2> QED
    BY <2>1, AccountKept
<1>12. CASE Killed
  BY <1>12, DeathAccounted DEF Killed
<1>13. CASE KilledMidWrite
  BY <1>13 DEF KilledMidWrite, StateFilesHold
<1> QED
  BY <1>1, <1>2, <1>3, <1>4, <1>5, <1>6, <1>7, <1>8, <1>9,
     <1>10, <1>11, <1>12, <1>13 DEF Failures

LEMMA AccountStep ==
  ASSUME StateFilesHold, TypeInv, PathInv, InsuranceInv, StateMatchesFile,
         AtStake => Accounted, [Next]_vars
  PROVE  (AtStake => Accounted)'
<1>1. CASE System
  BY <1>1, AccountWorld, AccountGuard, AccountFirstAnswer, AccountInstall,
     AccountRollBack DEF System
<1>2. CASE Failures
  BY <1>2, AccountFailures
<1>3. CASE Operator
  BY <1>3, AccountWorld
<1>4. ASSUME (\E v \in Releases \cup {None} : HubNames(v)) \/ UNCHANGED vars
      PROVE  (AtStake => Accounted)'
  <2>1. /\ AtStake' => AtStake
        /\ UNCHANGED <<deaths, trial>>
        /\ AtStake => Owed' = Owed
        /\ budget' \in {budget, budget - 1}
    BY <1>4 DEF HubNames, vars, AtStake, Owed, Vouched, disk, proc, hist
  <2> QED
    BY <2>1, AccountKept
<1> QED
  BY <1>1, <1>2, <1>3, <1>4 DEF Next

\* Where state files hold, each death of a release that neither the hub nor the
\* operator vouches for is recorded, or marked as live, by the time its process
\* is gone, but for at most one per fault of the host.
THEOREM CrashesAlwaysCounted ==
  ASSUME StateFilesHold
  PROVE  Spec => []EveryCrashCounts
<1>1. Init => ForgetInv
  BY MatchInit DEF Init, ForgetInv, AtStake, Vouched
<1>2. TypeInv /\ PathInv /\ InsuranceInv /\ ForgetInv /\ [Next]_vars => ForgetInv'
  BY MatchStep, AccountStep DEF ForgetInv
<1>3. TypeInv /\ ForgetInv => EveryCrashCounts
  <2> SUFFICES ASSUME TypeInv, ForgetInv, ~Alive, bin \notin Vouched \cup {None}
               PROVE  deaths <= trial.crashes + (IF trial.live THEN 1 ELSE 0)
                                              + (MaxFaults - budget)
    BY DEF EveryCrashCounts
  <2>1. ~armed /\ pc # "end"
    BY DEF TypeInv, LocalsAreSet, Alive
  <2>2. Owed = IF trial.live THEN 1 ELSE 0
    BY <2>1 DEF Owed
  <2>3. deaths <= trial.crashes + Owed + (MaxFaults - budget)
    BY DEF ForgetInv, AtStake, Accounted
  <2> QED
    BY <2>2, <2>3
<1>4. TypeInv /\ PathInv /\ InsuranceInv /\ [Next]_vars => InsuranceInv'
  BY InsuranceStep
<1> QED
  BY TypeInit, TypeStep, PathInit, PathStep, InsuranceInit, <1>1, <1>2, <1>3,
     <1>4, PTL
  DEF Spec

=============================================================================
