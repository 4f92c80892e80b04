------------------------ MODULE UpdaterHistoryProofs ------------------------
(***************************************************************************)
(* Theorems about what Updater remembers from one process to the next:     *)
(* what it refused, and how often a trial has crashed.                     *)
(***************************************************************************)
EXTENDS UpdaterProofs

-----------------------------------------------------------------------------
\* Refusals

LEMMA RefusalInit == Init => RefusalInv
BY FileAssumption DEF Init, RefusalInv, RefusalIsKept,
   RollsBackItself, Installing

LEMMA RefusalWorld ==
  ASSUME "torn" \notin Faults, TypeInv, RefusalInv, Operator \/ WrapperRestores \/ SupervisorStarts \/ CollectorExits
  PROVE  RefusalInv'
<1> USE LimitAssumption, FileAssumption
    DEF TypeInv, TypeOK, LocalsAreSet, RefusalInv, RefusalIsKept,
        RollsBackItself, Installing, IsTrial,
        Trials, Alive, GoTo, Die, DieUnchosen, Fault, disk, proc, hist
<1>1. CASE OperatorStarts
  BY <1>1 DEF OperatorStarts
<1>2. CASE OperatorForgives
  BY <1>2 DEF OperatorForgives
<1>3. ASSUME NEW v \in Releases, OperatorInstalls(v) PROVE RefusalInv'
  BY <1>3 DEF OperatorInstalls
<1>4. CASE WrapperRestores
  BY <1>4 DEF WrapperRestores
<1>5. CASE SupervisorStarts
  BY <1>5 DEF SupervisorStarts
<1>6. CASE CollectorExits
  BY <1>6 DEF CollectorExits
<1> QED
  BY <1>1, <1>2, <1>3, <1>4, <1>5, <1>6 DEF Operator

LEMMA RefusalGuard ==
  ASSUME "torn" \notin Faults, TypeInv, RefusalInv, Guard
  PROVE  RefusalInv'
<1> USE LimitAssumption, FileAssumption
    DEF TypeInv, TypeOK, LocalsAreSet, RefusalInv, RefusalIsKept,
        RollsBackItself, Installing, IsTrial,
        Trials, Alive, GoTo, Die, DieUnchosen, Fault, disk, proc, hist
<1>1. CASE GuardFindsNoTrial
  BY <1>1 DEF GuardFindsNoTrial
<1>2. CASE GuardDiscardsTrial
  BY <1>2 DEF GuardDiscardsTrial, Stale
<1>3. CASE GuardResumesTrial
  BY <1>3 DEF GuardResumesTrial, Stale, CountStart, GivesUp
<1>4. CASE Arm
  BY <1>4 DEF Arm
<1> QED
  BY <1>1, <1>2, <1>3, <1>4 DEF Guard

LEMMA RefusalFirstAnswer ==
  ASSUME "torn" \notin Faults, TypeInv, RefusalInv, ToFirstAnswer
  PROVE  RefusalInv'
<1> USE LimitAssumption, FileAssumption
    DEF TypeInv, TypeOK, LocalsAreSet, RefusalInv, RefusalIsKept,
        RollsBackItself, Installing, IsTrial,
        Trials, Alive, GoTo, Die, DieUnchosen, Fault, disk, proc, hist
<1>1. CASE DropPrev
  BY <1>1 DEF DropPrev, PrevDropped, AfterPrev
<1>2. CASE DropTrialFile
  BY <1>2 DEF DropTrialFile
<1>3. CASE HubAnswers
  BY <1>3 DEF HubAnswers
<1>4. ASSUME NEW c \in {"clean", "config"}, DeliberateExit(c)
      PROVE  RefusalInv'
  BY <1>4 DEF DeliberateExit
<1>5. CASE EndRecords
  BY <1>5 DEF EndRecords, Ended
<1>6. CASE TimerReads
  BY <1>6 DEF TimerReads
<1>7. CASE TimerExits
  BY <1>7 DEF TimerExits
<1>8. CASE Panics
  BY <1>8 DEF Panics, PanicCause
<1> QED
  BY <1>1, <1>2, <1>3, <1>4, <1>5, <1>6, <1>7, <1>8 DEF ToFirstAnswer

LEMMA RefusalInstall ==
  ASSUME "torn" \notin Faults, TypeInv, RefusalInv, Install
  PROVE  RefusalInv'
<1> USE LimitAssumption, FileAssumption
    DEF TypeInv, TypeOK, LocalsAreSet, RefusalInv, RefusalIsKept,
        RollsBackItself, Installing, IsTrial,
        Trials, Alive, GoTo, Die, DieUnchosen, Fault, disk, proc, hist
<1>1. CASE UpdateTo
  BY <1>1 DEF UpdateTo, Ignored, Refusal
<1>2. CASE DownloadFails
  BY <1>2 DEF DownloadFails
<1>3. CASE StageFails
  BY <1>3 DEF StageFails
<1>4. CASE StagePasses
  BY <1>4 DEF StagePasses
<1>5. CASE RemoveOldPrev
  BY <1>5 DEF RemoveOldPrev
<1>6. CASE LinkPrev
  BY <1>6 DEF LinkPrev
<1>7. CASE OpenTrial
  BY <1>7 DEF OpenTrial
<1>8. CASE MoveAside
  BY <1>8 DEF MoveAside
<1>9. CASE Swap
  BY <1>9 DEF Swap
<1>10. CASE UndoSwap
  BY <1>10 DEF UndoSwap
<1> QED
  BY <1>1, <1>2, <1>3, <1>4, <1>5, <1>6, <1>7, <1>8, <1>9, <1>10 DEF Install

LEMMA RefusalRollBack ==
  ASSUME "torn" \notin Faults, TypeInv, RefusalInv, RollBack
  PROVE  RefusalInv'
<1> USE LimitAssumption, FileAssumption
    DEF TypeInv, TypeOK, LocalsAreSet, RefusalInv, RefusalIsKept,
        RollsBackItself, Installing, IsTrial,
        Trials, Alive, GoTo, Die, DieUnchosen, Fault, disk, proc, hist
<1>1. CASE NothingToRestore
  BY <1>1 DEF NothingToRestore
<1>2. CASE Refuse
  BY <1>2 DEF Refuse, RefusedVersion
<1>3. CASE Park
  BY <1>3 DEF Park
<1>4. CASE Restore
  BY <1>4 DEF Restore
<1>5. CASE CloseTrial
  BY <1>5 DEF CloseTrial
<1> QED
  BY <1>1, <1>2, <1>3, <1>4, <1>5 DEF RollBack

LEMMA RefusalFailures ==
  ASSUME "torn" \notin Faults, TypeInv, RefusalInv, Failures
  PROVE  RefusalInv'
<1> USE LimitAssumption, FileAssumption
    DEF TypeInv, TypeOK, LocalsAreSet, RefusalInv, RefusalIsKept,
        RollsBackItself, Installing, IsTrial,
        Trials, Alive, GoTo, Die, DieUnchosen, Fault, disk, proc, hist
<1>1. CASE ArmFails
  BY <1>1 DEF ArmFails
<1>2. CASE EndFails
  BY <1>2 DEF EndFails
<1>3. CASE LinkFails
  BY <1>3 DEF LinkFails
<1>4. CASE OpenTrialFails
  BY <1>4 DEF OpenTrialFails
<1>5. CASE MoveAsideFails
  BY <1>5 DEF MoveAsideFails
<1>6. CASE SwapFails
  BY <1>6 DEF SwapFails, AfterSwapFails
<1>7. CASE UndoFails
  BY <1>7 DEF UndoFails
<1>8. CASE RefuseByRename
  BY <1>8 DEF RefuseByRename, RenamedRefusal
<1>9. CASE RefuseFails
  BY <1>9 DEF RefuseFails
<1>10. CASE ParkFails
  BY <1>10 DEF ParkFails
<1>11. CASE RestoreFails
  BY <1>11 DEF RestoreFails
<1>12. CASE Killed
  BY <1>12 DEF Killed
<1>13. CASE KilledMidWrite
  BY <1>13 DEF KilledMidWrite
<1> QED
  BY <1>1, <1>2, <1>3, <1>4, <1>5, <1>6, <1>7, <1>8, <1>9,
     <1>10, <1>11, <1>12, <1>13 DEF Failures

LEMMA RefusalStep ==
  ASSUME "torn" \notin Faults, TypeInv, RefusalInv, [Next]_vars
  PROVE  RefusalInv'
<1>1. CASE System
  BY <1>1, RefusalWorld, RefusalGuard, RefusalFirstAnswer, RefusalInstall,
     RefusalRollBack DEF System
<1>2. CASE Failures
  BY <1>2, RefusalFailures
<1>3. CASE Operator
  BY <1>3, RefusalWorld
<1>4. ASSUME NEW v \in Releases \cup {None}, HubNames(v) PROVE RefusalInv'
  BY <1>4 DEF HubNames, TypeInv, TypeOK, LocalsAreSet, RefusalInv, RefusalIsKept,
        RollsBackItself, Installing, IsTrial,
        Trials, Alive, GoTo, Die, DieUnchosen, Fault, disk, proc, hist
<1>5. CASE UNCHANGED vars
  BY <1>5 DEF vars, TypeInv, TypeOK, LocalsAreSet, RefusalInv, RefusalIsKept,
        RollsBackItself, Installing, IsTrial,
        Trials, Alive, GoTo, Die, DieUnchosen, Fault, disk, proc, hist
<1> QED
  BY <1>1, <1>2, <1>3, <1>4, <1>5 DEF Next

\* A release rolled back is not installed again before the hub has named
\* another or the operator deleted .refused, whatever is killed, refused or
\* full meanwhile, unless a power cut tears .refused itself.
THEOREM RolledBackAlwaysOut ==
  ASSUME "torn" \notin Faults
  PROVE  Spec => []RolledBackStaysOut
<1>1. TypeInv /\ RefusalInv /\ [Next]_vars => RefusalInv'
  BY RefusalStep
<1>2. TypeInv /\ RefusalInv => RolledBackStaysOut
  BY FileAssumption
     DEF TypeInv, LocalsAreSet, RefusalInv, RolledBackStaysOut
<1> QED
  BY TypeInit, TypeStep, RefusalInit, <1>1, <1>2, PTL DEF Spec

-----------------------------------------------------------------------------
\* Crash counts

LEMMA CountInit == Init => CountInv
BY FileAssumption DEF Init, CountInv, OnlyCrashesCount, LiveMeansDied,
   RollingBack, IsTrial

LEMMA CountWorld ==
  ASSUME "full" \notin Faults, TypeInv, CountInv, Operator \/ WrapperRestores \/ SupervisorStarts \/ CollectorExits
  PROVE  CountInv'
<1> USE LimitAssumption, FileAssumption
    DEF TypeInv, TypeOK, LocalsAreSet, CountsBelowLimit, CountInv,
        OnlyCrashesCount, LiveMeansDied, RollingBack, IsTrial, Trials,
        Alive, GoTo, Die, DieUnchosen, Fault, disk, proc, hist
<1>1. CASE OperatorStarts
  BY <1>1 DEF OperatorStarts
<1>2. CASE OperatorForgives
  BY <1>2 DEF OperatorForgives
<1>3. ASSUME NEW v \in Releases, OperatorInstalls(v) PROVE CountInv'
  BY <1>3 DEF OperatorInstalls
<1>4. CASE WrapperRestores
  BY <1>4 DEF WrapperRestores
<1>5. CASE SupervisorStarts
  BY <1>5 DEF SupervisorStarts
<1>6. CASE CollectorExits
  BY <1>6 DEF CollectorExits
<1> QED
  BY <1>1, <1>2, <1>3, <1>4, <1>5, <1>6 DEF Operator

LEMMA CountGuard ==
  ASSUME "full" \notin Faults, TypeInv, CountInv, Guard
  PROVE  CountInv'
<1> USE LimitAssumption, FileAssumption
    DEF TypeInv, TypeOK, LocalsAreSet, CountsBelowLimit, CountInv,
        OnlyCrashesCount, LiveMeansDied, RollingBack, IsTrial, Trials,
        Alive, GoTo, Die, DieUnchosen, Fault, disk, proc, hist
<1>1. CASE GuardFindsNoTrial
  BY <1>1 DEF GuardFindsNoTrial
<1>2. CASE GuardDiscardsTrial
  BY <1>2 DEF GuardDiscardsTrial, Stale
<1>3. CASE GuardResumesTrial
  BY <1>3 DEF GuardResumesTrial, Stale, CountStart, GivesUp
<1>4. CASE Arm
  BY <1>4 DEF Arm
<1> QED
  BY <1>1, <1>2, <1>3, <1>4 DEF Guard

LEMMA CountFirstAnswer ==
  ASSUME "full" \notin Faults, TypeInv, CountInv, ToFirstAnswer
  PROVE  CountInv'
<1> USE LimitAssumption, FileAssumption
    DEF TypeInv, TypeOK, LocalsAreSet, CountsBelowLimit, CountInv,
        OnlyCrashesCount, LiveMeansDied, RollingBack, IsTrial, Trials,
        Alive, GoTo, Die, DieUnchosen, Fault, disk, proc, hist
<1>1. CASE DropPrev
  BY <1>1 DEF DropPrev, PrevDropped, AfterPrev
<1>2. CASE DropTrialFile
  BY <1>2 DEF DropTrialFile
<1>3. CASE HubAnswers
  BY <1>3 DEF HubAnswers
<1>4. ASSUME NEW c \in {"clean", "config"}, DeliberateExit(c)
      PROVE  CountInv'
  BY <1>4 DEF DeliberateExit
<1>5. CASE EndRecords
  BY <1>5 DEF EndRecords, Ended
<1>6. CASE TimerReads
  BY <1>6 DEF TimerReads
<1>7. CASE TimerExits
  BY <1>7 DEF TimerExits
<1>8. CASE Panics
  BY <1>8 DEF Panics, PanicCause
<1> QED
  BY <1>1, <1>2, <1>3, <1>4, <1>5, <1>6, <1>7, <1>8 DEF ToFirstAnswer

LEMMA CountInstall ==
  ASSUME "full" \notin Faults, TypeInv, CountInv, Install
  PROVE  CountInv'
<1> USE LimitAssumption, FileAssumption
    DEF TypeInv, TypeOK, LocalsAreSet, CountsBelowLimit, CountInv,
        OnlyCrashesCount, LiveMeansDied, RollingBack, IsTrial, Trials,
        Alive, GoTo, Die, DieUnchosen, Fault, disk, proc, hist
<1>1. CASE UpdateTo
  BY <1>1 DEF UpdateTo, Ignored, Refusal
<1>2. CASE DownloadFails
  BY <1>2 DEF DownloadFails
<1>3. CASE StageFails
  BY <1>3 DEF StageFails
<1>4. CASE StagePasses
  BY <1>4 DEF StagePasses
<1>5. CASE RemoveOldPrev
  BY <1>5 DEF RemoveOldPrev
<1>6. CASE LinkPrev
  BY <1>6 DEF LinkPrev
<1>7. CASE OpenTrial
  BY <1>7 DEF OpenTrial
<1>8. CASE MoveAside
  BY <1>8 DEF MoveAside
<1>9. CASE Swap
  BY <1>9 DEF Swap
<1>10. CASE UndoSwap
  BY <1>10 DEF UndoSwap
<1> QED
  BY <1>1, <1>2, <1>3, <1>4, <1>5, <1>6, <1>7, <1>8, <1>9, <1>10 DEF Install

LEMMA CountRollBack ==
  ASSUME "full" \notin Faults, TypeInv, CountInv, RollBack
  PROVE  CountInv'
<1> USE LimitAssumption, FileAssumption
    DEF TypeInv, TypeOK, LocalsAreSet, CountsBelowLimit, CountInv,
        OnlyCrashesCount, LiveMeansDied, RollingBack, IsTrial, Trials,
        Alive, GoTo, Die, DieUnchosen, Fault, disk, proc, hist
<1>1. CASE NothingToRestore
  BY <1>1 DEF NothingToRestore
<1>2. CASE Refuse
  BY <1>2 DEF Refuse, RefusedVersion
<1>3. CASE Park
  BY <1>3 DEF Park
<1>4. CASE Restore
  BY <1>4 DEF Restore
<1>5. CASE CloseTrial
  BY <1>5 DEF CloseTrial
<1> QED
  BY <1>1, <1>2, <1>3, <1>4, <1>5 DEF RollBack

LEMMA CountFailures ==
  ASSUME "full" \notin Faults, TypeInv, CountInv, Failures
  PROVE  CountInv'
<1> USE LimitAssumption, FileAssumption
    DEF TypeInv, TypeOK, LocalsAreSet, CountsBelowLimit, CountInv,
        OnlyCrashesCount, LiveMeansDied, RollingBack, IsTrial, Trials,
        Alive, GoTo, Die, DieUnchosen, Fault, disk, proc, hist
<1>1. CASE ArmFails
  BY <1>1 DEF ArmFails
<1>2. CASE EndFails
  BY <1>2 DEF EndFails
<1>3. CASE LinkFails
  BY <1>3 DEF LinkFails
<1>4. CASE OpenTrialFails
  BY <1>4 DEF OpenTrialFails
<1>5. CASE MoveAsideFails
  BY <1>5 DEF MoveAsideFails
<1>6. CASE SwapFails
  BY <1>6 DEF SwapFails, AfterSwapFails
<1>7. CASE UndoFails
  BY <1>7 DEF UndoFails
<1>8. CASE RefuseByRename
  BY <1>8 DEF RefuseByRename, RenamedRefusal
<1>9. CASE RefuseFails
  BY <1>9 DEF RefuseFails
<1>10. CASE ParkFails
  BY <1>10 DEF ParkFails
<1>11. CASE RestoreFails
  BY <1>11 DEF RestoreFails
<1>12. CASE Killed
  BY <1>12 DEF Killed
<1>13. CASE KilledMidWrite
  BY <1>13 DEF KilledMidWrite
<1> QED
  BY <1>1, <1>2, <1>3, <1>4, <1>5, <1>6, <1>7, <1>8, <1>9,
     <1>10, <1>11, <1>12, <1>13 DEF Failures

LEMMA CountStep ==
  ASSUME "full" \notin Faults, TypeInv, CountInv, [Next]_vars
  PROVE  CountInv'
<1>1. CASE System
  BY <1>1, CountWorld, CountGuard, CountFirstAnswer, CountInstall,
     CountRollBack DEF System
<1>2. CASE Failures
  BY <1>2, CountFailures
<1>3. CASE Operator
  BY <1>3, CountWorld
<1>4. ASSUME NEW v \in Releases \cup {None}, HubNames(v) PROVE CountInv'
  BY <1>4 DEF HubNames, TypeInv, TypeOK, LocalsAreSet, CountsBelowLimit, CountInv,
        OnlyCrashesCount, LiveMeansDied, RollingBack, IsTrial, Trials,
        Alive, GoTo, Die, DieUnchosen, Fault, disk, proc, hist
<1>5. CASE UNCHANGED vars
  BY <1>5 DEF vars, TypeInv, TypeOK, LocalsAreSet, CountsBelowLimit, CountInv,
        OnlyCrashesCount, LiveMeansDied, RollingBack, IsTrial, Trials,
        Alive, GoTo, Die, DieUnchosen, Fault, disk, proc, hist
<1> QED
  BY <1>1, <1>2, <1>3, <1>4, <1>5 DEF Next

\* A rollback is always three deaths that no process chose, all since the trial
\* was opened: no outage, missing token, signal or wedged proof adds up to one,
\* as long as the state file can be written.
THEOREM OnlyCrashesAlwaysCount ==
  ASSUME "full" \notin Faults
  PROVE  Spec => []OnlyCrashesCount
<1>1. TypeInv /\ CountInv /\ [Next]_vars => CountInv'
  BY CountStep
<1>2. CountInv => OnlyCrashesCount
  BY DEF CountInv
<1> QED
  BY TypeInit, TypeStep, CountInit, <1>1, <1>2, PTL DEF Spec

=============================================================================
