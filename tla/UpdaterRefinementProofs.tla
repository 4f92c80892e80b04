---------------------- MODULE UpdaterRefinementProofs ----------------------
(***************************************************************************)
(* Updater implements UpdatePromise, for every set of releases, platform   *)
(* and number of faults: each step is a step of the promise or changes     *)
(* nothing of it. Most steps are of the second kind.                       *)
(***************************************************************************)
EXTENDS UpdaterRefinement, UpdaterHistoryProofs

-----------------------------------------------------------------------------
\* SwapInv is inductive

LEMMA SwapInit == Init => SwapInv
BY DEF Init, SwapInv

LEMMA SwapWorld ==
  ASSUME TypeInv, PathInv, SwapInv, Operator \/ WrapperRestores \/
         SupervisorStarts \/ CollectorExits
  PROVE  SwapInv'
<1> USE FileAssumption DEF TypeInv, TypeOK, LocalsAreSet, PathInv, PathLines,
    StartPathLeadsSomewhere, SwapInv, Starting, Installing, IsTrial, Alive,
    GoTo, Die, DieUnchosen, Fault, disk, proc, hist
<1>1. CASE OperatorStarts
  BY <1>1 DEF OperatorStarts
<1>2. CASE OperatorForgives
  BY <1>2 DEF OperatorForgives
<1>3. ASSUME NEW v \in Releases, OperatorInstalls(v)
      PROVE  SwapInv'
  BY <1>3 DEF OperatorInstalls
<1>4. CASE WrapperRestores
  BY <1>4 DEF WrapperRestores
<1>5. CASE SupervisorStarts
  BY <1>5 DEF SupervisorStarts
<1>6. CASE CollectorExits
  BY <1>6 DEF CollectorExits
<1> QED
  BY <1>1, <1>2, <1>3, <1>4, <1>5, <1>6 DEF Operator

LEMMA SwapGuard ==
  ASSUME TypeInv, PathInv, SwapInv, Guard
  PROVE  SwapInv'
<1> USE FileAssumption DEF TypeInv, TypeOK, LocalsAreSet, PathInv, PathLines,
    StartPathLeadsSomewhere, SwapInv, Starting, Installing, IsTrial, Alive,
    GoTo, Die, DieUnchosen, Fault, disk, proc, hist
<1>1. CASE GuardFindsNoTrial
  BY <1>1 DEF GuardFindsNoTrial
<1>2. CASE GuardDiscardsTrial
  BY <1>2 DEF GuardDiscardsTrial, Stale
<1>3. CASE GuardResumesTrial
  BY <1>3 DEF GuardResumesTrial, Stale, CountStart, GivesUp
<1>4. CASE Arm
  BY <1>4 DEF Arm
<1> QED
  BY <1>1, <1>2, <1>3, <1>4 DEF Guard

LEMMA SwapFirstAnswer ==
  ASSUME TypeInv, PathInv, SwapInv, ToFirstAnswer
  PROVE  SwapInv'
<1> USE FileAssumption DEF TypeInv, TypeOK, LocalsAreSet, PathInv, PathLines,
    StartPathLeadsSomewhere, SwapInv, Starting, Installing, IsTrial, Alive,
    GoTo, Die, DieUnchosen, Fault, disk, proc, hist
<1>1. CASE DropPrev
  BY <1>1 DEF DropPrev, PrevDropped, AfterPrev
<1>2. CASE DropTrialFile
  BY <1>2 DEF DropTrialFile
<1>3. CASE HubAnswers
  BY <1>3 DEF HubAnswers
<1>4. ASSUME NEW c \in {"clean", "config"}, DeliberateExit(c)
      PROVE  SwapInv'
  BY <1>4 DEF DeliberateExit
<1>5. CASE EndRecords
  BY <1>5 DEF EndRecords, Ended
<1>6. CASE TimerReads
  BY <1>6 DEF TimerReads
<1>7. CASE TimerExits
  BY <1>7 DEF TimerExits
<1>8. CASE Panics
  BY <1>8 DEF Panics, PanicCause
<1> QED
  BY <1>1, <1>2, <1>3, <1>4, <1>5, <1>6, <1>7, <1>8 DEF ToFirstAnswer

LEMMA SwapInstall ==
  ASSUME TypeInv, PathInv, SwapInv, Install
  PROVE  SwapInv'
<1> USE FileAssumption DEF TypeInv, TypeOK, LocalsAreSet, PathInv, PathLines,
    StartPathLeadsSomewhere, SwapInv, Starting, Installing, IsTrial, Alive,
    GoTo, Die, DieUnchosen, Fault, disk, proc, hist
<1>1. CASE UpdateTo
  BY <1>1 DEF UpdateTo, Ignored, Refusal
<1>2. CASE DownloadFails
  BY <1>2 DEF DownloadFails
<1>3. CASE StageFails
  BY <1>3 DEF StageFails
<1>4. CASE StagePasses
  BY <1>4 DEF StagePasses
<1>5. CASE RemoveOldPrev
  BY <1>5 DEF RemoveOldPrev
<1>6. CASE LinkPrev
  BY <1>6 DEF LinkPrev
<1>7. CASE OpenTrial
  BY <1>7 DEF OpenTrial
<1>8. CASE MoveAside
  BY <1>8 DEF MoveAside
<1>9. CASE Swap
  BY <1>9 DEF Swap
<1>10. CASE UndoSwap
  BY <1>10 DEF UndoSwap
<1> QED
  BY <1>1, <1>2, <1>3, <1>4, <1>5, <1>6, <1>7, <1>8, <1>9, <1>10 DEF Install

LEMMA SwapRollBack ==
  ASSUME TypeInv, PathInv, SwapInv, RollBack
  PROVE  SwapInv'
<1> USE FileAssumption DEF TypeInv, TypeOK, LocalsAreSet, PathInv, PathLines,
    StartPathLeadsSomewhere, SwapInv, Starting, Installing, IsTrial, Alive,
    GoTo, Die, DieUnchosen, Fault, disk, proc, hist
<1>1. CASE NothingToRestore
  BY <1>1 DEF NothingToRestore
<1>2. CASE Refuse
  BY <1>2 DEF Refuse, RefusedVersion
<1>3. CASE Park
  BY <1>3 DEF Park
<1>4. CASE Restore
  BY <1>4 DEF Restore
<1>5. CASE CloseTrial
  BY <1>5 DEF CloseTrial
<1> QED
  BY <1>1, <1>2, <1>3, <1>4, <1>5 DEF RollBack

LEMMA SwapFailures ==
  ASSUME TypeInv, PathInv, SwapInv, Failures
  PROVE  SwapInv'
<1> USE FileAssumption DEF TypeInv, TypeOK, LocalsAreSet, PathInv, PathLines,
    StartPathLeadsSomewhere, SwapInv, Starting, Installing, IsTrial, Alive,
    GoTo, Die, DieUnchosen, Fault, disk, proc, hist
<1>1. CASE ArmFails
  BY <1>1 DEF ArmFails
<1>2. CASE EndFails
  BY <1>2 DEF EndFails
<1>3. CASE LinkFails
  BY <1>3 DEF LinkFails
<1>4. CASE OpenTrialFails
  BY <1>4 DEF OpenTrialFails
<1>5. CASE MoveAsideFails
  BY <1>5 DEF MoveAsideFails
<1>6. CASE SwapFails
  BY <1>6 DEF SwapFails, AfterSwapFails
<1>7. CASE UndoFails
  BY <1>7 DEF UndoFails
<1>8. CASE RefuseByRename
  BY <1>8 DEF RefuseByRename, RenamedRefusal
<1>9. CASE RefuseFails
  BY <1>9 DEF RefuseFails
<1>10. CASE ParkFails
  BY <1>10 DEF ParkFails
<1>11. CASE RestoreFails
  BY <1>11 DEF RestoreFails
<1>12. CASE Killed
  BY <1>12 DEF Killed
<1>13. CASE KilledMidWrite
  BY <1>13 DEF KilledMidWrite
<1> QED
  BY <1>1, <1>2, <1>3, <1>4, <1>5, <1>6, <1>7, <1>8, <1>9, <1>10, <1>11,
     <1>12, <1>13 DEF Failures

LEMMA SwapStep ==
  ASSUME TypeInv, PathInv, SwapInv, [Next]_vars
  PROVE  SwapInv'
<1>1. CASE System
  BY <1>1, SwapWorld, SwapGuard, SwapFirstAnswer, SwapInstall, SwapRollBack
     DEF System
<1>2. CASE Failures
  BY <1>2, SwapFailures
<1>3. CASE Operator
  BY <1>3, SwapWorld
<1>4. ASSUME NEW v \in Releases \cup {None}, HubNames(v)
      PROVE  SwapInv'
  BY <1>4 DEF HubNames, TypeInv, TypeOK, LocalsAreSet, PathInv, PathLines,
    StartPathLeadsSomewhere, SwapInv, Starting, Installing, IsTrial, Alive,
    GoTo, Die, DieUnchosen, Fault, disk, proc, hist
<1>5. CASE UNCHANGED vars
  BY <1>5 DEF vars, TypeInv, TypeOK, LocalsAreSet, PathInv, PathLines,
    StartPathLeadsSomewhere, SwapInv, Starting, Installing, IsTrial, Alive,
    GoTo, Die, DieUnchosen, Fault, disk, proc, hist
<1> QED
  BY <1>1, <1>2, <1>3, <1>4, <1>5 DEF Next

-----------------------------------------------------------------------------
\* The mapping

LEMMA PromiseInit == Init => Promise!Init
BY FileAssumption DEF Init, Promise!Init, Current, Proven, Vouched, Refusal

\* Everything the mapping of a step needs to know of the state before it.
Known ==
  TypeInv /\ PathInv /\ InsuranceInv /\ RefusalInv /\ CountInv /\ SwapInv

\* There always is a current binary, an unproven one has its fallback, and the
\* lines behind an answer are those of a proven one.
LEMMA Shielded ==
  ASSUME Known
  PROVE  /\ Current \in Releases /\ Vouched \subseteq Releases
         /\ ~Proven => prev \in Vouched
         /\ pc \in AfterAnswer \cup {"drop_prev", "drop_trial", "rolled"}
              => Proven
<1> USE FileAssumption DEF Known, TypeInv, TypeOK, LocalsAreSet, Vouched
<1>1. Current \in Releases
  BY DEF Current, PathInv, StartPathLeadsSomewhere
<1>2. ~Proven => prev \in Vouched
  <2>1. CASE bin # None
    BY <2>1 DEF Current, Proven, InsuranceInv, UnprovenIsInsured
  <2>2. CASE bin = None
    BY <2>2 DEF PathInv, StartPathLeadsSomewhere, InsuranceInv, PrevIsVouched
  <2> QED
    BY <2>1, <2>2
<1>3. pc \in AfterAnswer \cup {"drop_prev", "drop_trial", "rolled"} => Proven
  <2>1. CASE bin # None
    BY <2>1 DEF Current, Proven, InsuranceInv, NothingAtStake,
                ImageMatchesFile, AfterAnswer, Installing, Alive
  <2>2. CASE bin = None
    BY <2>2 DEF Current, Proven, PathInv, StartPathLeadsSomewhere,
                InsuranceInv, PrevIsVouched, AfterAnswer, Installing
  <2> QED
    BY <2>1, <2>2
<1> QED
  BY <1>1, <1>2, <1>3

\* A step that moves nothing of the promise, but may give a target up.
LEMMA Unmoved ==
  ASSUME Current' = Current, Vouched' = Vouched,
         Proven \/ UNCHANGED <<prev, deaths>>,
         target' \in {target, None}, Refusal' = Refusal, named' = named
  PROVE  [Promise!Next]_(Promise!vars)
<1>1. Proven' = Proven
  BY DEF Proven
<1>2. CASE target' = None
  BY <1>1, <1>2 DEF Promise!Next, Promise!GiveUpTarget
<1>3. CASE target' = target
  BY <1>1, <1>3 DEF Promise!vars
<1> QED
  BY <1>2, <1>3

\* The same, of the files: what is parked counts only while it is restored.
LEMMA UnmovedFiles ==
  ASSUME UNCHANGED <<bin, prev, answered, chosen, deaths, refused, named>>,
         target' \in {target, None},
         bin # None \/ {pc, pc'} \cap {"restore"} = {}
  PROVE  [Promise!Next]_(Promise!vars)
<1>1. Current' = Current
  BY DEF Current
<1> QED
  BY <1>1, Unmoved DEF Vouched, Refusal

\* The rollback of the promise, in whatever way .prev becomes current.
LEMMA GoesBack ==
  ASSUME Known, pc = "restore", Current' = prev, target' = None,
         UNCHANGED <<answered, settled, chosen, refused, named>>
  PROVE  [Promise!Next]_(Promise!vars)
<1>1. prev \in Vouched /\ prev # None
  BY DEF Known, InsuranceInv, PrevIsVouched, PathInv, PathLines
<1>2. Vouched' = Vouched /\ Refusal' = Refusal /\ Proven'
  BY <1>1 DEF Vouched, Refusal, Proven
<1>3. ~Proven => deaths >= MaxTrialCrashes /\ Refusal = Current
  <2>1. deaths >= MaxTrialCrashes
    BY DEF Known, CountInv, OnlyCrashesCount, RollingBack
  <2>2. refused = ver /\ ver \in Releases
    BY DEF Known, RefusalInv, RefusalIsKept, TypeInv, LocalsAreSet, Alive
  <2>3. Refusal = ver
    BY <2>2, FileAssumption DEF Refusal
  <2>4. Current \in Vouched \cup {ver}
    BY <1>1, FileAssumption
    DEF Current, Known, InsuranceInv, ImageMatchesFile, TrialIsOurs, Alive,
        PathInv, StartPathLeadsSomewhere
  <2> QED
    BY <2>1, <2>3, <2>4 DEF Proven
<1>4. Promise!RollBack
  BY <1>1, <1>2, <1>3
  DEF Promise!RollBack, Promise!Settled, Promise!Proven, Proven
<1> QED
  BY <1>4 DEF Promise!Next

\* A death no process chose counts, unless the count is full, and ends a
\* Windows rollback that has parked the binary.
LEMMA Death ==
  ASSUME Known, NEW c, DieUnchosen(c),
         UNCHANGED <<bin, prev, parked, refused, named>>
  PROVE  [Promise!Next]_(Promise!vars)
<1> USE DEF DieUnchosen, Die
<1>1. CASE pc = "restore" /\ bin = None
  BY <1>1, GoesBack DEF Current
<1>2. CASE ~(pc = "restore" /\ bin = None)
  <2>1. Current' = Current
    BY <1>2 DEF Current
  <2>2. Vouched' = Vouched /\ Refusal' = Refusal /\ Proven' = Proven
    BY <2>1 DEF Vouched, Refusal, Proven
  <2>3. CASE Proven \/ ~(deaths < MaxTrialCrashes)
    BY <2>1, <2>2, <2>3, Unmoved
  <2>4. CASE ~Proven /\ deaths < MaxTrialCrashes
    <3>1. Promise!Fail
      BY <2>1, <2>2, <2>4 DEF Promise!Fail, Promise!Proven, Proven
    <3> QED
      BY <3>1 DEF Promise!Next
  <2> QED
    BY <2>3, <2>4
<1> QED
  BY <1>1, <1>2

-----------------------------------------------------------------------------
\* Every step

LEMMA PromiseWorld ==
  ASSUME StateFilesHold, Known, Operator \/ WrapperRestores \/
         SupervisorStarts \/ CollectorExits
  PROVE  [Promise!Next]_(Promise!vars)
<1> USE DEF TypeInv, TypeOK, PathInv, PathLines, StartPathLeadsSomewhere,
    Known, SwapInv, Starting, Installing, GoTo, Die, disk, proc, hist
<1>1. CASE OperatorStarts
  BY <1>1, UnmovedFiles DEF OperatorStarts
<1>2. CASE OperatorForgives
  <2>1. Current' = Current /\ Vouched' = Vouched /\ Refusal' = None
    BY <1>2 DEF OperatorForgives, Current, Vouched, Refusal
  <2>2. Promise!OperatorForgives
    BY <1>2, <2>1 DEF OperatorForgives, Promise!OperatorForgives, Proven
  <2> QED
    BY <2>2 DEF Promise!Next
<1>3. ASSUME NEW v \in Releases, OperatorInstalls(v)
      PROVE  [Promise!Next]_(Promise!vars)
  <2>1. Current' = v /\ Vouched' = Vouched \cup {v} /\ Refusal' = Refusal
    BY <1>3, FileAssumption DEF OperatorInstalls, Current, Vouched, Refusal
  <2>2. Promise!OperatorInstalls
    BY <1>3, <2>1
    DEF OperatorInstalls, Promise!OperatorInstalls, Promise!Settled,
        Promise!Proven, Proven
  <2> QED
    BY <2>2 DEF Promise!Next
<1>4. CASE WrapperRestores
  <2>1. prev \in Vouched
    BY <1>4 DEF WrapperRestores, InsuranceInv, PrevIsVouched
  <2>2. Current = prev /\ Current' = prev /\ Vouched' = Vouched
    BY <1>4 DEF WrapperRestores, Current, Vouched
  <2> QED
    BY <1>4, <2>1, <2>2, Unmoved DEF WrapperRestores, Proven, Refusal
<1>5. CASE SupervisorStarts
  BY <1>5, UnmovedFiles DEF SupervisorStarts
<1>6. CASE CollectorExits
  BY <1>6, UnmovedFiles DEF CollectorExits
<1> QED
  BY <1>1, <1>2, <1>3, <1>4, <1>5, <1>6 DEF Operator

LEMMA PromiseGuard ==
  ASSUME StateFilesHold, Known, Guard
  PROVE  [Promise!Next]_(Promise!vars)
<1> USE DEF TypeInv, TypeOK, PathInv, PathLines, StartPathLeadsSomewhere,
    Known, SwapInv, Starting, Installing, GoTo, Die, disk, proc, hist
<1>1. CASE GuardFindsNoTrial
  BY <1>1, UnmovedFiles DEF GuardFindsNoTrial
<1>2. CASE GuardDiscardsTrial
  BY <1>2, UnmovedFiles DEF GuardDiscardsTrial, Stale
<1>3. CASE GuardResumesTrial
  BY <1>3, UnmovedFiles DEF GuardResumesTrial, Stale, CountStart, GivesUp
<1>4. CASE Arm
  BY <1>4, UnmovedFiles DEF Arm
<1> QED
  BY <1>1, <1>2, <1>3, <1>4 DEF Guard

LEMMA PromiseFirstAnswer ==
  ASSUME StateFilesHold, Known, ToFirstAnswer
  PROVE  [Promise!Next]_(Promise!vars)
<1> USE DEF TypeInv, TypeOK, PathInv, PathLines, StartPathLeadsSomewhere,
    Known, SwapInv, Starting, Installing, GoTo, Die, disk, proc, hist
<1>1. CASE DropPrev
  <2>1. Current' = Current /\ Vouched' = Vouched /\ Refusal' = Refusal
    BY <1>1 DEF DropPrev, PrevDropped, AfterPrev, Current, Vouched, Refusal
  <2>2. Proven
    BY <1>1, Shielded DEF DropPrev, PrevDropped, AfterPrev, AfterAnswer
  <2> QED
    BY <1>1, <2>1, <2>2, Unmoved DEF DropPrev, PrevDropped, AfterPrev
<1>2. CASE DropTrialFile
  BY <1>2, UnmovedFiles DEF DropTrialFile
<1>3. CASE HubAnswers
  <2>1. /\ Current = bin /\ Current' = bin
        /\ bin \in Vouched \cup {ver} /\ ver \in Releases
    BY <1>3 DEF HubAnswers, Current, LocalsAreSet, Alive,
              InsuranceInv, ImageMatchesFile
  <2>2. Vouched' = Vouched \cup {ver} /\ Refusal' = Refusal
    BY <1>3 DEF HubAnswers, Vouched, Refusal
  <2>3. Proven \/ ver = Current
    BY <2>1 DEF Proven
  <2>4. Proven'
    BY <2>1, <2>2 DEF Proven
  <2>5. Promise!Answered
    BY <1>3, <2>1, <2>2, <2>3, <2>4 DEF HubAnswers, Promise!Answered,
       Promise!Settled, Promise!Proven, Proven
  <2> QED
    BY <2>5 DEF Promise!Next
<1>4. ASSUME NEW c \in {"clean", "config"}, DeliberateExit(c)
      PROVE  [Promise!Next]_(Promise!vars)
  BY <1>4, UnmovedFiles DEF DeliberateExit
<1>5. CASE EndRecords
  BY <1>5, UnmovedFiles DEF EndRecords, Ended
<1>6. CASE TimerReads
  BY <1>6, UnmovedFiles DEF TimerReads
<1>7. CASE TimerExits
  BY <1>7, Death DEF TimerExits
<1>8. CASE Panics
  BY <1>8, Death DEF Panics, PanicCause
<1> QED
  BY <1>1, <1>2, <1>3, <1>4, <1>5, <1>6, <1>7, <1>8 DEF ToFirstAnswer

LEMMA PromiseInstall ==
  ASSUME StateFilesHold, Known, Install
  PROVE  [Promise!Next]_(Promise!vars)
<1> USE DEF TypeInv, TypeOK, PathInv, PathLines, StartPathLeadsSomewhere,
    Known, SwapInv, Starting, Installing, GoTo, Die, disk, proc, hist
<1>1. CASE UpdateTo
  <2>1. Current' = Current /\ Vouched' = Vouched
    BY <1>1 DEF UpdateTo, Ignored, Refusal, Current, Vouched
  <2>2. Proven
    BY <1>1, Shielded DEF UpdateTo, AfterAnswer
  <2>3. Refusal' = None
    BY <1>1 DEF UpdateTo, Refusal
  <2>4. Promise!Aim
    BY <1>1, <2>1, <2>2, <2>3
    DEF UpdateTo, Ignored, Promise!Aim, Promise!Proven, Proven
  <2> QED
    BY <2>4 DEF Promise!Next
<1>2. CASE DownloadFails
  BY <1>2, UnmovedFiles DEF DownloadFails
<1>3. CASE StageFails
  BY <1>3, UnmovedFiles DEF StageFails
<1>4. CASE StagePasses
  BY <1>4, UnmovedFiles DEF StagePasses
<1>5. CASE RemoveOldPrev
  <2>1. Current' = Current /\ Vouched' = Vouched /\ Refusal' = Refusal
    BY <1>5 DEF RemoveOldPrev, Current, Vouched, Refusal
  <2>2. Proven
    BY <1>5, Shielded DEF RemoveOldPrev, AfterAnswer
  <2> QED
    BY <1>5, <2>1, <2>2, Unmoved DEF RemoveOldPrev
<1>6. CASE LinkPrev
  <2>1. Current' = Current /\ Vouched' = Vouched /\ Refusal' = Refusal
    BY <1>6 DEF LinkPrev, Current, Vouched, Refusal
  <2>2. Proven
    BY <1>6, Shielded DEF LinkPrev, AfterAnswer
  <2> QED
    BY <1>6, <2>1, <2>2, Unmoved DEF LinkPrev
<1>7. CASE OpenTrial
  <2>1. Current' = Current /\ Vouched' = Vouched /\ Refusal' = Refusal
    BY <1>7 DEF OpenTrial, Current, Vouched, Refusal
  <2>2. Proven
    BY <1>7, Shielded DEF OpenTrial, AfterAnswer
  <2> QED
    BY <1>7, <2>1, <2>2, Unmoved DEF OpenTrial
<1>8. CASE MoveAside
  <2>1. Current' = Current /\ Vouched' = Vouched /\ Refusal' = Refusal
    BY <1>8 DEF MoveAside, Current, Vouched, Refusal
  <2>2. Proven
    BY <1>8, Shielded DEF MoveAside, AfterAnswer
  <2> QED
    BY <1>8, <2>1, <2>2, Unmoved DEF MoveAside
<1>9. CASE Swap
  <2>1. target \in Releases /\ deaths = 0 /\ prev # None
    BY <1>9 DEF Swap, LocalsAreSet
  <2>2. Current' = target /\ target' = None /\ Refusal' = Refusal
    BY <1>9, <2>1, FileAssumption DEF Swap, Current, Refusal
  <2>3. Proven
    BY <1>9, Shielded DEF Swap, AfterAnswer
  <2>4. CASE target \in {bin, prev}
    <3>1. Vouched' = Vouched \cup {target}
      BY <1>9, <2>4 DEF Swap, Vouched
    <3>2. Promise!Install
      BY <1>9, <2>1, <2>2, <2>3, <3>1, FileAssumption
      DEF Swap, Promise!Install, Promise!Settled, Promise!Proven, Proven
    <3> QED
      BY <3>2 DEF Promise!Next
  <2>5. CASE target \notin {bin, prev}
    <3>1. Vouched' = Vouched \ {target} /\ ~Proven'
      BY <1>9, <2>2, <2>5 DEF Swap, Vouched, Proven
    <3>2. prev \in Vouched' /\ prev' = prev /\ deaths' = 0
      BY <1>9, <2>1, <2>5, <3>1 DEF Swap, InsuranceInv, PrevIsVouched
    <3>3. Promise!Install
      BY <1>9, <2>1, <2>2, <2>3, <3>1, <3>2, FileAssumption
      DEF Swap, Promise!Install, Promise!Proven, Proven
    <3> QED
      BY <3>3 DEF Promise!Next
  <2> QED
    BY <2>4, <2>5
<1>10. CASE UndoSwap
  <2>1. Current' = Current /\ Vouched' = Vouched /\ Refusal' = Refusal
    BY <1>10 DEF UndoSwap, Current, Vouched, Refusal
  <2>2. Proven
    BY <1>10, Shielded DEF UndoSwap, AfterAnswer
  <2> QED
    BY <1>10, <2>1, <2>2, Unmoved DEF UndoSwap
<1> QED
  BY <1>1, <1>2, <1>3, <1>4, <1>5, <1>6, <1>7, <1>8, <1>9, <1>10 DEF Install

LEMMA PromiseRollBack ==
  ASSUME StateFilesHold, Known, RollBack
  PROVE  [Promise!Next]_(Promise!vars)
<1> USE DEF TypeInv, TypeOK, PathInv, PathLines, StartPathLeadsSomewhere,
    Known, SwapInv, Starting, Installing, GoTo, Die, disk, proc, hist
<1>1. CASE NothingToRestore
  BY <1>1, UnmovedFiles DEF NothingToRestore
<1>2. CASE Refuse
  <2>1. Current' = Current /\ Vouched' = Vouched /\ bin \in Vouched \cup {ver}
    BY <1>2 DEF Refuse, Current, Vouched, InsuranceInv, ImageMatchesFile, Alive
  <2>2. st.to = ver /\ ver \in Releases
    BY <1>2 DEF Refuse, RefusalInv, RollsBackItself, LocalsAreSet, Alive
  <2>3. Refusal' = ver
    BY <1>2, <2>2, FileAssumption DEF Refuse, RefusedVersion, Refusal
  <2>4. deaths >= MaxTrialCrashes
    BY <1>2 DEF Refuse, CountInv, OnlyCrashesCount, RollingBack
  <2>5. ~Proven => Current = ver
    BY <1>2, <2>1 DEF Refuse, Current, Proven
  <2>6. Promise!Refuse
    BY <1>2, <2>1, <2>2, <2>3, <2>4, <2>5
    DEF Refuse, Promise!Refuse, Promise!Proven, Proven
  <2> QED
    BY <2>6 DEF Promise!Next
<1>3. CASE Park
  <2>1. Current' = Current /\ Vouched' = Vouched
    BY <1>3 DEF Park, Current, Vouched
  <2> QED
    BY <1>3, <2>1, Unmoved DEF Park, Refusal
<1>4. CASE Restore
  <2>1. prev # None /\ target = None
    BY <1>4 DEF Restore
  <2>2. Current' = prev
    BY <1>4, <2>1 DEF Restore, Current
  <2> QED
    BY <1>4, <2>1, <2>2, GoesBack DEF Restore
<1>5. CASE CloseTrial
  BY <1>5, UnmovedFiles DEF CloseTrial
<1> QED
  BY <1>1, <1>2, <1>3, <1>4, <1>5 DEF RollBack

LEMMA PromiseFailures ==
  ASSUME StateFilesHold, Known, Failures
  PROVE  [Promise!Next]_(Promise!vars)
<1> USE DEF TypeInv, TypeOK, PathInv, PathLines, StartPathLeadsSomewhere,
    Known, SwapInv, Starting, Installing, GoTo, Die, disk, proc, hist
<1>1. CASE ArmFails
  BY <1>1 DEF ArmFails, Fault, StateFilesHold
<1>2. CASE EndFails
  BY <1>2 DEF EndFails, Fault, StateFilesHold
<1>3. CASE LinkFails
  BY <1>3 DEF LinkFails, Fault, StateFilesHold
<1>4. CASE OpenTrialFails
  BY <1>4 DEF OpenTrialFails, Fault, StateFilesHold
<1>5. CASE MoveAsideFails
  BY <1>5, UnmovedFiles DEF MoveAsideFails
<1>6. CASE SwapFails
  BY <1>6, UnmovedFiles DEF SwapFails, AfterSwapFails
<1>7. CASE UndoFails
  BY <1>7, UnmovedFiles DEF UndoFails
<1>8. CASE RefuseByRename
  BY <1>8 DEF RefuseByRename, Fault, StateFilesHold
<1>9. CASE RefuseFails
  BY <1>9 DEF RefuseFails, Fault, StateFilesHold
<1>10. CASE ParkFails
  BY <1>10, UnmovedFiles DEF ParkFails
<1>11. CASE RestoreFails
  <2>1. CASE ~Windows
    BY <1>11, <2>1, UnmovedFiles DEF RestoreFails
  <2>2. CASE Windows /\ bin' = parked /\ parked # None
    <3>1. Current' = Current
      BY <1>11, <2>2 DEF RestoreFails, Current
    <3>2. Vouched' = Vouched /\ Refusal' = Refusal
      BY <1>11 DEF RestoreFails, Vouched, Refusal
    <3> QED
      BY <1>11, <3>1, <3>2, Unmoved DEF RestoreFails
  <2>3. CASE Windows /\ bin' = None
    <3>1. Current' = prev
      BY <1>11, <2>3 DEF RestoreFails, Current
    <3> QED
      BY <1>11, <3>1, GoesBack DEF RestoreFails
  <2> QED
    BY <1>11, <2>1, <2>2, <2>3 DEF RestoreFails
<1>12. CASE Killed
  BY <1>12, Death DEF Killed
<1>13. CASE KilledMidWrite
  BY <1>13 DEF KilledMidWrite, Fault, StateFilesHold
<1> QED
  BY <1>1, <1>2, <1>3, <1>4, <1>5, <1>6, <1>7, <1>8, <1>9, <1>10, <1>11,
     <1>12, <1>13 DEF Failures

LEMMA PromiseStep ==
  ASSUME StateFilesHold, Known, [Next]_vars
  PROVE  [Promise!Next]_(Promise!vars)
<1>1. CASE System
  BY <1>1, PromiseWorld, PromiseGuard, PromiseFirstAnswer, PromiseInstall,
     PromiseRollBack DEF System
<1>2. CASE Failures
  BY <1>2, PromiseFailures
<1>3. CASE Operator
  BY <1>3, PromiseWorld
<1>4. ASSUME NEW v \in Releases \cup {None}, HubNames(v)
      PROVE  [Promise!Next]_(Promise!vars)
  <2>1. Promise!HubNames
    BY <1>4 DEF HubNames, Promise!HubNames, Current, Proven, Vouched,
       Refusal, disk, proc, hist
  <2> QED
    BY <2>1 DEF Promise!Next
<1>5. CASE UNCHANGED vars
  BY <1>5 DEF vars, Promise!vars, Current, Proven, Vouched, Refusal, disk,
       proc, hist
<1> QED
  BY <1>1, <1>2, <1>3, <1>4, <1>5 DEF Next

\* The self-update keeps its promise on both platforms, whatever is killed and
\* whichever rename is refused, as long as state files hold: an unproven binary
\* is left only through an answer, an operator, or enough failures, a refusal
\* and its fallback.
THEOREM PromiseAlwaysKept ==
  ASSUME StateFilesHold
  PROVE  Spec => PromiseKept
<1>1. TypeInv /\ PathInv /\ InsuranceInv /\ [Next]_vars => InsuranceInv'
  BY InsuranceStep
<1>2. TypeInv /\ RefusalInv /\ [Next]_vars => RefusalInv'
  BY RefusalStep DEF StateFilesHold
<1>3. TypeInv /\ CountInv /\ [Next]_vars => CountInv'
  BY CountStep DEF StateFilesHold
<1>4. TypeInv /\ PathInv /\ SwapInv /\ [Next]_vars => SwapInv'
  BY SwapStep
<1>5. TypeInv /\ PathInv /\ InsuranceInv /\ RefusalInv /\ CountInv /\ SwapInv
        /\ [Next]_vars => [Promise!Next]_(Promise!vars)
  BY PromiseStep DEF Known
<1> QED
  BY TypeInit, TypeStep, PathInit, PathStep, InsuranceInit, <1>1, RefusalInit,
     <1>2, CountInit, <1>3, SwapInit, <1>4, PromiseInit, <1>5, PTL
  DEF Spec, PromiseKept, Promise!Spec

=============================================================================
