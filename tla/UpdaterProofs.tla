---------------------------- MODULE UpdaterProofs ----------------------------
(***************************************************************************)
(* Theorems about Updater, for every set of releases, every fault budget,  *)
(* every trial limit, and both platforms.                                  *)
(***************************************************************************)
EXTENDS UpdaterInv, TLAPS

-----------------------------------------------------------------------------
\* Type correctness

LEMMA TypeInit == Init => TypeInv
<1> SUFFICES ASSUME Init PROVE TypeInv
  OBVIOUS
<1> USE DEF Init
<1>1. TypeOK
  <2>1. /\ bin \in Releases /\ answered \subseteq Releases
        /\ settled \subseteq Releases /\ chosen \subseteq Releases
    OBVIOUS
  <2>2. budget \in 0 .. MaxFaults /\ deaths \in 0 .. MaxTrialCrashes
    BY LimitAssumption
  <2>3. pc \in Steps /\ cause \in Causes
    BY DEF Steps, Causes
  <2> QED
    BY <2>1, <2>2, <2>3 DEF TypeOK
<1>2. CountsBelowLimit
  BY DEF CountsBelowLimit, IsTrial
<1>3. LocalsAreSet
  BY DEF LocalsAreSet, Alive, Installing
<1> QED
  BY <1>1, <1>2, <1>3 DEF TypeInv

\* Setting live, or counting one more crash, leaves a trial record.
LEMMA TrialRecords ==
  ASSUME NEW t \in Trials
  PROVE  /\ IsTrial(t)
         /\ t.to \in Releases /\ t.from \in Releases
         /\ t.crashes \in 0 .. MaxTrialCrashes /\ t.live \in BOOLEAN
         /\ \A b \in BOOLEAN :
              /\ [t EXCEPT !.live = b] \in Trials
              /\ [t EXCEPT !.live = b].crashes = t.crashes
              /\ [t EXCEPT !.live = b].to = t.to
BY FileAssumption DEF Trials, IsTrial

LEMMA CountedRecords ==
  ASSUME NEW t \in Trials, t.crashes < MaxTrialCrashes
  PROVE  CountStart(t) \in Trials /\ CountStart(t).to = t.to
BY LimitAssumption DEF Trials, CountStart

\* What is left of a process that died.
LEMMA DeadProcess ==
  ASSUME NEW c \in Causes, Die(c)
  PROVE  /\ pc' \in {"down", "stopped"} /\ cause' \in Causes
         /\ ver' = None /\ st' = None /\ target' = None
         /\ armed' = FALSE /\ fired' = FALSE
         /\ ~Alive'
BY DEF Die, Alive

LEMMA DeadUnchosen ==
  ASSUME TypeOK, NEW c \in Causes, DieUnchosen(c)
  PROVE  /\ Die(c) /\ deaths' \in 0 .. MaxTrialCrashes
         /\ UNCHANGED <<answered, settled, chosen, banned>>
BY LimitAssumption DEF DieUnchosen, TypeOK

\* A death that leaves the files typed leaves everything typed.
LEMMA TypeDeath ==
  ASSUME TypeInv, NEW c \in Causes, Die(c),
         /\ bin' \in Releases \cup {None} /\ prev' \in Releases \cup {None}
         /\ parked' \in Releases \cup {None}
         /\ refused' \in Releases \cup {None, Garbled},
         /\ trial' \in Trials \cup {None, Garbled}
         /\ IsTrial(trial') => trial'.crashes < MaxTrialCrashes,
         named' = named, budget' \in 0 .. MaxFaults,
         answered' \subseteq Releases, settled' \subseteq Releases,
         chosen' \subseteq Releases,
         deaths' \in 0 .. MaxTrialCrashes, banned' \in Releases \cup {None}
  PROVE  TypeInv'
<1>1. /\ pc' \in {"down", "stopped"} /\ cause' \in Causes
      /\ ver' = None /\ st' = None /\ target' = None
      /\ armed' = FALSE /\ fired' = FALSE /\ ~Alive'
  BY DeadProcess
<1>2. TypeOK'
  BY <1>1 DEF TypeInv, TypeOK, Steps
<1>3. CountsBelowLimit'
  BY <1>1 DEF CountsBelowLimit, IsTrial
<1>4. LocalsAreSet'
  BY <1>1 DEF LocalsAreSet, Installing
<1> QED
  BY <1>2, <1>3, <1>4 DEF TypeInv

\* One fault fewer is still a number of faults.
LEMMA FaultBudget ==
  ASSUME TypeOK, NEW k, Fault(k)
  PROVE  budget' \in 0 .. MaxFaults
BY LimitAssumption DEF TypeOK, Fault

LEMMA TypeGuard == TypeInv /\ Guard => TypeInv'
<1> SUFFICES ASSUME TypeInv, Guard PROVE TypeInv'
  OBVIOUS
<1> USE LimitAssumption, FileAssumption
    DEF TypeInv, TypeOK, CountsBelowLimit, LocalsAreSet, IsTrial, Alive,
        Steps, Installing, Trials, GoTo, Fault, disk, proc, hist
<1>1. CASE GuardFindsNoTrial
  BY <1>1 DEF GuardFindsNoTrial
<1>2. CASE GuardDiscardsTrial
  BY <1>2 DEF GuardDiscardsTrial
<1>3. CASE GuardResumesTrial
  <2>1. trial \in Trials /\ trial.crashes < MaxTrialCrashes
    BY <1>3 DEF GuardResumesTrial
  <2>2. st' \in Trials
    BY <1>3, <2>1, CountedRecords DEF GuardResumesTrial
  <2>3. pc' = "arm" => st'.crashes < MaxTrialCrashes
    BY <1>3, <2>2 DEF GuardResumesTrial, GivesUp
  <2> QED
    BY <1>3, <2>2, <2>3 DEF GuardResumesTrial, GivesUp
<1>4. CASE Arm
  <2>1. st \in Trials /\ st.crashes < MaxTrialCrashes
    BY <1>4 DEF Arm
  <2>2. st' \in Trials /\ st'.crashes < MaxTrialCrashes
    BY <1>4, <2>1, TrialRecords DEF Arm
  <2> QED
    BY <1>4, <2>2 DEF Arm
<1> QED
  BY <1>1, <1>2, <1>3, <1>4 DEF Guard

LEMMA TypeFirstAnswer == TypeInv /\ ToFirstAnswer => TypeInv'
<1> SUFFICES ASSUME TypeInv, ToFirstAnswer PROVE TypeInv'
  OBVIOUS
<1> USE LimitAssumption, FileAssumption
    DEF TypeInv, TypeOK, CountsBelowLimit, LocalsAreSet, IsTrial, Alive,
        Steps, Installing, Trials, GoTo, Fault, disk, proc, hist
<1>1. CASE DropPrev
  BY <1>1 DEF DropPrev, PrevDropped, AfterPrev
<1>2. CASE DropTrialFile
  BY <1>2 DEF DropTrialFile
<1>3. CASE HubAnswers
  <2>1. /\ ver \in Releases /\ answered' \subseteq Releases
        /\ settled' \subseteq Releases
    BY <1>3 DEF HubAnswers
  <2>2. prev' \in Releases \cup {None}
    BY <1>3 DEF HubAnswers
  <2>3. pc' \in {"proven_prev", "collect"} /\ st' = None /\ armed' = FALSE
        /\ UNCHANGED <<bin, parked, trial, refused, ver, fired, target, named,
                       budget, cause, chosen, deaths, banned>>
    BY <1>3 DEF HubAnswers
  <2>4. TypeOK'
    <3>1. /\ bin' \in Releases \cup {None} /\ prev' \in Releases \cup {None}
          /\ parked' \in Releases \cup {None}
          /\ trial' \in Trials \cup {None, Garbled}
          /\ refused' \in Releases \cup {None, Garbled}
      BY <2>2, <2>3
    <3>2. /\ pc' \in Steps /\ ver' \in Releases \cup {None}
          /\ st' \in Trials \cup {None} /\ armed' \in BOOLEAN
          /\ fired' \in BOOLEAN /\ target' \in Releases \cup {None}
      BY <2>3
    <3>3. /\ named' \in Releases \cup {None} /\ budget' \in 0 .. MaxFaults
          /\ cause' \in Causes
      BY <2>3
    <3>4. /\ answered' \subseteq Releases /\ settled' \subseteq Releases
          /\ chosen' \subseteq Releases
          /\ deaths' \in 0 .. MaxTrialCrashes
          /\ banned' \in Releases \cup {None}
      BY <2>1, <2>3
    <3> QED
      BY <3>1, <3>2, <3>3, <3>4
  <2>5. CountsBelowLimit'
    BY <2>3
  <2>6. LocalsAreSet'
    BY <2>1, <2>3
  <2> QED
    BY <2>4, <2>5, <2>6
<1>4. ASSUME NEW c \in {"clean", "config"}, DeliberateExit(c) PROVE TypeInv'
  <2>1. c \in Causes
    BY DEF Causes
  <2>2. CASE armed
    <3>1. /\ pc' = "end" /\ cause' = c /\ armed' = FALSE
          /\ UNCHANGED <<ver, st, fired, target, named, budget>>
          /\ UNCHANGED <<bin, prev, parked, trial, refused>>
          /\ UNCHANGED <<answered, settled, chosen, deaths, banned>>
      BY <1>4, <2>2 DEF DeliberateExit
    <3>2. ver \in Releases /\ st \in Trials /\ st.crashes < MaxTrialCrashes
      BY <1>4, <2>2 DEF DeliberateExit
    <3>3. TypeOK'
      <4>1. /\ bin' \in Releases \cup {None} /\ prev' \in Releases \cup {None}
            /\ parked' \in Releases \cup {None}
            /\ trial' \in Trials \cup {None, Garbled}
            /\ refused' \in Releases \cup {None, Garbled}
        BY <3>1
      <4>2. /\ pc' \in Steps /\ ver' \in Releases \cup {None}
            /\ st' \in Trials \cup {None} /\ armed' \in BOOLEAN
            /\ fired' \in BOOLEAN /\ target' \in Releases \cup {None}
        BY <3>1, <3>2
      <4>3. /\ named' \in Releases \cup {None} /\ budget' \in 0 .. MaxFaults
            /\ cause' \in Causes
        BY <2>1, <3>1
      <4>4. /\ answered' \subseteq Releases /\ settled' \subseteq Releases
            /\ chosen' \subseteq Releases
            /\ deaths' \in 0 .. MaxTrialCrashes
            /\ banned' \in Releases \cup {None}
        BY <3>1
      <4> QED
        BY <4>1, <4>2, <4>3, <4>4
    <3>4. CountsBelowLimit'
      BY <3>1, <3>2
    <3>5. LocalsAreSet'
      BY <3>1, <3>2
    <3> QED
      BY <3>3, <3>4, <3>5
  <2>3. CASE ~armed
    <3>1. Die(c)
      BY <1>4, <2>3 DEF DeliberateExit
    <3> QED
      BY <1>4, <2>1, <3>1, TypeDeath DEF DeliberateExit
  <2> QED
    BY <2>2, <2>3
<1>5. CASE EndRecords
  <2>1. cause \in Causes /\ Die(cause)
    BY <1>5 DEF EndRecords, Causes
  <2>2. trial' \in Trials /\ trial'.crashes < MaxTrialCrashes
    BY <1>5, TrialRecords DEF EndRecords, Ended
  <2> QED
    BY <1>5, <2>1, <2>2, TypeDeath DEF EndRecords
<1>6. CASE TimerReads
  BY <1>6 DEF TimerReads
<1>7. CASE TimerExits
  <2>1. "wedged" \in Causes /\ DieUnchosen("wedged")
    BY <1>7 DEF TimerExits, Causes
  <2>2. Die("wedged") /\ deaths' \in 0 .. MaxTrialCrashes
        /\ UNCHANGED <<answered, settled, chosen, banned>>
    BY <2>1, DeadUnchosen
  <2> QED
    BY <1>7, <2>1, <2>2, TypeDeath DEF TimerExits
<1>8. CASE Panics
  <2>1. PanicCause \in Causes /\ DieUnchosen(PanicCause)
    BY <1>8 DEF Panics, PanicCause, Causes
  <2>2. Die(PanicCause) /\ deaths' \in 0 .. MaxTrialCrashes
        /\ UNCHANGED <<answered, settled, chosen, banned>>
    BY <2>1, DeadUnchosen
  <2> QED
    BY <1>8, <2>1, <2>2, TypeDeath DEF Panics
<1> QED
  BY <1>1, <1>2, <1>3, <1>4, <1>5, <1>6, <1>7, <1>8 DEF ToFirstAnswer

LEMMA TypeInstall == TypeInv /\ Install => TypeInv'
<1> SUFFICES ASSUME TypeInv, Install PROVE TypeInv'
  OBVIOUS
<1> USE LimitAssumption, FileAssumption
    DEF TypeInv, TypeOK, CountsBelowLimit, LocalsAreSet, IsTrial, Alive,
        Steps, Installing, Trials, GoTo, Fault, disk, proc, hist
<1>1. CASE UpdateTo
  BY <1>1 DEF UpdateTo, Ignored, Refusal
<1>2. CASE DownloadFails
  BY <1>2 DEF DownloadFails
<1>3. CASE StageFails
  BY <1>3 DEF StageFails
<1>4. CASE StagePasses
  BY <1>4 DEF StagePasses
<1>5. CASE RemoveOldPrev
  BY <1>5 DEF RemoveOldPrev
<1>6. CASE LinkPrev
  BY <1>6 DEF LinkPrev
<1>7. CASE OpenTrial
  BY <1>7 DEF OpenTrial
<1>8. CASE MoveAside
  BY <1>8 DEF MoveAside
<1>9. CASE Swap
  <2>1. "update" \in Causes /\ Die("update")
    BY <1>9 DEF Swap, Causes
  <2> QED
    BY <1>9, <2>1, TypeDeath DEF Swap
<1>10. CASE UndoSwap
  BY <1>10 DEF UndoSwap
<1> QED
  BY <1>1, <1>2, <1>3, <1>4, <1>5, <1>6, <1>7, <1>8, <1>9, <1>10 DEF Install

LEMMA TypeRollBack == TypeInv /\ RollBack => TypeInv'
<1> SUFFICES ASSUME TypeInv, RollBack PROVE TypeInv'
  OBVIOUS
<1> USE LimitAssumption, FileAssumption
    DEF TypeInv, TypeOK, CountsBelowLimit, LocalsAreSet, IsTrial, Alive,
        Steps, Installing, Trials, GoTo, Fault, disk, proc, hist
<1>1. CASE NothingToRestore
  <2>1. "rollback" \in Causes /\ Die("rollback")
    BY <1>1 DEF NothingToRestore, Causes
  <2> QED
    BY <1>1, <2>1, TypeDeath DEF NothingToRestore
<1>2. CASE Refuse
  BY <1>2 DEF Refuse, RefusedVersion
<1>3. CASE Park
  BY <1>3 DEF Park
<1>4. CASE Restore
  BY <1>4 DEF Restore
<1>5. CASE CloseTrial
  <2>1. "rollback" \in Causes /\ Die("rollback")
    BY <1>5 DEF CloseTrial, Causes
  <2> QED
    BY <1>5, <2>1, TypeDeath DEF CloseTrial
<1> QED
  BY <1>1, <1>2, <1>3, <1>4, <1>5 DEF RollBack

LEMMA TypeFailures == TypeInv /\ Failures => TypeInv'
<1> SUFFICES ASSUME TypeInv, Failures PROVE TypeInv'
  OBVIOUS
<1> USE LimitAssumption, FileAssumption
    DEF TypeInv, TypeOK, CountsBelowLimit, LocalsAreSet, IsTrial, Alive,
        Steps, Installing, Trials, GoTo, Fault, disk, proc, hist
<1>1. CASE ArmFails
  <2>1. st \in Trials /\ st.crashes < MaxTrialCrashes
    BY <1>1 DEF ArmFails
  <2>2. st' \in Trials /\ st'.crashes < MaxTrialCrashes
    BY <1>1, <2>1, TrialRecords DEF ArmFails
  <2> QED
    BY <1>1, <2>2 DEF ArmFails
<1>2. CASE EndFails
  <2>1. cause \in Causes /\ Die(cause)
    BY <1>2 DEF EndFails, Causes
  <2> QED
    BY <1>2, <2>1, TypeDeath DEF EndFails
<1>3. CASE LinkFails
  BY <1>3 DEF LinkFails
<1>4. CASE OpenTrialFails
  BY <1>4 DEF OpenTrialFails
<1>5. CASE MoveAsideFails
  BY <1>5 DEF MoveAsideFails
<1>6. CASE SwapFails
  BY <1>6 DEF SwapFails, AfterSwapFails
<1>7. CASE UndoFails
  BY <1>7 DEF UndoFails
<1>8. CASE RefuseByRename
  BY <1>8 DEF RefuseByRename, RenamedRefusal
<1>9. CASE RefuseFails
  <2>1. "rollback" \in Causes /\ Die("rollback")
    BY <1>9 DEF RefuseFails, Causes
  <2> QED
    BY <1>9, <2>1, TypeDeath DEF RefuseFails
<1>10. CASE ParkFails
  <2>1. "rollback" \in Causes /\ Die("rollback")
    BY <1>10 DEF ParkFails, Causes
  <2> QED
    BY <1>10, <2>1, TypeDeath DEF ParkFails
<1>11. CASE RestoreFails
  <2>1. "rollback" \in Causes /\ Die("rollback")
    BY <1>11 DEF RestoreFails, Causes
  <2> QED
    BY <1>11, <2>1, TypeDeath DEF RestoreFails
<1>12. CASE Killed
  <2>1. "killed" \in Causes /\ DieUnchosen("killed")
    BY <1>12 DEF Killed, Causes
  <2>2. Die("killed") /\ deaths' \in 0 .. MaxTrialCrashes
        /\ UNCHANGED <<answered, settled, chosen, banned>>
    BY <2>1, DeadUnchosen
  <2> QED
    BY <1>12, <2>1, <2>2, TypeDeath DEF Killed
<1>13. CASE KilledMidWrite
  <2>1. "killed" \in Causes /\ DieUnchosen("killed")
    BY <1>13 DEF KilledMidWrite, Causes
  <2>2. Die("killed") /\ deaths' \in 0 .. MaxTrialCrashes
        /\ UNCHANGED <<answered, settled, chosen, banned>>
    BY <2>1, DeadUnchosen
  <2> QED
    BY <1>13, <2>1, <2>2, TypeDeath DEF KilledMidWrite
<1> QED
  BY <1>1, <1>2, <1>3, <1>4, <1>5, <1>6, <1>7, <1>8, <1>9, <1>10, <1>11, <1>12, <1>13 DEF Failures

LEMMA TypeWorld == TypeInv /\ (Operator \/ WrapperRestores \/ SupervisorStarts \/ CollectorExits) => TypeInv'
<1> SUFFICES ASSUME TypeInv, (Operator \/ WrapperRestores \/ SupervisorStarts \/ CollectorExits) PROVE TypeInv'
  OBVIOUS
<1> USE LimitAssumption, FileAssumption
    DEF TypeInv, TypeOK, CountsBelowLimit, LocalsAreSet, IsTrial, Alive,
        Steps, Installing, Trials, GoTo, Fault, disk, proc, hist
<1>1. CASE OperatorStarts
  BY <1>1 DEF OperatorStarts
<1>2. CASE OperatorForgives
  BY <1>2 DEF OperatorForgives
<1>3. ASSUME NEW v \in Releases, OperatorInstalls(v) PROVE TypeInv'
  BY <1>3 DEF OperatorInstalls
<1>4. CASE WrapperRestores
  BY <1>4 DEF WrapperRestores
<1>5. CASE SupervisorStarts
  BY <1>5 DEF SupervisorStarts
<1>6. CASE CollectorExits
  <2>1. "clean" \in Causes /\ Die("clean")
    BY <1>6 DEF CollectorExits, Causes
  <2> QED
    BY <1>6, <2>1, TypeDeath DEF CollectorExits
<1> QED
  BY <1>1, <1>2, <1>3, <1>4, <1>5, <1>6 DEF Operator

LEMMA TypeStep == TypeInv /\ [Next]_vars => TypeInv'
<1> SUFFICES ASSUME TypeInv, [Next]_vars PROVE TypeInv'
  OBVIOUS
<1>1. CASE System
  BY <1>1, TypeGuard, TypeFirstAnswer, TypeInstall, TypeRollBack, TypeWorld
  DEF System
<1>2. CASE Failures
  BY <1>2, TypeFailures
<1>3. CASE Operator
  BY <1>3, TypeWorld
<1>4. ASSUME NEW v \in Releases \cup {None}, HubNames(v) PROVE TypeInv'
  BY <1>4 DEF HubNames, TypeInv, TypeOK, CountsBelowLimit, LocalsAreSet,
              IsTrial, Alive, disk, proc, hist
<1>5. CASE UNCHANGED vars
  BY <1>5 DEF vars, TypeInv, TypeOK, CountsBelowLimit, LocalsAreSet,
              IsTrial, Alive, disk, proc, hist
<1> QED
  BY <1>1, <1>2, <1>3, <1>4, <1>5 DEF Next

\* Every variable keeps its type, whatever faults happen.
THEOREM TypeCorrect == Spec => []TypeOK
<1>1. TypeInv => TypeOK
  BY DEF TypeInv
<1> QED
  BY TypeInit, TypeStep, <1>1, PTL DEF Spec

-----------------------------------------------------------------------------
\* The start path

LEMMA PathInit == Init => PathInv
BY FileAssumption DEF Init, PathInv, StartPathLeadsSomewhere, PathLines,
   Starting

LEMMA PathStart == TypeInv /\ PathInv /\ (Guard \/ WrapperRestores \/ SupervisorStarts \/ CollectorExits) => PathInv'
<1> SUFFICES ASSUME TypeInv, PathInv, Guard \/ WrapperRestores \/ SupervisorStarts \/ CollectorExits PROVE PathInv'
  OBVIOUS
<1> USE FileAssumption
    DEF TypeInv, TypeOK, LocalsAreSet, PathInv, StartPathLeadsSomewhere,
        PathLines, Starting, Installing, Alive, GoTo, Die, DieUnchosen,
        disk, proc
<1>1. CASE GuardFindsNoTrial
  BY <1>1 DEF GuardFindsNoTrial
<1>2. CASE GuardDiscardsTrial
  BY <1>2 DEF GuardDiscardsTrial
<1>3. CASE GuardResumesTrial
  BY <1>3 DEF GuardResumesTrial, GivesUp
<1>4. CASE Arm
  BY <1>4 DEF Arm
<1>5. CASE WrapperRestores
  BY <1>5 DEF WrapperRestores
<1>6. CASE SupervisorStarts
  BY <1>6 DEF SupervisorStarts
<1>7. CASE CollectorExits
  BY <1>7 DEF CollectorExits
<1> QED
  BY <1>1, <1>2, <1>3, <1>4, <1>5, <1>6, <1>7 DEF Guard

LEMMA PathFirstAnswer == TypeInv /\ PathInv /\ ToFirstAnswer => PathInv'
<1> SUFFICES ASSUME TypeInv, PathInv, ToFirstAnswer PROVE PathInv'
  OBVIOUS
<1> USE FileAssumption
    DEF TypeInv, TypeOK, LocalsAreSet, PathInv, StartPathLeadsSomewhere,
        PathLines, Starting, Installing, Alive, GoTo, Die, DieUnchosen,
        disk, proc
<1>1. CASE DropPrev
  BY <1>1 DEF DropPrev, PrevDropped, AfterPrev
<1>2. CASE DropTrialFile
  BY <1>2 DEF DropTrialFile
<1>3. CASE HubAnswers
  BY <1>3 DEF HubAnswers
<1>4. ASSUME NEW c \in {"clean", "config"}, DeliberateExit(c) PROVE PathInv'
  BY <1>4 DEF DeliberateExit
<1>5. CASE EndRecords
  BY <1>5 DEF EndRecords
<1>6. CASE TimerReads
  BY <1>6 DEF TimerReads
<1>7. CASE TimerExits
  BY <1>7 DEF TimerExits
<1>8. CASE Panics
  BY <1>8 DEF Panics
<1> QED
  BY <1>1, <1>2, <1>3, <1>4, <1>5, <1>6, <1>7, <1>8 DEF ToFirstAnswer

LEMMA PathInstall == TypeInv /\ PathInv /\ Install => PathInv'
<1> SUFFICES ASSUME TypeInv, PathInv, Install PROVE PathInv'
  OBVIOUS
<1> USE FileAssumption
    DEF TypeInv, TypeOK, LocalsAreSet, PathInv, StartPathLeadsSomewhere,
        PathLines, Starting, Installing, Alive, GoTo, Die, DieUnchosen,
        disk, proc
<1>1. CASE UpdateTo
  BY <1>1 DEF UpdateTo
<1>2. CASE DownloadFails
  BY <1>2 DEF DownloadFails
<1>3. CASE StageFails
  BY <1>3 DEF StageFails
<1>4. CASE StagePasses
  BY <1>4 DEF StagePasses
<1>5. CASE RemoveOldPrev
  BY <1>5 DEF RemoveOldPrev
<1>6. CASE LinkPrev
  BY <1>6 DEF LinkPrev
<1>7. CASE OpenTrial
  BY <1>7 DEF OpenTrial
<1>8. CASE MoveAside
  BY <1>8 DEF MoveAside
<1>9. CASE Swap
  BY <1>9 DEF Swap
<1>10. CASE UndoSwap
  BY <1>10 DEF UndoSwap
<1> QED
  BY <1>1, <1>2, <1>3, <1>4, <1>5, <1>6, <1>7, <1>8, <1>9, <1>10 DEF Install

LEMMA PathRollBack == TypeInv /\ PathInv /\ RollBack => PathInv'
<1> SUFFICES ASSUME TypeInv, PathInv, RollBack PROVE PathInv'
  OBVIOUS
<1> USE FileAssumption
    DEF TypeInv, TypeOK, LocalsAreSet, PathInv, StartPathLeadsSomewhere,
        PathLines, Starting, Installing, Alive, GoTo, Die, DieUnchosen,
        disk, proc
<1>1. CASE NothingToRestore
  BY <1>1 DEF NothingToRestore
<1>2. CASE Refuse
  BY <1>2 DEF Refuse
<1>3. CASE Park
  BY <1>3 DEF Park
<1>4. CASE Restore
  BY <1>4 DEF Restore
<1>5. CASE CloseTrial
  BY <1>5 DEF CloseTrial
<1> QED
  BY <1>1, <1>2, <1>3, <1>4, <1>5 DEF RollBack

LEMMA PathFailures == TypeInv /\ PathInv /\ Failures => PathInv'
<1> SUFFICES ASSUME TypeInv, PathInv, Failures PROVE PathInv'
  OBVIOUS
<1> USE FileAssumption
    DEF TypeInv, TypeOK, LocalsAreSet, PathInv, StartPathLeadsSomewhere,
        PathLines, Starting, Installing, Alive, GoTo, Die, DieUnchosen,
        disk, proc
<1>1. CASE ArmFails
  BY <1>1 DEF ArmFails
<1>2. CASE EndFails
  BY <1>2 DEF EndFails
<1>3. CASE LinkFails
  BY <1>3 DEF LinkFails
<1>4. CASE OpenTrialFails
  BY <1>4 DEF OpenTrialFails
<1>5. CASE MoveAsideFails
  BY <1>5 DEF MoveAsideFails
<1>6. CASE SwapFails
  BY <1>6 DEF SwapFails, AfterSwapFails
<1>7. CASE UndoFails
  BY <1>7 DEF UndoFails
<1>8. CASE RefuseByRename
  BY <1>8 DEF RefuseByRename
<1>9. CASE RefuseFails
  BY <1>9 DEF RefuseFails
<1>10. CASE ParkFails
  BY <1>10 DEF ParkFails
<1>11. CASE RestoreFails
  BY <1>11 DEF RestoreFails
<1>12. CASE Killed
  BY <1>12 DEF Killed
<1>13. CASE KilledMidWrite
  BY <1>13 DEF KilledMidWrite
<1> QED
  BY <1>1, <1>2, <1>3, <1>4, <1>5, <1>6, <1>7, <1>8, <1>9, <1>10, <1>11, <1>12, <1>13 DEF Failures

LEMMA PathOperator == TypeInv /\ PathInv /\ Operator => PathInv'
<1> SUFFICES ASSUME TypeInv, PathInv, Operator PROVE PathInv'
  OBVIOUS
<1> USE FileAssumption
    DEF TypeInv, TypeOK, LocalsAreSet, PathInv, StartPathLeadsSomewhere,
        PathLines, Starting, Installing, Alive, GoTo, Die, DieUnchosen,
        disk, proc
<1>1. CASE OperatorStarts
  BY <1>1 DEF OperatorStarts
<1>2. CASE OperatorForgives
  BY <1>2 DEF OperatorForgives
<1>3. ASSUME NEW v \in Releases, OperatorInstalls(v) PROVE PathInv'
  BY <1>3 DEF OperatorInstalls
<1> QED
  BY <1>1, <1>2, <1>3 DEF Operator

LEMMA PathStep == TypeInv /\ PathInv /\ [Next]_vars => PathInv'
<1> SUFFICES ASSUME TypeInv, PathInv, [Next]_vars PROVE PathInv'
  OBVIOUS
<1>1. CASE System
  BY <1>1, PathStart, PathFirstAnswer, PathInstall, PathRollBack DEF System
<1>2. CASE Failures
  BY <1>2, PathFailures
<1>3. CASE Operator
  BY <1>3, PathOperator
<1>4. ASSUME NEW v \in Releases \cup {None}, HubNames(v) PROVE PathInv'
  BY <1>4 DEF HubNames, PathInv, StartPathLeadsSomewhere, PathLines, disk, proc
<1>5. CASE UNCHANGED vars
  BY <1>5 DEF vars, PathInv, StartPathLeadsSomewhere, PathLines, disk, proc
<1> QED
  BY <1>1, <1>2, <1>3, <1>4, <1>5 DEF Next

\* On both platforms, under every kind of fault, the path the supervisor
\* starts leads to a binary.
THEOREM StartPathSafe == Spec => []StartPathLeadsSomewhere
<1>1. PathInv => StartPathLeadsSomewhere
  BY DEF PathInv
<1> QED
  BY TypeInit, TypeStep, PathInit, PathStep, <1>1, PTL DEF Spec

-----------------------------------------------------------------------------
\* The insurance of an unproven binary

LEMMA InsuranceInit == Init => InsuranceInv
BY FileAssumption DEF Init, InsuranceInv, UnprovenIsInsured, ImageMatchesFile,
   PrevIsVouched, NothingAtStake, TrialIsOurs, Vouched, Alive, AfterAnswer,
   Installing

LEMMA InsuranceStart ==
  ASSUME TypeInv, PathInv, InsuranceInv, Guard \/ WrapperRestores \/ SupervisorStarts \/ CollectorExits
  PROVE  InsuranceInv'
<1> USE FileAssumption
    DEF TypeInv, TypeOK, LocalsAreSet, PathInv, StartPathLeadsSomewhere,
        PathLines, Starting, Installing, AfterAnswer, Alive, IsTrial, GoTo,
        Die, DieUnchosen, Vouched, InsuranceInv, UnprovenIsInsured,
        ImageMatchesFile, PrevIsVouched, NothingAtStake, TrialIsOurs,
        disk, proc, hist
<1>1. CASE GuardFindsNoTrial
  BY <1>1 DEF GuardFindsNoTrial
<1>2. CASE GuardDiscardsTrial
  BY <1>2 DEF GuardDiscardsTrial, Stale
<1>3. CASE GuardResumesTrial
  BY <1>3 DEF GuardResumesTrial, GivesUp, CountStart, Stale, Trials
<1>4. CASE Arm
  BY <1>4 DEF Arm, Trials
<1>5. CASE WrapperRestores
  BY <1>5 DEF WrapperRestores
<1>6. CASE SupervisorStarts
  BY <1>6 DEF SupervisorStarts
<1>7. CASE CollectorExits
  BY <1>7 DEF CollectorExits
<1> QED
  BY <1>1, <1>2, <1>3, <1>4, <1>5, <1>6, <1>7 DEF Guard

LEMMA InsuranceFirstAnswer ==
  ASSUME TypeInv, PathInv, InsuranceInv, ToFirstAnswer
  PROVE  InsuranceInv'
<1> USE FileAssumption
    DEF TypeInv, TypeOK, LocalsAreSet, PathInv, StartPathLeadsSomewhere,
        PathLines, Starting, Installing, AfterAnswer, Alive, IsTrial, GoTo,
        Die, DieUnchosen, Vouched, InsuranceInv, UnprovenIsInsured,
        ImageMatchesFile, PrevIsVouched, NothingAtStake, TrialIsOurs,
        disk, proc, hist
<1>1. CASE DropPrev
  BY <1>1 DEF DropPrev, PrevDropped, AfterPrev
<1>2. CASE DropTrialFile
  BY <1>2 DEF DropTrialFile
<1>3. CASE HubAnswers
  BY <1>3 DEF HubAnswers
<1>4. ASSUME NEW c \in {"clean", "config"}, DeliberateExit(c) PROVE InsuranceInv'
  BY <1>4 DEF DeliberateExit
<1>5. CASE EndRecords
  BY <1>5 DEF EndRecords, Ended, Trials
<1>6. CASE TimerReads
  BY <1>6 DEF TimerReads
<1>7. CASE TimerExits
  BY <1>7 DEF TimerExits
<1>8. CASE Panics
  BY <1>8 DEF Panics
<1> QED
  BY <1>1, <1>2, <1>3, <1>4, <1>5, <1>6, <1>7, <1>8 DEF ToFirstAnswer

LEMMA InsuranceInstall ==
  ASSUME TypeInv, PathInv, InsuranceInv, Install
  PROVE  InsuranceInv'
<1> USE FileAssumption
    DEF TypeInv, TypeOK, LocalsAreSet, PathInv, StartPathLeadsSomewhere,
        PathLines, Starting, Installing, AfterAnswer, Alive, IsTrial, GoTo,
        Die, DieUnchosen, Vouched, InsuranceInv, UnprovenIsInsured,
        ImageMatchesFile, PrevIsVouched, NothingAtStake, TrialIsOurs,
        disk, proc, hist
<1>1. CASE UpdateTo
  BY <1>1 DEF UpdateTo, Ignored
<1>2. CASE DownloadFails
  BY <1>2 DEF DownloadFails
<1>3. CASE StageFails
  BY <1>3 DEF StageFails
<1>4. CASE StagePasses
  BY <1>4 DEF StagePasses
<1>5. CASE RemoveOldPrev
  BY <1>5 DEF RemoveOldPrev
<1>6. CASE LinkPrev
  BY <1>6 DEF LinkPrev
<1>7. CASE OpenTrial
  <2>1. trial' \in Trials
    BY <1>7, LimitAssumption DEF OpenTrial, Trials
  <2>2. trial'.to = target
    BY <1>7 DEF OpenTrial
  <2> QED
    BY <1>7, <2>1, <2>2 DEF OpenTrial
<1>8. CASE MoveAside
  BY <1>8 DEF MoveAside
<1>9. CASE Swap
  BY <1>9 DEF Swap
<1>10. CASE UndoSwap
  BY <1>10 DEF UndoSwap
<1> QED
  BY <1>1, <1>2, <1>3, <1>4, <1>5, <1>6, <1>7, <1>8, <1>9, <1>10 DEF Install

LEMMA InsuranceRollBack ==
  ASSUME TypeInv, PathInv, InsuranceInv, RollBack
  PROVE  InsuranceInv'
<1> USE FileAssumption
    DEF TypeInv, TypeOK, LocalsAreSet, PathInv, StartPathLeadsSomewhere,
        PathLines, Starting, Installing, AfterAnswer, Alive, IsTrial, GoTo,
        Die, DieUnchosen, Vouched, InsuranceInv, UnprovenIsInsured,
        ImageMatchesFile, PrevIsVouched, NothingAtStake, TrialIsOurs,
        disk, proc, hist
<1>1. CASE NothingToRestore
  BY <1>1 DEF NothingToRestore
<1>2. CASE Refuse
  BY <1>2 DEF Refuse
<1>3. CASE Park
  BY <1>3 DEF Park
<1>4. CASE Restore
  BY <1>4 DEF Restore
<1>5. CASE CloseTrial
  BY <1>5 DEF CloseTrial
<1> QED
  BY <1>1, <1>2, <1>3, <1>4, <1>5 DEF RollBack

LEMMA InsuranceFailures ==
  ASSUME StateFilesHold, TypeInv, PathInv, InsuranceInv, Failures
  PROVE  InsuranceInv'
<1> USE FileAssumption
    DEF TypeInv, TypeOK, LocalsAreSet, PathInv, StartPathLeadsSomewhere,
        PathLines, Starting, Installing, AfterAnswer, Alive, IsTrial, GoTo,
        Die, DieUnchosen, Vouched, InsuranceInv, UnprovenIsInsured,
        ImageMatchesFile, PrevIsVouched, NothingAtStake, TrialIsOurs,
        disk, proc, hist
<1>1. CASE MoveAsideFails
  BY <1>1 DEF MoveAsideFails
<1>2. CASE SwapFails
  BY <1>2 DEF SwapFails, AfterSwapFails
<1>3. CASE UndoFails
  BY <1>3 DEF UndoFails
<1>4. CASE ParkFails
  BY <1>4 DEF ParkFails
<1>5. CASE RestoreFails
  BY <1>5 DEF RestoreFails
<1>6. CASE Killed
  BY <1>6 DEF Killed
<1>7. ~\E k \in {"full", "torn"} : Fault(k)
  BY DEF Fault, StateFilesHold
<1> QED
  BY <1>1, <1>2, <1>3, <1>4, <1>5, <1>6, <1>7 DEF Failures, ArmFails, EndFails, LinkFails, OpenTrialFails,
     RefuseByRename, RefuseFails, KilledMidWrite

LEMMA InsuranceOperator ==
  ASSUME TypeInv, PathInv, InsuranceInv, Operator
  PROVE  InsuranceInv'
<1> USE FileAssumption
    DEF TypeInv, TypeOK, LocalsAreSet, PathInv, StartPathLeadsSomewhere,
        PathLines, Starting, Installing, AfterAnswer, Alive, IsTrial, GoTo,
        Die, DieUnchosen, Vouched, InsuranceInv, UnprovenIsInsured,
        ImageMatchesFile, PrevIsVouched, NothingAtStake, TrialIsOurs,
        disk, proc, hist
<1>1. CASE OperatorStarts
  BY <1>1 DEF OperatorStarts
<1>2. CASE OperatorForgives
  BY <1>2 DEF OperatorForgives
<1>3. ASSUME NEW v \in Releases, OperatorInstalls(v) PROVE InsuranceInv'
  BY <1>3 DEF OperatorInstalls
<1> QED
  BY <1>1, <1>2, <1>3 DEF Operator

LEMMA InsuranceStep ==
  ASSUME StateFilesHold
  PROVE  TypeInv /\ PathInv /\ InsuranceInv /\ [Next]_vars => InsuranceInv'
<1> SUFFICES ASSUME TypeInv, PathInv, InsuranceInv, [Next]_vars
             PROVE  InsuranceInv'
  OBVIOUS
<1> USE DEF InsuranceInv, UnprovenIsInsured, ImageMatchesFile, PrevIsVouched,
            NothingAtStake, TrialIsOurs, Vouched, Alive, disk, proc, hist
<1>1. CASE System
  BY <1>1, InsuranceStart, InsuranceFirstAnswer, InsuranceInstall,
     InsuranceRollBack DEF System
<1>2. CASE Failures
  BY <1>2, InsuranceFailures
<1>3. CASE Operator
  BY <1>3, InsuranceOperator
<1>4. ASSUME NEW v \in Releases \cup {None}, HubNames(v) PROVE InsuranceInv'
  BY <1>4 DEF HubNames
<1>5. CASE UNCHANGED vars
  BY <1>5 DEF vars
<1> QED
  BY <1>1, <1>2, <1>3, <1>4, <1>5 DEF Next

\* As long as state files can be written, a binary that the hub has not
\* answered and no operator chose always has its way back beside it.
THEOREM UnprovenAlwaysInsured ==
  ASSUME StateFilesHold
  PROVE  Spec => []UnprovenIsInsured
<1>1. TypeInv /\ PathInv /\ InsuranceInv /\ [Next]_vars => InsuranceInv'
  BY InsuranceStep
<1>2. InsuranceInv => UnprovenIsInsured
  BY DEF InsuranceInv
<1> QED
  BY TypeInit, TypeStep, PathInit, PathStep, InsuranceInit, <1>1, <1>2, PTL
  DEF Spec

==============================================================================
