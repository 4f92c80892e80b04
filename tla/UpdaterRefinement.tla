------------------------- MODULE UpdaterRefinement -------------------------
(***************************************************************************)
(* Updater implements UpdatePromise.                                       *)
(***************************************************************************)
EXTENDS UpdaterInv

\* What the next start runs. With the path empty it is .prev, which
\* run-collector.cmd puts back, or, while a process is in the middle of a
\* Windows rollback and may still bring it back, the binary it has parked.
Current ==
  IF bin # None THEN bin
  ELSE IF pc = "restore" /\ parked # None THEN parked ELSE prev

Proven == Current \in Vouched

Promise == INSTANCE UpdatePromise WITH
  Limit <- MaxTrialCrashes,
  current <- Current,
  vouched <- Vouched,
  fallback <- IF Proven THEN None ELSE prev,
  failures <- IF Proven THEN 0 ELSE deaths,
  refused <- Refusal

\* The files, the five hands that touch them and every interleaving of them
\* keep the promise (updateTo, installBinary, guard, Proven, rollBack).
PromiseKept == Promise!Spec
=============================================================================
