----------------------------- MODULE MCUpdater -----------------------------
(***************************************************************************)
(* Instances of Updater for TLC. A is a sound release, B one that passes   *)
(* its self-check and crashes at every start, F one that crashes, wedges   *)
(* or works as it likes, U one that fails its self-check.                  *)
(***************************************************************************)
EXTENDS UpdaterRefinement, TLC

CONSTANTS A, B, F, U

FlakyReleases == {A, F, U}
FlakyQuality == A :> "sound" @@ F :> "flaky" @@ U :> "unrunnable"

BrokenReleases == {A, B}
BrokenQuality == A :> "sound" @@ B :> "broken"

PairReleases == {A, F}
PairQuality == A :> "sound" @@ F :> "flaky"
=============================================================================
