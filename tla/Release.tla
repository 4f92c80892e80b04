------------------------------ MODULE Release ------------------------------
(***************************************************************************)
(* How a release gets from main to a collector: release.yml and            *)
(* sign-release.yml publish and sign, scripts/next-version.sh numbers, the *)
(* hub names, and applyUpdate (internal/v2/v2.go) checks with trust.go     *)
(* what it downloads, one file after the other, before it installs it.     *)
(* The rotation of the key is SECURITY.md's procedure.                     *)
(*                                                                         *)
(* A version is a series (major.minor) and a patch. The bytes of a binary, *)
(* and their sha256, are the version that was built into them. What        *)
(* happens from the swap on is Updater's.                                  *)
(***************************************************************************)
EXTENDS Integers, FiniteSets

CONSTANTS
  Collectors,
  Slots,        \* workflows of concurrency group "release" there can be
  MaxKey,       \* signing keys, 1 the first one: the bound of rotations
  Series,       \* series main can build
  MaxPatch,     \* bound: patches in a series
  Legacy,       \* the releases from before signing
  FirstFloor,   \* the first installFloor
  Floors,       \* bound: the releases it may be raised to
  MaxReleases,  \* bound: releases
  MaxMistakes,  \* bound: files and rows mixed up by hand
  None          \* no version, no key, no file

Keys == 1 .. MaxKey
Versions == Series \X (0 .. MaxPatch)

\* SHA256SUMS: the hash of the platform's binary, and the version its VERSION
\* line names, if it has one. SHA256SUMS.sig: by which key, over what.
SumsFiles == [bin : Versions, names : Versions \cup {None}]
SigFiles == [key : Keys, over : SumsFiles]
Rows == [version : Versions, sha : Versions, at : Versions]

ASSUME KeyAssumption == MaxKey \in Nat \ {0}
ASSUME VersionAssumption ==
  /\ Series \subseteq Nat /\ MaxPatch \in Nat /\ MaxReleases \in Nat
  /\ Legacy \subseteq Versions /\ IsFiniteSet(Legacy) /\ FirstFloor \in Legacy
  /\ MaxMistakes \in Nat
ASSUME NoneAssumption ==
  None \notin Versions \cup Keys \cup SumsFiles \cup SigFiles \cup Rows

VARIABLES
  source,    \* main: the keys and the floor a build carries
  secret,    \* COLLECTOR_SIGNING_KEY
  tags,      \* the releases there are
  builds,    \* the keys and the floor each release carries
  page,      \* its assets: binary, SHA256SUMS and .sig, and VERSION (marked)
  jobs,      \* the workflows that run
  named,     \* the hub's row: version, sha256 and the release its URL is in
  runs,      \* the release each collector runs
  upd,       \* its applyUpdate: the step, its row, the SHA256SUMS it read
  signedBy,  \* history: the key each release was signed with
  mistakes   \* mix-ups left

main == <<source, secret>>
github == <<tags, builds, page, signedBy>>
fleet == <<runs, upd>>
vars == <<main, github, jobs, named, fleet, mistakes>>

Resting == [step |-> "rests", version |-> None, keys |-> {},
            floor |-> FirstFloor, sums |-> None, key |-> None]
Waiting == [step |-> "waits", row |-> None, sums |-> None]

Init ==
  /\ source = [keys |-> {1}, floor |-> FirstFloor] /\ secret = 1
  /\ tags = Legacy
  /\ builds = [v \in Versions |-> [keys |-> {}, floor |-> FirstFloor]]
  /\ page = [v \in Versions |-> [bin |-> v, sums |-> [bin |-> v, names |-> None],
                                 sig |-> None, marked |-> FALSE]]
  /\ jobs = [j \in Slots |-> Resting] /\ named = None
  /\ runs \in [Collectors -> Legacy] /\ upd = [c \in Collectors |-> Waiting]
  /\ signedBy = [v \in Versions |-> None] /\ mistakes = MaxMistakes

-----------------------------------------------------------------------------
\* Versions

\* compareVersions, and above of the script.
Above(v, w) == v[1] > w[1] \/ (v[1] = w[1] /\ v[2] > w[2])
AtLeast(v, w) == v = w \/ Above(v, w)

\* The next patch of a series: the first above every one in use.
IsNextPatch(p, s) ==
  /\ \A v \in tags : v[1] = s => p > v[2]
  /\ p = 0 \/ <<s, p - 1>> \in tags

-----------------------------------------------------------------------------
\* main, and the rotation of the key

\* Beside the old key, and not the secret yet.
AddKey ==
  /\ source.keys = {secret} /\ secret < MaxKey
  /\ source' = [source EXCEPT !.keys = @ \cup {secret + 1}]
  /\ UNCHANGED <<secret, github, jobs, named, fleet, mistakes>>

\* "Wait until the fleet runs it", then replace the secret.
FleetTrusts_NotAwaited(k) == TRUE
FleetTrusts(k) == \A c \in Collectors : k \in builds[runs[c]].keys

ReplaceSecret ==
  /\ \E k \in source.keys : k > secret /\ FleetTrusts(k) /\ secret' = k
  /\ UNCHANGED <<source, github, jobs, named, fleet, mistakes>>

RemoveOldKey ==
  /\ \E k \in source.keys : k < secret
  /\ source' = [source EXCEPT !.keys = {secret}]
  /\ UNCHANGED <<secret, github, jobs, named, fleet, mistakes>>

RaiseFloor ==
  /\ \E v \in tags \cap Floors : /\ Above(v, source.floor)
                                /\ source' = [source EXCEPT !.floor = v]
  /\ UNCHANGED <<secret, github, jobs, named, fleet, mistakes>>

-----------------------------------------------------------------------------
\* release.yml and sign-release.yml

\* "One release at a time, never cancelled half-published."
Admitted_Ungrouped(j) == jobs[j] = Resting
Admitted(j) == \A k \in Slots : jobs[k] = Resting

\* A push to main is checked out, numbered and built. A job is handed the
\* environment's secret when it starts.
StartRelease(j) ==
  /\ Admitted(j) /\ Cardinality(tags \ Legacy) < MaxReleases
  /\ \E s \in Series, p \in 0 .. MaxPatch :
       /\ IsNextPatch(p, s)
       /\ \A w \in tags : Above(<<s, p>>, w)
       /\ jobs' = [jobs EXCEPT ![j] =
            [step |-> "built", version |-> <<s, p>>, keys |-> source.keys,
             floor |-> source.floor, sums |-> None, key |-> secret]]
  /\ UNCHANGED <<main, github, named, fleet, mistakes>>

Signed(v) == [bin |-> v, names |-> v]

\* It is signed with that secret, whatever it is by now, verified with the keys
\* just built in, and published; gh takes no tag twice.
FinishRelease(j) ==
  LET v == jobs[j].version
      key == jobs[j].key
  IN
  /\ jobs[j].step = "built" /\ v \notin tags /\ key \in jobs[j].keys
  /\ tags' = tags \cup {v}
  /\ builds' = [builds EXCEPT ![v] =
                  [keys |-> jobs[j].keys, floor |-> jobs[j].floor]]
  /\ page' = [page EXCEPT ![v] =
       [bin |-> v, sums |-> Signed(v),
        sig |-> [key |-> key, over |-> Signed(v)], marked |-> TRUE]]
  /\ signedBy' = [signedBy EXCEPT ![v] = key]
  /\ jobs' = [jobs EXCEPT ![j] = Resting]
  /\ UNCHANGED <<main, named, fleet, mistakes>>

\* What sign-release appends to SHA256SUMS before it signs it.
WithVersion_Forgotten(sums, v) == sums
WithVersion(sums, v) == [sums EXCEPT !.names = v]

\* It signs a release that has neither a signature nor a VERSION line, and
\* whose SHA256SUMS is its own.
StartSigning(j, v) ==
  /\ Admitted(j) /\ v \in tags
  /\ page[v].sig = None /\ page[v].sums # None
  /\ page[v].sums.names = None /\ page[v].sums.bin = page[v].bin
  /\ secret \in source.keys
  /\ jobs' = [jobs EXCEPT ![j] =
       [Resting EXCEPT !.step = "mark", !.version = v, !.key = secret,
                       !.sums = WithVersion(page[v].sums, v)]]
  /\ UNCHANGED <<main, github, named, fleet, mistakes>>

\* One upload: gh adds an asset once; --clobber deletes and adds.
Uploads(j, from, to, new) ==
  /\ jobs[j].step = from
  /\ page' = [page EXCEPT ![jobs[j].version] = new]
  /\ jobs' = [jobs EXCEPT ![j] = IF to = "rests" THEN Resting
                                 ELSE [@ EXCEPT !.step = to]]
  /\ UNCHANGED <<main, tags, builds, named, fleet, mistakes>>

PutVersion(j) ==
  LET p == page[jobs[j].version] IN
  /\ jobs[j].step = "mark" /\ ~p.marked
  /\ Uploads(j, "mark", "clear", [p EXCEPT !.marked = TRUE])
  /\ UNCHANGED signedBy

DeleteSums(j) ==
  /\ Uploads(j, "clear", "sum", [page[jobs[j].version] EXCEPT !.sums = None])
  /\ UNCHANGED signedBy

PutSums(j) ==
  /\ Uploads(j, "sum", "sign",
             [page[jobs[j].version] EXCEPT !.sums = jobs[j].sums])
  /\ UNCHANGED signedBy

\* The signature, over the SHA256SUMS the job made, goes last.
PutSig(j) ==
  LET v == jobs[j].version
      key == jobs[j].key
  IN
  /\ jobs[j].step = "sign" /\ page[v].sig = None
  /\ Uploads(j, "sign", "rests",
             [page[v] EXCEPT !.sig = [key |-> key, over |-> jobs[j].sums]])
  /\ signedBy' = [signedBy EXCEPT ![v] = key]

\* A step fails, or a runner is lost.
JobFails(j) ==
  /\ jobs[j] # Resting
  /\ jobs' = [jobs EXCEPT ![j] = Resting]
  /\ UNCHANGED <<main, github, named, fleet, mistakes>>

-----------------------------------------------------------------------------
\* The hub, and what goes wrong by hand

HubNames ==
  /\ \E v \in tags : named' = [version |-> v, sha |-> page[v].bin, at |-> v]
  /\ UNCHANGED <<main, github, jobs, fleet, mistakes>>

Mistaken == mistakes > 0 /\ mistakes' = mistakes - 1

\* A row with the hash or the URL of another release.
MixedRow ==
  /\ Mistaken
  /\ \E v, w \in tags :
       /\ v # w
       /\ \/ named' = [version |-> v, sha |-> w, at |-> v]
          \/ named' = [version |-> v, sha |-> v, at |-> w]
  /\ UNCHANGED <<main, github, jobs, fleet>>

\* A binary, or a signed release's SHA256SUMS with its signature, or all of
\* them, end up on another release's page.
MixedPage ==
  /\ Mistaken
  /\ \E v, w \in tags :
       /\ v # w
       /\ \/ page' = [page EXCEPT ![v].bin = w]
          \/ /\ signedBy[w] # None
             /\ \E b \in {page[v].bin, page[w].bin} :
                  page' = [page EXCEPT ![v] =
                    [page[w] EXCEPT !.bin = b, !.marked = page[v].marked]]
  /\ UNCHANGED <<main, tags, builds, signedBy, jobs, named, fleet>>

-----------------------------------------------------------------------------
\* A collector's applyUpdate

Verifying(c) == runs[c] \notin Legacy

\* The floor of the binary that runs, and the URL of the version named. A
\* release from before signing checks the hash alone.
Acceptable(c, row) ==
  row.at = row.version /\ AtLeast(row.version, builds[runs[c]].floor)

LooksAtNamed(c) ==
  /\ upd[c].step = "waits" /\ named # None /\ named.version # runs[c]
  /\ Verifying(c) => Acceptable(c, named)
  /\ upd' = [upd EXCEPT ![c] =
       [Waiting EXCEPT !.step = IF Verifying(c) THEN "sums" ELSE "binary",
                       !.row = named]]
  /\ UNCHANGED <<main, github, jobs, named, runs, mistakes>>

\* download wants a 200.
Downloaded_AnyStatus(file) == TRUE
Downloaded(file) == file # None

ReadsSums(c) ==
  LET p == page[upd[c].row.at] IN
  /\ upd[c].step = "sums" /\ Downloaded(p.sums)
  /\ upd' = [upd EXCEPT ![c].step = "sig", ![c].sums = p.sums]
  /\ UNCHANGED <<main, github, jobs, named, runs, mistakes>>

\* verifyRelease: a trusted key, over these bytes, for this version and hash.
Verified_AnyVersion(c, sums, sig, row) ==
  /\ sig.key \in builds[runs[c]].keys /\ sig.over = sums
  /\ sums.names # None /\ sums.bin = row.sha
Verified(c, sums, sig, row) ==
  /\ sig.key \in builds[runs[c]].keys /\ sig.over = sums
  /\ sums.names = row.version /\ sums.bin = row.sha

ReadsSig(c) ==
  LET sig == page[upd[c].row.at].sig IN
  /\ upd[c].step = "sig" /\ sig # None
  /\ Verified(c, upd[c].sums, sig, upd[c].row)
  /\ upd' = [upd EXCEPT ![c].step = "binary"]
  /\ UNCHANGED <<main, github, jobs, named, runs, mistakes>>

\* The self-check asks a binary that can tell for its version.
Installs(c) ==
  LET row == upd[c].row
      bin == page[row.at].bin
  IN
  /\ upd[c].step = "binary" /\ bin = row.sha
  /\ Verifying(c) /\ bin \notin Legacy => bin = row.version
  /\ runs' = [runs EXCEPT ![c] = bin]
  /\ upd' = [upd EXCEPT ![c] = Waiting]
  /\ UNCHANGED <<main, github, jobs, named, mistakes>>

\* A download or a check fails, or the process ends: next hour, once more.
UpdateFails(c) ==
  /\ upd[c] # Waiting
  /\ upd' = [upd EXCEPT ![c] = Waiting]
  /\ UNCHANGED <<main, github, jobs, named, runs, mistakes>>

Works(j) == \/ StartRelease(j) \/ FinishRelease(j)
            \/ \E v \in Versions : StartSigning(j, v)
            \/ PutVersion(j) \/ DeleteSums(j) \/ PutSums(j) \/ PutSig(j)
            \/ JobFails(j)
Updates(c) == \/ LooksAtNamed(c) \/ ReadsSums(c) \/ ReadsSig(c) \/ Installs(c)
              \/ UpdateFails(c)

Next == \/ AddKey \/ ReplaceSecret \/ RemoveOldKey \/ RaiseFloor
        \/ \E j \in Slots : Works(j)
        \/ HubNames \/ MixedRow \/ MixedPage
        \/ \E c \in Collectors : Updates(c)

Spec == Init /\ [][Next]_vars

(***************************************************************************)
(* A collector asks every hour, and no download fails for ever. Nobody has *)
(* to release, sign or name anything.                                      *)
(***************************************************************************)
Fairness ==
  \A c \in Collectors : /\ SF_vars(LooksAtNamed(c)) /\ SF_vars(ReadsSums(c))
                        /\ SF_vars(ReadsSig(c)) /\ SF_vars(Installs(c))
                        /\ WF_vars(UpdateFails(c))

LiveSpec == Spec /\ Fairness

-----------------------------------------------------------------------------
\* Properties

Signing == {"mark", "clear", "sum", "sign"}

Pages == [bin : Versions, sums : SumsFiles \cup {None},
          sig : SigFiles \cup {None}, marked : BOOLEAN]
Jobs ==
  {r \in [step : Signing \cup {"rests", "built"}, version : Versions \cup {None},
          keys : SUBSET Keys, floor : Versions, sums : SumsFiles \cup {None},
          key : Keys \cup {None}] :
     /\ r.step # "rests" => r.version # None /\ r.key # None
     /\ r.step \in Signing => r.sums # None}
Lookups ==
  {u \in [step : {"waits", "sums", "sig", "binary"}, row : Rows \cup {None},
          sums : SumsFiles \cup {None}] :
     /\ u.step # "waits" => u.row # None
     /\ u.step = "sig" => u.sums # None}

\* Every variable has its type, and what a step reads is there.
TypeOK ==
  /\ source \in [keys : SUBSET Keys, floor : Versions] /\ secret \in Keys
  /\ tags \subseteq Versions
  /\ builds \in [Versions -> [keys : SUBSET Keys, floor : Versions]]
  /\ page \in [Versions -> Pages] /\ jobs \in [Slots -> Jobs]
  /\ named \in Rows \cup {None}
  /\ runs \in [Collectors -> Versions] /\ upd \in [Collectors -> Lookups]
  /\ signedBy \in [Versions -> Keys \cup {None}] /\ mistakes \in 0 .. MaxMistakes

\* "The VERSION line is what stops a signed SHA256SUMS being replayed under
\* another version's name": whatever is mixed up by hand, and whatever the
\* workflows replace between its three downloads, what a verifying collector
\* comes to run is the release its row named, signed with a key it trusts and
\* not below its floor.
InstallsTheNamedBuild ==
  [][\A c \in Collectors : runs'[c] # runs[c] /\ Verifying(c) =>
       /\ runs'[c] = upd[c].row.version
       /\ signedBy[runs'[c]] \in builds[runs[c]].keys
       /\ AtLeast(runs'[c], builds[runs[c]].floor)]_vars

\* A release is above every earlier one, whichever of the builds of two pushes
\* is faster: the hub compares, and a lower number reads as a downgrade.
VersionsOnlyRise ==
  [][\A v \in tags' \ tags, w \in tags : Above(v, w)]_vars

\* v installs w when w is named.
Accepts(v, w) ==
  v \in Legacy \/ /\ signedBy[w] \in builds[v].keys
                  /\ AtLeast(w, builds[v].floor)

\* What the hub can take a collector on v to, by naming one after the other: the
\* least set with v that no release named leads out of.
Closed(S) == \A u \in S, w \in tags : Accepts(u, w) => w \in S
Within(v) ==
  {w \in tags : \A S \in SUBSET tags : v \in S /\ Closed(S) => w \in S}

\* Through rotations, rollbacks and raised floors, there is always a way to the
\* newest release by naming: nobody has to install by hand.
NoCollectorIsStranded ==
  \A c \in Collectors, v \in tags :
    (\A w \in tags : AtLeast(v, w)) => v \in Within(runs[c])

\* The hub has settled on a release that c accepts, and nothing was mixed up.
RunsNamed(c) == named # None /\ runs[c] = named.version
OnOffer(c) ==
  /\ mistakes = MaxMistakes /\ named # None
  /\ RunsNamed(c) \/ Accepts(runs[c], named.version)

\* The release the hub settles on is what every collector that accepts it ends
\* up with, signed late or early.
NamedIsInstalled ==
  \A c \in Collectors :
    <>[][FALSE]_named /\ <>[]OnOffer(c) => <>[]RunsNamed(c)

=============================================================================
