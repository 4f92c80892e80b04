----------------------------- MODULE ReleaseInv -----------------------------
(***************************************************************************)
(* Inductive invariants of Release: what a signature stands for wherever   *)
(* it lies, why no two builds race for a number, and what keeps a way to   *)
(* the newest release open through a rotation of the key.                  *)
(***************************************************************************)
EXTENDS Release

\* Everything in circulation comes from a release.
TagInv ==
  /\ Legacy \subseteq tags
  /\ \A v \in tags : page[v].bin \in tags
  /\ named # None => named.at \in tags
  /\ \A c \in Collectors :
       runs[c] \in tags /\ (upd[c].step # "waits" => upd[c].row.at \in tags)
  /\ \A j \in Slots : jobs[j].step \in Signing => jobs[j].version \in tags
  /\ \A v \in Versions : signedBy[v] # None => v \in tags

\* A signed SHA256SUMS names the release whose binary it lists, and that
\* release was signed with this key.
Sound(sig) ==
  /\ sig.over.names \in Versions /\ sig.over.bin = sig.over.names
  /\ signedBy[sig.over.names] = sig.key

\* Wherever a signature lies it is sound, and a page without one has its own
\* SHA256SUMS, or none.
PageInv(v) ==
  /\ page[v].sig # None => Sound(page[v].sig)
  /\ page[v].sig = None /\ page[v].sums # None =>
       page[v].sums.bin = v /\ page[v].sums.names \in {None, v}
  /\ signedBy[v] # None => page[v].sig # None

\* What a job is going to sign is its release's own.
HeldInv(j) ==
  jobs[j].step \in Signing => jobs[j].sums = Signed(jobs[j].version)

SigInv == /\ \A v \in Versions : PageInv(v)
          /\ \A j \in Slots : HeldInv(j)

\* What a collector has checked stays true while it reads on.
CheckedFor(c) ==
  Verifying(c) /\ upd[c].step # "waits" =>
    /\ upd[c].row.at = upd[c].row.version
    /\ AtLeast(upd[c].row.version, builds[runs[c]].floor)
    /\ upd[c].step = "binary" =>
         /\ upd[c].row.sha = upd[c].row.version
         /\ signedBy[upd[c].row.version] \in builds[runs[c]].keys
CheckedInv == \A c \in Collectors : CheckedFor(c)

TrustInv == TypeOK /\ TagInv /\ SigInv /\ CheckedInv

\* One job at a time; what it builds is above every release.
RiseInv ==
  /\ \A j, k \in Slots :
       jobs[j].step # "rests" /\ jobs[k].step # "rests" => j = k
  /\ \A j \in Slots :
       jobs[j].step = "built" => \A w \in tags : Above(jobs[j].version, w)

-----------------------------------------------------------------------------
\* Through a rotation: the keys and floors of the releases that verify.

Trusting == tags \ Legacy

\* A build carries one key, or two that follow each other.
Consecutive(K) == \A x, y \in K : x <= y + 1

\* None of L is newer than the newest of K.
Covers(K, L) == \A x \in L : \E y \in K : x <= y

\* main carries the key that signs and perhaps the next or the last one, never
\* an older newest key than any build, and a floor that is a release.
SourceInv ==
  /\ secret \in source.keys /\ Consecutive(source.keys)
  /\ \A x \in source.keys : x <= secret + 1
  /\ source.floor \in tags
  /\ \A v \in Trusting : Covers(source.keys, builds[v].keys)

\* So does a build that is not yet a release. The secret it was handed is the
\* one of now, or the one before; in that case the fleet trusts the next key, and
\* so does the build that is to be signed with the old.
BuildFor(j) ==
  jobs[j].step = "built" =>
    /\ Consecutive(jobs[j].keys) /\ Covers(source.keys, jobs[j].keys)
    /\ jobs[j].floor \in tags
    /\ \A v \in Trusting : /\ Covers(jobs[j].keys, builds[v].keys)
                           /\ signedBy[v] <= jobs[j].key
    /\ jobs[j].key <= secret /\ secret <= jobs[j].key + 1
    /\ jobs[j].key \in jobs[j].keys /\ jobs[j].key < secret =>
         secret \in jobs[j].keys
BuildInv == \A j \in Slots : BuildFor(j)

\* A release from before signing trusts nothing and is below every one that
\* does. Those carry a floor below themselves and the key that signed them, and
\* of two the later has the newer keys and was signed no earlier.
ReleasesInv ==
  /\ \A v \in Legacy : builds[v].keys = {}
  /\ \A v \in Trusting :
       /\ Consecutive(builds[v].keys) /\ Above(v, builds[v].floor)
       /\ signedBy[v] \in builds[v].keys /\ signedBy[v] <= secret
       /\ \A w \in Legacy : Above(v, w)
  /\ \A v, w \in Trusting :
       Above(w, v) => /\ Covers(builds[w].keys, builds[v].keys)
                      /\ signedBy[v] <= signedBy[w]

\* What waiting for the fleet buys: whoever trusts an old key trusts the next
\* one too, or accepts a release that was signed with the old and carries the
\* next.
Bridged(v, k) ==
  \/ k + 1 \in builds[v].keys
  \/ \E b \in Trusting : /\ signedBy[b] = k /\ k + 1 \in builds[b].keys
                         /\ AtLeast(b, builds[v].floor)
BridgeInv == \A v \in Trusting : \A k \in builds[v].keys : k < secret => Bridged(v, k)

RotationInv == SourceInv /\ BuildInv /\ ReleasesInv /\ BridgeInv

=============================================================================
