---------------------------- MODULE ReleaseProofs ----------------------------
(***************************************************************************)
(* Theorems about Release: for any number of collectors, workflows, keys,  *)
(* releases and mix-ups.                                                   *)
(***************************************************************************)
EXTENDS ReleaseInv, TLAPS, WellFoundedInduction

-----------------------------------------------------------------------------
\* Types

LEMMA RestingIsAJob == Resting \in Jobs
BY VersionAssumption DEF Resting, Jobs, Signing

LEMMA WaitingIsALookup == Waiting \in Lookups
BY DEF Waiting, Lookups

LEMMA FieldsOfAJob ==
  ASSUME NEW r \in Jobs
  PROVE  /\ r.keys \in SUBSET Keys /\ r.floor \in Versions
         /\ r.step # "rests" => r.version \in Versions /\ r.key \in Keys
         /\ r.step \in Signing => r.sums \in SumsFiles
BY DEF Jobs

LEMMA TypeInit == Init => TypeOK
<1> SUFFICES ASSUME Init PROVE TypeOK
  OBVIOUS
<1>1. \A v \in Versions :
        [bin |-> v, sums |-> [bin |-> v, names |-> None], sig |-> None,
         marked |-> FALSE] \in Pages
  BY DEF Pages, SumsFiles
<1>2. 1 \in Keys
  BY KeyAssumption DEF Keys
<1> QED
  BY <1>1, <1>2, VersionAssumption, RestingIsAJob, WaitingIsALookup
     DEF Init, TypeOK

LEMMA TypeStep ==
  ASSUME TypeOK, [Next]_vars
  PROVE  TypeOK'
<1> USE DEF vars, main, github, fleet
<1>1. ASSUME AddKey PROVE TypeOK'
  <2>1. secret + 1 \in Keys
    BY <1>1, KeyAssumption DEF TypeOK, AddKey, Keys
  <2> QED
    BY <1>1, <2>1 DEF TypeOK, AddKey
<1>2. ASSUME ReplaceSecret PROVE TypeOK'
  BY <1>2 DEF TypeOK, ReplaceSecret
<1>3. ASSUME RemoveOldKey PROVE TypeOK'
  BY <1>3 DEF TypeOK, RemoveOldKey
<1>4. ASSUME RaiseFloor PROVE TypeOK'
  BY <1>4 DEF TypeOK, RaiseFloor
<1>5. ASSUME NEW j \in Slots, StartRelease(j) PROVE TypeOK'
  <2>1. PICK s \in Series, p \in 0 .. MaxPatch :
          jobs' = [jobs EXCEPT ![j] =
            [step |-> "built", version |-> <<s, p>>, keys |-> source.keys,
             floor |-> source.floor, sums |-> None, key |-> secret]]
    BY <1>5 DEF StartRelease
  <2>2. <<s, p>> \in Versions /\ <<s, p>> # None /\ None \notin Keys
    BY NoneAssumption DEF Versions
  <2>3. [step |-> "built", version |-> <<s, p>>, keys |-> source.keys,
         floor |-> source.floor, sums |-> None, key |-> secret] \in Jobs
    BY <2>2 DEF TypeOK, Jobs, Signing
  <2> QED
    BY <1>5, <2>1, <2>3 DEF TypeOK, StartRelease
<1>6. ASSUME NEW j \in Slots, FinishRelease(j) PROVE TypeOK'
  <2> DEFINE v == jobs[j].version
             key == jobs[j].key
             files == [bin |-> v, sums |-> Signed(v), marked |-> TRUE,
                       sig |-> [key |-> key, over |-> Signed(v)]]
             build == [keys |-> jobs[j].keys, floor |-> jobs[j].floor]
  <2>1. /\ v \in Versions /\ key \in Keys
        /\ build \in [keys : SUBSET Keys, floor : Versions]
    BY <1>6, FieldsOfAJob DEF TypeOK, FinishRelease
  <2>2. files \in Pages
    BY <2>1 DEF TypeOK, Pages, SumsFiles, SigFiles, Signed
  <2>3. page' = [page EXCEPT ![v] = files]
    BY <1>6 DEF FinishRelease
  <2>4. /\ page' \in [Versions -> Pages]
        /\ builds' \in [Versions -> [keys : SUBSET Keys, floor : Versions]]
    <3> HIDE DEF files, build
    <3> QED
      BY <1>6, <2>1, <2>2, <2>3 DEF TypeOK, FinishRelease, build
  <2> QED
    BY <1>6, <2>1, <2>4, RestingIsAJob DEF TypeOK, FinishRelease
<1>7. ASSUME NEW j \in Slots, NEW v \in Versions, StartSigning(j, v) PROVE TypeOK'
  <2> DEFINE sums == WithVersion(page[v].sums, v)
             new == [Resting EXCEPT !.step = "mark", !.version = v,
                                    !.key = secret, !.sums = sums]
  <2>1. page[v].sums \in SumsFiles
    BY <1>7 DEF TypeOK, StartSigning, Pages
  <2>2. sums \in SumsFiles
    BY <2>1 DEF WithVersion, SumsFiles
  <2>3. new \in Jobs
    <3> HIDE DEF sums
    <3> QED
      BY <2>2, NoneAssumption, VersionAssumption DEF TypeOK, Jobs, Resting, Signing
  <2>4. jobs' = [jobs EXCEPT ![j] = new]
    BY <1>7 DEF StartSigning
  <2> QED
    <3> HIDE DEF new
    <3> QED
      BY <1>7, <2>3, <2>4 DEF TypeOK, StartSigning
<1>8. ASSUME NEW j \in Slots, PutVersion(j) PROVE TypeOK'
  <2> DEFINE v == jobs[j].version
  <2>1. v \in Versions /\ page[v] \in Pages /\ jobs[j] \in Jobs
    BY <1>8, FieldsOfAJob DEF TypeOK, PutVersion, Uploads
  <2>2. page'[v] \in Pages /\ page' = [page EXCEPT ![v] = page'[v]]
    BY <1>8, <2>1, FieldsOfAJob DEF TypeOK, PutVersion, Uploads, Pages, Signing
  <2>3. jobs'[j] \in Jobs /\ jobs' = [jobs EXCEPT ![j] = jobs'[j]]
    BY <1>8, <2>1, RestingIsAJob DEF TypeOK, PutVersion, Uploads, Jobs, Signing
  <2> QED
    BY <1>8, <2>1, <2>2, <2>3 DEF TypeOK, PutVersion, Uploads
<1>9. ASSUME NEW j \in Slots, DeleteSums(j) PROVE TypeOK'
  <2> DEFINE v == jobs[j].version
  <2>1. v \in Versions /\ page[v] \in Pages /\ jobs[j] \in Jobs
    BY <1>9, FieldsOfAJob DEF TypeOK, DeleteSums, Uploads
  <2>2. page'[v] \in Pages /\ page' = [page EXCEPT ![v] = page'[v]]
    BY <1>9, <2>1, FieldsOfAJob DEF TypeOK, DeleteSums, Uploads, Pages, Signing
  <2>3. jobs'[j] \in Jobs /\ jobs' = [jobs EXCEPT ![j] = jobs'[j]]
    BY <1>9, <2>1, RestingIsAJob DEF TypeOK, DeleteSums, Uploads, Jobs, Signing
  <2> QED
    BY <1>9, <2>1, <2>2, <2>3 DEF TypeOK, DeleteSums, Uploads
<1>10. ASSUME NEW j \in Slots, PutSums(j) PROVE TypeOK'
  <2> DEFINE v == jobs[j].version
  <2>1. v \in Versions /\ page[v] \in Pages /\ jobs[j] \in Jobs
    BY <1>10, FieldsOfAJob DEF TypeOK, PutSums, Uploads
  <2>2. page'[v] \in Pages /\ page' = [page EXCEPT ![v] = page'[v]]
    BY <1>10, <2>1, FieldsOfAJob DEF TypeOK, PutSums, Uploads, Pages, Signing
  <2>3. jobs'[j] \in Jobs /\ jobs' = [jobs EXCEPT ![j] = jobs'[j]]
    BY <1>10, <2>1, RestingIsAJob DEF TypeOK, PutSums, Uploads, Jobs, Signing
  <2> QED
    BY <1>10, <2>1, <2>2, <2>3 DEF TypeOK, PutSums, Uploads
<1>11. ASSUME NEW j \in Slots, PutSig(j) PROVE TypeOK'
  <2> DEFINE v == jobs[j].version
             sig == [key |-> jobs[j].key, over |-> jobs[j].sums]
  <2>1. v \in Versions /\ page[v] \in Pages /\ jobs[j] \in Jobs
    BY <1>11, FieldsOfAJob DEF TypeOK, PutSig, Uploads
  <2>4. jobs[j].key \in Keys /\ sig \in SigFiles
    BY <1>11, <2>1, FieldsOfAJob DEF PutSig, Signing, SigFiles
  <2>2. page'[v] \in Pages /\ page' = [page EXCEPT ![v] = page'[v]]
    <3>1. page' = [page EXCEPT ![v] = [page[v] EXCEPT !.sig = sig]]
      BY <1>11 DEF PutSig, Uploads
    <3> HIDE DEF sig
    <3>2. [page[v] EXCEPT !.sig = sig] \in Pages
      BY <2>1, <2>4 DEF Pages
    <3> QED
      BY <2>1, <3>1, <3>2 DEF TypeOK
  <2>3. jobs'[j] \in Jobs /\ jobs' = [jobs EXCEPT ![j] = jobs'[j]]
    BY <1>11, <2>1, RestingIsAJob DEF TypeOK, PutSig, Uploads, Jobs, Signing
  <2> QED
    BY <2>4, <1>11, <2>1, <2>2, <2>3 DEF TypeOK, PutSig, Uploads
<1>12. ASSUME NEW j \in Slots, JobFails(j) PROVE TypeOK'
  BY <1>12, RestingIsAJob DEF TypeOK, JobFails
<1>13. ASSUME HubNames PROVE TypeOK'
  BY <1>13 DEF TypeOK, HubNames, Rows, Pages
<1>14. ASSUME MixedRow PROVE TypeOK'
  BY <1>14, VersionAssumption DEF TypeOK, MixedRow, Mistaken, Rows
<1>15. ASSUME MixedPage PROVE TypeOK'
  <2>1. mistakes' \in 0 .. MaxMistakes
    BY <1>15, VersionAssumption DEF TypeOK, MixedPage, Mistaken
  <2>2. ASSUME NEW v \in tags, NEW w \in tags,
               page' = [page EXCEPT ![v].bin = w]
        PROVE  page' \in [Versions -> Pages]
    BY <2>2 DEF TypeOK, Pages
  <2>3. ASSUME NEW v \in tags, NEW w \in tags,
               NEW b \in {page[v].bin, page[w].bin},
               page' = [page EXCEPT ![v] =
                          [page[w] EXCEPT !.bin = b, !.marked = page[v].marked]]
        PROVE  page' \in [Versions -> Pages]
    <3>1. page[v] \in Pages /\ page[w] \in Pages
      BY DEF TypeOK
    <3>2. b \in Versions /\ page[v].marked \in BOOLEAN
      BY <3>1 DEF Pages
    <3>3. [page[w] EXCEPT !.bin = b, !.marked = page[v].marked] \in Pages
      BY <3>1, <3>2 DEF Pages
    <3> QED
      BY <2>3, <3>3 DEF TypeOK
  <2>4. page' \in [Versions -> Pages]
    BY <1>15, <2>2, <2>3 DEF MixedPage
  <2> QED
    BY <1>15, <2>1, <2>4 DEF TypeOK, MixedPage
<1>16. ASSUME NEW c \in Collectors, LooksAtNamed(c) PROVE TypeOK'
  <2>1. upd'[c] \in Lookups /\ upd' = [upd EXCEPT ![c] = upd'[c]]
    BY <1>16, WaitingIsALookup DEF TypeOK, LooksAtNamed, Lookups, Waiting
  <2> QED
    BY <1>16, <2>1 DEF TypeOK, LooksAtNamed
<1>17. ASSUME NEW c \in Collectors, ReadsSums(c) PROVE TypeOK'
  <2>1. upd[c].row \in Rows /\ page[upd[c].row.at].sums \in SumsFiles
    BY <1>17 DEF TypeOK, ReadsSums, Lookups, Rows, Pages, Downloaded
  <2>2. [upd[c] EXCEPT !.step = "sig", !.sums = page[upd[c].row.at].sums] \in Lookups
    BY <1>17, <2>1, NoneAssumption DEF TypeOK, ReadsSums, Lookups, Downloaded
  <2> QED
    BY <1>17, <2>2 DEF TypeOK, ReadsSums
<1>18. ASSUME NEW c \in Collectors, ReadsSig(c) PROVE TypeOK'
  <2>1. upd'[c] \in Lookups /\ upd' = [upd EXCEPT ![c] = upd'[c]]
    BY <1>18, WaitingIsALookup DEF TypeOK, ReadsSig, Lookups
  <2> QED
    BY <1>18, <2>1 DEF TypeOK, ReadsSig
<1>19. ASSUME NEW c \in Collectors, Installs(c) PROVE TypeOK'
  <2>1. upd[c].row \in Rows
    BY <1>19 DEF TypeOK, Installs, Lookups
  <2>2. page[upd[c].row.at].bin \in Versions
    BY <2>1 DEF TypeOK, Rows, Pages
  <2> QED
    BY <1>19, <2>2, WaitingIsALookup DEF TypeOK, Installs
<1>20. ASSUME NEW c \in Collectors, UpdateFails(c) PROVE TypeOK'
  <2>1. upd'[c] \in Lookups /\ upd' = [upd EXCEPT ![c] = upd'[c]]
    BY <1>20, WaitingIsALookup DEF TypeOK, UpdateFails, Lookups, Waiting
  <2> QED
    BY <1>20, <2>1 DEF TypeOK, UpdateFails
<1>21. CASE UNCHANGED vars
  BY <1>21 DEF TypeOK
<1> QED
  BY <1>1, <1>2, <1>3, <1>4, <1>5, <1>6, <1>7, <1>8, <1>9, <1>10, <1>11, <1>12,
     <1>13, <1>14, <1>15, <1>16, <1>17, <1>18, <1>19, <1>20, <1>21
     DEF Next, Works, Updates

\* Every variable keeps its type.
THEOREM ReleaseTypeCorrect == Spec => []TypeOK
<1>1. Init => TypeOK
  BY TypeInit
<1>2. TypeOK /\ [Next]_vars => TypeOK'
  BY TypeStep
<1> QED
  BY <1>1, <1>2, PTL DEF Spec

-----------------------------------------------------------------------------
\* What the actions of a job do to it and to its page.

Uploading(j) == PutVersion(j) \/ DeleteSums(j) \/ PutSums(j) \/ PutSig(j)

LEMMA StartReleaseEffect ==
  ASSUME TypeOK, NEW j \in Slots, StartRelease(j)
  PROVE  /\ \A k \in Slots : k # j => jobs'[k] = jobs[k]
         /\ jobs'[j].step = "built" /\ jobs'[j].step \notin Signing
         /\ \A w \in tags : Above(jobs'[j].version, w)
<1>1. PICK s \in Series, p \in 0 .. MaxPatch :
        /\ \A w \in tags : Above(<<s, p>>, w)
        /\ jobs' = [jobs EXCEPT ![j] =
             [step |-> "built", version |-> <<s, p>>, keys |-> source.keys,
              floor |-> source.floor, sums |-> None, key |-> secret]]
  BY DEF StartRelease
<1>2. /\ jobs'[j].step = "built" /\ jobs'[j].version = <<s, p>>
      /\ \A k \in Slots : k # j => jobs'[k] = jobs[k]
  BY <1>1 DEF TypeOK
<1> QED
  BY <1>1, <1>2 DEF Signing

LEMMA FinishReleaseEffect ==
  ASSUME TypeOK, NEW j \in Slots, FinishRelease(j)
  PROVE  LET v == jobs[j].version IN
         /\ v \in Versions /\ v \notin tags /\ tags' = tags \cup {v}
         /\ page'[v].bin = v /\ page'[v].sums = Signed(v)
         /\ page'[v].sig = [key |-> jobs[j].key, over |-> Signed(v)]
         /\ jobs[j].key \in Keys
         /\ \A w \in Versions : w # v => page'[w] = page[w] /\ builds'[w] = builds[w]
                                        /\ signedBy'[w] = signedBy[w]
         /\ signedBy'[v] = jobs[j].key
         /\ \A k \in Slots : k # j => jobs'[k] = jobs[k]
         /\ jobs[j].step = "built"
         /\ jobs'[j].step = "rests" /\ jobs'[j].step \notin Signing
<1>1. jobs[j].version \in Versions /\ jobs[j].key \in Keys
  BY FieldsOfAJob DEF TypeOK, FinishRelease
<1> QED
  BY <1>1 DEF TypeOK, FinishRelease, Resting, Signing

LEMMA StartSigningEffect ==
  ASSUME TypeOK, NEW j \in Slots, NEW v \in Versions, StartSigning(j, v)
  PROVE  /\ \A k \in Slots : k # j => jobs'[k] = jobs[k]
         /\ jobs'[j].step = "mark" /\ jobs'[j].version = v
         /\ jobs'[j].sums = [bin |-> page[v].sums.bin, names |-> v]
<1> DEFINE sums == WithVersion(page[v].sums, v)
           new == [Resting EXCEPT !.step = "mark", !.version = v, !.key = secret,
                                  !.sums = sums]
<1>1. page[v].sums \in SumsFiles
  BY DEF TypeOK, StartSigning, Pages
<1>2. sums = [bin |-> page[v].sums.bin, names |-> v]
  BY <1>1 DEF WithVersion, SumsFiles
<1>3. new.step = "mark" /\ new.version = v /\ new.sums = sums
  <2> HIDE DEF sums
  <2> QED
    BY DEF Resting
<1>4. jobs' = [jobs EXCEPT ![j] = new]
  BY DEF StartSigning
<1>5. jobs'[j] = new /\ \A k \in Slots : k # j => jobs'[k] = jobs[k]
  <2> HIDE DEF new
  <2> QED
    BY <1>4 DEF TypeOK
<1> QED
  <2> HIDE DEF new, sums
  <2> QED
    BY <1>2, <1>3, <1>5

LEMMA UploadEffect ==
  ASSUME TypeOK, NEW j \in Slots, Uploading(j)
  PROVE  /\ jobs[j].step \in Signing /\ jobs[j].version \in Versions
         /\ \A k \in Slots : k # j => jobs'[k] = jobs[k]
         /\ \/ jobs'[j].step \in Signing
               /\ jobs'[j].version = jobs[j].version
               /\ jobs'[j].sums = jobs[j].sums
            \/ jobs'[j].step = "rests" /\ jobs'[j].step \notin Signing
         /\ \A v \in Versions : v # jobs[j].version => page'[v] = page[v]
         /\ page'[jobs[j].version].bin = page[jobs[j].version].bin
         /\ UNCHANGED <<main, tags, builds, named, fleet, mistakes>>
<1>1. jobs[j].step \in Signing /\ jobs[j] \in Jobs
  BY DEF TypeOK, Uploading, PutVersion, DeleteSums, PutSums, PutSig, Uploads,
         Signing
<1>2. jobs[j].version \in Versions /\ page[jobs[j].version] \in Pages
  BY <1>1, FieldsOfAJob DEF TypeOK, Signing
<1>3. CASE PutVersion(j)
  BY <1>1, <1>2, <1>3 DEF TypeOK, Pages, Jobs, PutVersion, Uploads, Signing
<1>4. CASE DeleteSums(j)
  BY <1>1, <1>2, <1>4 DEF TypeOK, Pages, Jobs, DeleteSums, Uploads, Signing
<1>5. CASE PutSums(j)
  BY <1>1, <1>2, <1>5 DEF TypeOK, Pages, Jobs, PutSums, Uploads, Signing
<1>6. CASE PutSig(j)
  BY <1>1, <1>2, <1>6 DEF TypeOK, Pages, Jobs, PutSig, Uploads, Resting, Signing
<1> QED
  BY <1>3, <1>4, <1>5, <1>6 DEF Uploading

LEMMA FailureEffect ==
  ASSUME TypeOK, NEW j \in Slots, JobFails(j)
  PROVE  /\ \A k \in Slots : k # j => jobs'[k] = jobs[k]
         /\ jobs'[j].step = "rests" /\ jobs'[j].step \notin Signing
BY DEF TypeOK, JobFails, Resting, Signing

LEMMA MixedPageEffect ==
  ASSUME TypeOK, MixedPage
  PROVE  \E v, w \in tags : \E b \in {w, page[v].bin, page[w].bin} :
           /\ page'[v].bin = b
           /\ \A x \in Versions : x # v => page'[x] = page[x]
           /\ \/ page'[v].sums = page[v].sums /\ page'[v].sig = page[v].sig
              \/ /\ signedBy[w] # None
                 /\ page'[v].sums = page[w].sums /\ page'[v].sig = page[w].sig
<1>1. PICK v \in tags, w \in tags :
        \/ page' = [page EXCEPT ![v].bin = w]
        \/ /\ signedBy[w] # None
           /\ \E b \in {page[v].bin, page[w].bin} :
                page' = [page EXCEPT ![v] =
                  [page[w] EXCEPT !.bin = b, !.marked = page[v].marked]]
  BY DEF MixedPage
<1>2. page[v] \in Pages /\ page[w] \in Pages /\ v \in Versions
  BY DEF TypeOK
<1>3. CASE page' = [page EXCEPT ![v].bin = w]
  <2>1. /\ page'[v].bin = w /\ page'[v].sums = page[v].sums
        /\ page'[v].sig = page[v].sig
        /\ \A x \in Versions : x # v => page'[x] = page[x]
    BY <1>2, <1>3 DEF TypeOK, Pages
  <2> QED
    BY <2>1
<1>4. ASSUME NEW b \in {page[v].bin, page[w].bin}, signedBy[w] # None,
             page' = [page EXCEPT ![v] =
                        [page[w] EXCEPT !.bin = b, !.marked = page[v].marked]]
      PROVE  /\ page'[v].bin = b /\ page'[v].sums = page[w].sums
             /\ page'[v].sig = page[w].sig
             /\ \A x \in Versions : x # v => page'[x] = page[x]
  BY <1>2, <1>4 DEF TypeOK, Pages
<1> QED
  BY <1>1, <1>3, <1>4

-----------------------------------------------------------------------------
\* Everything in circulation comes from a release.

LEMMA TagStep ==
  ASSUME TypeOK, TagInv, [Next]_vars
  PROVE  TagInv'
<1> USE DEF main, github, fleet
<1>1. ASSUME AddKey PROVE TagInv'
  BY <1>1, NoneAssumption DEF TypeOK, TagInv, AddKey
<1>2. ASSUME ReplaceSecret PROVE TagInv'
  BY <1>2, NoneAssumption DEF TypeOK, TagInv, ReplaceSecret
<1>3. ASSUME RemoveOldKey PROVE TagInv'
  BY <1>3, NoneAssumption DEF TypeOK, TagInv, RemoveOldKey
<1>4. ASSUME RaiseFloor PROVE TagInv'
  BY <1>4, NoneAssumption DEF TypeOK, TagInv, RaiseFloor
<1>5. ASSUME NEW j \in Slots, StartRelease(j) PROVE TagInv'
  BY <1>5, StartReleaseEffect DEF TagInv, StartRelease
<1>6. ASSUME NEW j \in Slots, FinishRelease(j) PROVE TagInv'
  <2> DEFINE v == jobs[j].version
  <2>1. /\ v \in Versions /\ tags' = tags \cup {v} /\ page'[v].bin = v
        /\ \A w \in Versions : w # v => page'[w] = page[w] /\ signedBy'[w] = signedBy[w]
        /\ \A k \in Slots : k # j => jobs'[k] = jobs[k]
        /\ jobs'[j].step \notin Signing
    BY <1>6, FinishReleaseEffect
  <2>2. UNCHANGED <<named, fleet>>
    BY <1>6 DEF FinishRelease
  <2> HIDE DEF v
  <2>3. \A w \in tags' : page'[w].bin \in tags'
    BY <2>1 DEF TypeOK, TagInv
  <2>4. \A k \in Slots : jobs'[k].step \in Signing => jobs'[k].version \in tags'
    BY <2>1 DEF TagInv
  <2>5. \A w \in Versions : signedBy'[w] # None => w \in tags'
    BY <2>1 DEF TagInv
  <2> QED
    BY <2>1, <2>2, <2>3, <2>4, <2>5 DEF TagInv
<1>7. ASSUME NEW j \in Slots, NEW v \in Versions, StartSigning(j, v) PROVE TagInv'
  <2>1. /\ \A k \in Slots : k # j => jobs'[k] = jobs[k]
        /\ jobs'[j].version = v
    BY <1>7, StartSigningEffect
  <2>2. v \in tags /\ UNCHANGED <<github, named, fleet>>
    BY <1>7 DEF StartSigning
  <2> QED
    BY <2>1, <2>2 DEF TagInv
<1>8. ASSUME NEW j \in Slots, Uploading(j) PROVE TagInv'
  <2>1. /\ \A k \in Slots : k # j => jobs'[k] = jobs[k]
        /\ jobs[j].step \in Signing /\ jobs[j].version \in Versions
        /\ jobs'[j].step \in Signing => jobs'[j].version = jobs[j].version
        /\ UNCHANGED <<tags, named, runs, upd>>
        /\ \A w \in Versions : page'[w].bin = page[w].bin
    BY <1>8, UploadEffect
  <2>2. \A w \in Versions : signedBy'[w] # None =>
          signedBy[w] # None \/ w = jobs[j].version
    BY <1>8 DEF TypeOK, Uploading, PutVersion, DeleteSums, PutSums, PutSig
  <2>3. \A k \in Slots : jobs'[k].step \in Signing => jobs'[k].version \in tags
    BY <2>1 DEF TagInv
  <2>4. \A w \in Versions : signedBy'[w] # None => w \in tags
    BY <2>1, <2>2 DEF TagInv
  <2>5. \A w \in tags : page'[w].bin \in tags
    BY <2>1 DEF TypeOK, TagInv
  <2> QED
    BY <2>1, <2>3, <2>4, <2>5 DEF TagInv
<1>9. ASSUME NEW j \in Slots, JobFails(j) PROVE TagInv'
  <2>1. UNCHANGED <<github, named, fleet>>
    BY <1>9 DEF JobFails
  <2>2. \A k \in Slots : jobs'[k].step \in Signing => jobs'[k].version \in tags
    BY <1>9, FailureEffect DEF TagInv
  <2> QED
    BY <2>1, <2>2 DEF TagInv
<1>10. ASSUME HubNames PROVE TagInv'
  BY <1>10, NoneAssumption DEF TypeOK, TagInv, HubNames
<1>11. ASSUME MixedRow PROVE TagInv'
  BY <1>11, NoneAssumption DEF TypeOK, TagInv, MixedRow, Mistaken
<1>12. ASSUME MixedPage PROVE TagInv'
  <2>1. \A w \in tags : page'[w].bin \in tags
    BY <1>12, MixedPageEffect DEF TypeOK, TagInv
  <2> QED
    BY <1>12, <2>1 DEF TagInv, MixedPage
<1>13. ASSUME NEW c \in Collectors, LooksAtNamed(c) PROVE TagInv'
  BY <1>13, NoneAssumption DEF TypeOK, TagInv, LooksAtNamed, Waiting
<1>14. ASSUME NEW c \in Collectors, ReadsSums(c) PROVE TagInv'
  BY <1>14, NoneAssumption DEF TypeOK, TagInv, ReadsSums, Downloaded
<1>15. ASSUME NEW c \in Collectors, ReadsSig(c) PROVE TagInv'
  BY <1>15, NoneAssumption DEF TypeOK, TagInv, ReadsSig
<1>16. ASSUME NEW c \in Collectors, Installs(c) PROVE TagInv'
  BY <1>16, NoneAssumption DEF TypeOK, TagInv, Installs, Waiting
<1>17. ASSUME NEW c \in Collectors, UpdateFails(c) PROVE TagInv'
  BY <1>17, NoneAssumption DEF TypeOK, TagInv, UpdateFails, Waiting
<1>18. CASE UNCHANGED vars
  BY <1>18 DEF vars, TagInv
<1> QED
  BY <1>1, <1>2, <1>3, <1>4, <1>5, <1>6, <1>7, <1>8, <1>9, <1>10, <1>11, <1>12,
     <1>13, <1>14, <1>15, <1>16, <1>17, <1>18
     DEF Next, Works, Updates, Uploading

-----------------------------------------------------------------------------
\* What a signature stands for

LEMMA SigFrame ==
  ASSUME SigInv, UNCHANGED <<page, signedBy, jobs>>
  PROVE  SigInv'
BY DEF SigInv, PageInv, Sound, HeldInv

LEMMA PagesKept ==
  ASSUME SigInv, UNCHANGED <<page, signedBy>>, \A k \in Slots : HeldInv(k)'
  PROVE  SigInv'
BY DEF SigInv, PageInv, Sound

LEMMA SignatureOnPage ==
  ASSUME TypeOK, SigInv, NEW v \in Versions, page[v].sig # None
  PROVE  /\ page[v].sig \in SigFiles /\ Sound(page[v].sig)
         /\ signedBy[page[v].sig.over.names] # None
<1>1. page[v] \in Pages
  BY DEF TypeOK
<1>2. page[v].sig \in SigFiles /\ page[v].sig.key # None
  BY <1>1, NoneAssumption DEF Pages, SigFiles
<1> QED
  BY <1>2 DEF SigInv, PageInv, Sound

\* A page that stays as it is stays in order, as long as what was signed once
\* keeps its key.
LEMMA PageKept ==
  ASSUME TypeOK, SigInv, NEW v \in Versions, page'[v] = page[v],
         signedBy'[v] = signedBy[v],
         \A w \in Versions : signedBy[w] # None => signedBy'[w] = signedBy[w]
  PROVE  PageInv(v)'
<1>1. PageInv(v)
  BY DEF SigInv
<1>2. page[v].sig # None => /\ Sound(page[v].sig)
                           /\ signedBy[page[v].sig.over.names] # None
  BY SignatureOnPage
<1> QED
  BY <1>1, <1>2 DEF PageInv, Sound

LEMMA SigStep ==
  ASSUME TypeOK, TagInv, SigInv, [Next]_vars
  PROVE  SigInv'
<1> USE DEF main, github, fleet
<1>1. ASSUME AddKey PROVE SigInv'
  BY <1>1, SigFrame DEF AddKey
<1>2. ASSUME ReplaceSecret PROVE SigInv'
  BY <1>2, SigFrame DEF ReplaceSecret
<1>3. ASSUME RemoveOldKey PROVE SigInv'
  BY <1>3, SigFrame DEF RemoveOldKey
<1>4. ASSUME RaiseFloor PROVE SigInv'
  BY <1>4, SigFrame DEF RaiseFloor
<1>5. ASSUME NEW j \in Slots, StartRelease(j) PROVE SigInv'
  <2>1. UNCHANGED <<page, signedBy>>
    BY <1>5 DEF StartRelease
  <2>2. \A k \in Slots : HeldInv(k)'
    BY <1>5, StartReleaseEffect DEF SigInv, HeldInv
  <2> QED
    BY <2>1, <2>2, PagesKept
<1>6. ASSUME NEW j \in Slots, FinishRelease(j) PROVE SigInv'
  <2>0. PICK v \in Versions : v = jobs[j].version
    BY <1>6, FinishReleaseEffect
  <2>1. /\ v \notin tags
        /\ page'[v].sig = [key |-> jobs[j].key, over |-> Signed(v)]
        /\ \A w \in Versions : w # v => page'[w] = page[w] /\ signedBy'[w] = signedBy[w]
        /\ signedBy'[v] = jobs[j].key /\ jobs[j].key \in Keys
    BY <1>6, <2>0, FinishReleaseEffect
  <2>2. \A k \in Slots : HeldInv(k)'
    BY <1>6, FinishReleaseEffect DEF SigInv, HeldInv
  <2>3. \A w \in Versions : signedBy[w] # None => signedBy'[w] = signedBy[w]
    BY <2>1 DEF TagInv
  <2>4. page'[v].sig # None
    BY <2>1, NoneAssumption DEF TypeOK, SigFiles, SumsFiles, Signed
  <2>5. PageInv(v)'
    BY <2>1, <2>4 DEF PageInv, Sound, Signed
  <2>6. \A w \in Versions : w # v => PageInv(w)'
    BY <2>1, <2>3, PageKept
  <2> QED
    BY <2>2, <2>5, <2>6 DEF SigInv
<1>7. ASSUME NEW j \in Slots, NEW v \in Versions, StartSigning(j, v) PROVE SigInv'
  <2>1. UNCHANGED <<page, signedBy>>
    BY <1>7 DEF StartSigning
  <2>2. /\ page[v].sig = None /\ page[v].sums # None
        /\ \A k \in Slots : k # j => jobs'[k] = jobs[k]
        /\ jobs'[j].version = v
        /\ jobs'[j].sums = [bin |-> page[v].sums.bin, names |-> v]
    BY <1>7, StartSigningEffect DEF StartSigning
  <2>3. jobs'[j].sums = Signed(v)
    BY <2>2 DEF SigInv, PageInv, Signed
  <2>5. \A k \in Slots : HeldInv(k)'
    BY <2>2, <2>3 DEF SigInv, HeldInv
  <2> QED
    BY <2>1, <2>5, PagesKept
<1>8. ASSUME NEW j \in Slots, Uploading(j) PROVE SigInv'
  <2>0. PICK v \in Versions : v = jobs[j].version
    BY <1>8, UploadEffect
  <2>1. /\ jobs[j].step \in Signing /\ v = jobs[j].version
        /\ \A k \in Slots : k # j => jobs'[k] = jobs[k]
        /\ \A w \in Versions : w # v => page'[w] = page[w]
        /\ page[v] \in Pages
    BY <1>8, <2>0, UploadEffect DEF TypeOK
  <2>2. \A k \in Slots : HeldInv(k)'
    BY <1>8, UploadEffect DEF SigInv, HeldInv
  <2>3. jobs[j].sums = Signed(v) /\ Signed(v) \in SumsFiles /\ jobs[j].key \in Keys
    <3>1. jobs[j].sums = Signed(v)
      BY <2>1 DEF SigInv, HeldInv
    <3>2. jobs[j].sums \in SumsFiles /\ jobs[j].key \in Keys
      BY <2>1, FieldsOfAJob DEF TypeOK, Signing
    <3> QED
      BY <3>1, <3>2
  <2>4. CASE PutSig(j)
    <3>1. /\ page[v].sig = None
          /\ page'[v].sig = [key |-> jobs[j].key, over |-> Signed(v)]
          /\ signedBy' = [signedBy EXCEPT ![v] = jobs[j].key]
      BY <2>1, <2>3, <2>4 DEF TypeOK, PutSig, Uploads, Pages
    <3>2. signedBy[v] = None
      BY <2>1, <3>1 DEF SigInv, PageInv
    <3>3. \A w \in Versions :
            /\ signedBy[w] # None => signedBy'[w] = signedBy[w]
            /\ w # v => signedBy'[w] = signedBy[w]
      BY <3>1, <3>2 DEF TypeOK
    <3>4. page'[v].sig # None /\ signedBy'[v] = page'[v].sig.key
      BY <2>1, <2>3, <3>1, NoneAssumption DEF TypeOK, SigFiles
    <3>5. PageInv(v)'
      BY <2>1, <2>3, <3>1, <3>4 DEF PageInv, Sound, Signed
    <3>6. \A w \in Versions : w # v => PageInv(w)'
      BY <2>1, <3>3, PageKept
    <3> QED
      BY <2>2, <3>5, <3>6 DEF SigInv
  <2>5. CASE ~PutSig(j)
    <3>1. /\ signedBy' = signedBy
          /\ page'[v].sig = page[v].sig
          /\ page'[v].sums \in {None, page[v].sums, jobs[j].sums}
      BY <1>8, <2>1, <2>5
         DEF TypeOK, Uploading, PutVersion, DeleteSums, PutSums, Uploads, Pages
    <3>2. PageInv(v)
      BY <2>1 DEF SigInv
    <3>3. PageInv(v)'
      BY <2>3, <3>1, <3>2 DEF PageInv, Sound, Signed
    <3>4. \A w \in Versions : w # v => PageInv(w)'
      BY <2>1, <3>1, PageKept
    <3> QED
      BY <2>2, <3>3, <3>4 DEF SigInv
  <2> QED
    BY <2>4, <2>5
<1>9. ASSUME NEW j \in Slots, JobFails(j) PROVE SigInv'
  <2>1. UNCHANGED <<page, signedBy>>
    BY <1>9 DEF JobFails
  <2>2. \A k \in Slots : HeldInv(k)'
    BY <1>9, FailureEffect DEF SigInv, HeldInv
  <2> QED
    BY <2>1, <2>2, PagesKept
<1>10. ASSUME HubNames PROVE SigInv'
  BY <1>10, SigFrame DEF HubNames
<1>11. ASSUME MixedRow PROVE SigInv'
  BY <1>11, SigFrame DEF MixedRow
<1>12. ASSUME MixedPage PROVE SigInv'
  <2>1. UNCHANGED <<signedBy, jobs>>
    BY <1>12 DEF MixedPage
  <2>2. PICK v \in tags, w \in tags :
          /\ \A x \in Versions : x # v => page'[x] = page[x]
          /\ \/ page'[v].sums = page[v].sums /\ page'[v].sig = page[v].sig
             \/ /\ signedBy[w] # None
                /\ page'[v].sums = page[w].sums /\ page'[v].sig = page[w].sig
    BY <1>12, MixedPageEffect
  <2>3. PageInv(v) /\ PageInv(w) /\ v \in Versions
    BY DEF TypeOK, SigInv
  <2>4. PageInv(v)'
    BY <2>1, <2>2, <2>3 DEF PageInv, Sound
  <2>5. \A x \in Versions : x # v => PageInv(x)'
    BY <2>1, <2>2, PageKept
  <2> QED
    BY <2>1, <2>4, <2>5 DEF SigInv, HeldInv
<1>13. ASSUME NEW c \in Collectors, LooksAtNamed(c) PROVE SigInv'
  BY <1>13, SigFrame DEF LooksAtNamed
<1>14. ASSUME NEW c \in Collectors, ReadsSums(c) PROVE SigInv'
  BY <1>14, SigFrame DEF ReadsSums
<1>15. ASSUME NEW c \in Collectors, ReadsSig(c) PROVE SigInv'
  BY <1>15, SigFrame DEF ReadsSig
<1>16. ASSUME NEW c \in Collectors, Installs(c) PROVE SigInv'
  BY <1>16, SigFrame DEF Installs
<1>17. ASSUME NEW c \in Collectors, UpdateFails(c) PROVE SigInv'
  BY <1>17, SigFrame DEF UpdateFails
<1>18. CASE UNCHANGED vars
  BY <1>18, SigFrame DEF vars
<1> QED
  BY <1>1, <1>2, <1>3, <1>4, <1>5, <1>6, <1>7, <1>8, <1>9, <1>10, <1>11, <1>12,
     <1>13, <1>14, <1>15, <1>16, <1>17, <1>18
     DEF Next, Works, Updates, Uploading

-----------------------------------------------------------------------------
\* What a collector relies on does not change under it.

LEMMA CheckedKept ==
  ASSUME TypeOK, CheckedInv, NEW c \in Collectors,
         upd'[c] = upd[c], runs'[c] = runs[c],
         builds'[runs[c]] = builds[runs[c]],
         \A w \in Versions : signedBy[w] # None => signedBy'[w] = signedBy[w]
  PROVE  CheckedFor(c)'
<1>1. CheckedFor(c)
  BY DEF CheckedInv
<1>2. upd[c].step # "waits" => upd[c].row.version \in Versions
  BY DEF TypeOK, Lookups, Rows
<1>3. None \notin builds[runs[c]].keys
  BY NoneAssumption DEF TypeOK
<1> QED
  BY <1>1, <1>2, <1>3 DEF CheckedFor, Verifying

LEMMA CheckedStep ==
  ASSUME TypeOK, TagInv, SigInv, CheckedInv, [Next]_vars
  PROVE  CheckedInv'
<1> USE DEF main, github, fleet
<1>1. ASSUME AddKey PROVE CheckedInv'
  <2>1. UNCHANGED <<builds, signedBy, runs, upd>>
    BY <1>1 DEF AddKey
  <2> QED
    BY <2>1, CheckedKept DEF CheckedInv
<1>2. ASSUME ReplaceSecret PROVE CheckedInv'
  <2>1. UNCHANGED <<builds, signedBy, runs, upd>>
    BY <1>2 DEF ReplaceSecret
  <2> QED
    BY <2>1, CheckedKept DEF CheckedInv
<1>3. ASSUME RemoveOldKey PROVE CheckedInv'
  <2>1. UNCHANGED <<builds, signedBy, runs, upd>>
    BY <1>3 DEF RemoveOldKey
  <2> QED
    BY <2>1, CheckedKept DEF CheckedInv
<1>4. ASSUME RaiseFloor PROVE CheckedInv'
  <2>1. UNCHANGED <<builds, signedBy, runs, upd>>
    BY <1>4 DEF RaiseFloor
  <2> QED
    BY <2>1, CheckedKept DEF CheckedInv
<1>5. ASSUME NEW j \in Slots, StartRelease(j) PROVE CheckedInv'
  <2>1. UNCHANGED <<builds, signedBy, runs, upd>>
    BY <1>5 DEF StartRelease
  <2> QED
    BY <2>1, CheckedKept DEF CheckedInv
<1>6. ASSUME NEW j \in Slots, FinishRelease(j) PROVE CheckedInv'
  <2>0. PICK v \in Versions : v = jobs[j].version
    BY <1>6, FinishReleaseEffect
  <2>1. /\ v \notin tags
        /\ \A w \in Versions :
             w # v => builds'[w] = builds[w] /\ signedBy'[w] = signedBy[w]
    BY <1>6, <2>0, FinishReleaseEffect
  <2>2. UNCHANGED <<runs, upd>>
    BY <1>6 DEF FinishRelease
  <2>3. \A w \in Versions : signedBy[w] # None => signedBy'[w] = signedBy[w]
    BY <2>1 DEF TagInv
  <2>4. \A c \in Collectors : builds'[runs[c]] = builds[runs[c]]
    BY <2>1 DEF TypeOK, TagInv
  <2> QED
    BY <2>2, <2>3, <2>4, CheckedKept DEF CheckedInv
<1>7. ASSUME NEW j \in Slots, NEW v \in Versions, StartSigning(j, v) PROVE CheckedInv'
  <2>1. UNCHANGED <<builds, signedBy, runs, upd>>
    BY <1>7 DEF StartSigning
  <2> QED
    BY <2>1, CheckedKept DEF CheckedInv
<1>8. ASSUME NEW j \in Slots, Uploading(j) PROVE CheckedInv'
  <2>1. UNCHANGED <<builds, runs, upd>>
    BY <1>8, UploadEffect
  <2>2. \A w \in Versions : signedBy[w] # None => signedBy'[w] = signedBy[w]
    BY <1>8
       DEF TypeOK, SigInv, PageInv, Uploading, PutVersion, DeleteSums, PutSums,
           PutSig
  <2> QED
    BY <2>1, <2>2, CheckedKept DEF CheckedInv
<1>9. ASSUME NEW j \in Slots, JobFails(j) PROVE CheckedInv'
  <2>1. UNCHANGED <<builds, signedBy, runs, upd>>
    BY <1>9 DEF JobFails
  <2> QED
    BY <2>1, CheckedKept DEF CheckedInv
<1>10. ASSUME HubNames PROVE CheckedInv'
  <2>1. UNCHANGED <<builds, signedBy, runs, upd>>
    BY <1>10 DEF HubNames
  <2> QED
    BY <2>1, CheckedKept DEF CheckedInv
<1>11. ASSUME MixedRow PROVE CheckedInv'
  <2>1. UNCHANGED <<builds, signedBy, runs, upd>>
    BY <1>11 DEF MixedRow
  <2> QED
    BY <2>1, CheckedKept DEF CheckedInv
<1>12. ASSUME MixedPage PROVE CheckedInv'
  <2>1. UNCHANGED <<builds, signedBy, runs, upd>>
    BY <1>12 DEF MixedPage
  <2> QED
    BY <2>1, CheckedKept DEF CheckedInv
<1>13. ASSUME NEW c \in Collectors, LooksAtNamed(c) PROVE CheckedInv'
  <2>1. /\ UNCHANGED <<builds, signedBy>>
        /\ \A e \in Collectors : e # c => upd'[e] = upd[e] /\ runs'[e] = runs[e]
    BY <1>13 DEF TypeOK, LooksAtNamed
  <2>2. CheckedFor(c)'
    <3>1. /\ upd'[c].row = named /\ runs'[c] = runs[c]
          /\ upd'[c].step = IF Verifying(c) THEN "sums" ELSE "binary"
      BY <1>13 DEF TypeOK, LooksAtNamed, Waiting
    <3>2. Verifying(c) => Acceptable(c, named)
      BY <1>13 DEF LooksAtNamed
    <3> QED
      BY <2>1, <3>1, <3>2 DEF CheckedFor, Verifying, Acceptable
  <2> QED
    BY <2>1, <2>2, CheckedKept DEF CheckedInv
<1>14. ASSUME NEW c \in Collectors, ReadsSums(c) PROVE CheckedInv'
  <2>1. /\ UNCHANGED <<builds, signedBy>>
        /\ \A e \in Collectors : e # c => upd'[e] = upd[e] /\ runs'[e] = runs[e]
    BY <1>14 DEF TypeOK, ReadsSums
  <2>2. CheckedFor(c)'
    <3>1. /\ upd[c].step = "sums" /\ upd'[c].row = upd[c].row
          /\ upd'[c].step = "sig" /\ runs'[c] = runs[c]
      BY <1>14 DEF TypeOK, ReadsSums, Lookups
    <3> QED
      BY <2>1, <3>1 DEF CheckedInv, CheckedFor, Verifying
  <2> QED
    BY <2>1, <2>2, CheckedKept DEF CheckedInv
<1>15. ASSUME NEW c \in Collectors, ReadsSig(c) PROVE CheckedInv'
  <2>1. /\ UNCHANGED <<builds, signedBy>>
        /\ \A e \in Collectors : e # c => upd'[e] = upd[e] /\ runs'[e] = runs[e]
    BY <1>15 DEF TypeOK, ReadsSig
  <2>2. CheckedFor(c)'
    <3>1. /\ upd[c].step = "sig" /\ upd'[c].row = upd[c].row
          /\ upd'[c].step = "binary" /\ runs'[c] = runs[c]
          /\ upd[c].row \in Rows
      BY <1>15 DEF TypeOK, ReadsSig, Lookups
    <3> DEFINE row == upd[c].row
    <3>2. /\ page[row.at].sig # None
          /\ page[row.at].sig.key \in builds[runs[c]].keys
          /\ page[row.at].sig.over = upd[c].sums
          /\ upd[c].sums.names = row.version /\ upd[c].sums.bin = row.sha
      BY <1>15 DEF ReadsSig, Verified
    <3>3. Sound(page[row.at].sig)
      BY <3>1, <3>2, SignatureOnPage DEF Rows
    <3>4. row.sha = row.version /\ signedBy[row.version] \in builds[runs[c]].keys
      BY <3>2, <3>3 DEF Sound
    <3> QED
      BY <2>1, <3>1, <3>4 DEF CheckedInv, CheckedFor, Verifying
  <2> QED
    BY <2>1, <2>2, CheckedKept DEF CheckedInv
<1>16. ASSUME NEW c \in Collectors, Installs(c) PROVE CheckedInv'
  <2>1. /\ UNCHANGED <<builds, signedBy>>
        /\ \A e \in Collectors : e # c => upd'[e] = upd[e] /\ runs'[e] = runs[e]
    BY <1>16 DEF TypeOK, Installs
  <2>2. CheckedFor(c)'
    <3>1. upd'[c].step = "waits"
      BY <1>16 DEF TypeOK, Installs, Waiting
    <3> QED
      BY <3>1 DEF CheckedFor
  <2> QED
    BY <2>1, <2>2, CheckedKept DEF CheckedInv
<1>17. ASSUME NEW c \in Collectors, UpdateFails(c) PROVE CheckedInv'
  <2>1. /\ UNCHANGED <<builds, signedBy>>
        /\ \A e \in Collectors : e # c => upd'[e] = upd[e] /\ runs'[e] = runs[e]
    BY <1>17 DEF TypeOK, UpdateFails
  <2>2. CheckedFor(c)'
    <3>1. upd'[c].step = "waits"
      BY <1>17 DEF TypeOK, UpdateFails, Waiting
    <3> QED
      BY <3>1 DEF CheckedFor
  <2> QED
    BY <2>1, <2>2, CheckedKept DEF CheckedInv
<1>18. CASE UNCHANGED vars
  <2>1. UNCHANGED <<builds, signedBy, runs, upd>>
    BY <1>18 DEF vars
  <2> QED
    BY <2>1, CheckedKept DEF CheckedInv
<1> QED
  BY <1>1, <1>2, <1>3, <1>4, <1>5, <1>6, <1>7, <1>8, <1>9, <1>10, <1>11, <1>12,
     <1>13, <1>14, <1>15, <1>16, <1>17, <1>18
     DEF Next, Works, Updates, Uploading

LEMMA TrustInit == Init => TrustInv
<1> SUFFICES ASSUME Init PROVE TrustInv
  OBVIOUS
<1>1. TypeOK
  BY TypeInit
<1>2. TagInv
  BY VersionAssumption DEF Init, TagInv, Resting, Waiting, Signing
<1>3. SigInv
  BY DEF Init, SigInv, PageInv, HeldInv, Sound, Resting, Signing
<1>4. CheckedInv
  BY DEF Init, CheckedInv, CheckedFor, Waiting
<1> QED
  BY <1>1, <1>2, <1>3, <1>4 DEF TrustInv

LEMMA TrustAlways == Spec => []TrustInv
<1>1. TrustInv /\ [Next]_vars => TrustInv'
  BY TypeStep, TagStep, SigStep, CheckedStep DEF TrustInv
<1> QED
  BY <1>1, TrustInit, PTL DEF Spec

LEMMA InstallStep ==
  ASSUME TrustInv, [Next]_vars, NEW c \in Collectors,
         runs'[c] # runs[c], Verifying(c)
  PROVE  /\ runs'[c] = upd[c].row.version
         /\ signedBy[runs'[c]] \in builds[runs[c]].keys
         /\ AtLeast(runs'[c], builds[runs[c]].floor)
<1>1. ASSUME NEW e \in Collectors, Updates(e), ~Installs(c) PROVE FALSE
  BY <1>1 DEF TrustInv, TypeOK, Updates, LooksAtNamed, ReadsSums, ReadsSig,
              Installs, UpdateFails
<1>2. ASSUME NEW j \in Slots, Works(j) PROVE FALSE
  BY <1>2 DEF Works, StartRelease, FinishRelease, StartSigning, PutVersion,
              DeleteSums, PutSums, PutSig, Uploads, JobFails, fleet
<1>3. Installs(c)
  BY <1>1, <1>2 DEF Next, AddKey, ReplaceSecret, RemoveOldKey, RaiseFloor,
                    HubNames, MixedRow, MixedPage, fleet, vars
<1>4. /\ upd[c].step = "binary"
      /\ runs'[c] = upd[c].row.sha
  BY <1>3 DEF TrustInv, TypeOK, Installs
<1>5. CheckedFor(c)
  BY DEF TrustInv, CheckedInv
<1> QED
  BY <1>4, <1>5 DEF CheckedFor

\* For any number of collectors, keys, releases and mistakes, a verifying
\* collector comes to run only the release its row named, signed with a key it
\* trusts and not below its floor.
THEOREM OnlyTheNamedBuild == Spec => InstallsTheNamedBuild
<1> DEFINE Right(c) ==
      /\ runs'[c] = upd[c].row.version
      /\ signedBy[runs'[c]] \in builds[runs[c]].keys
      /\ AtLeast(runs'[c], builds[runs[c]].floor)
<1>1. TrustInv /\ [Next]_vars =>
        [\A c \in Collectors : runs'[c] # runs[c] /\ Verifying(c) => Right(c)]_vars
  BY InstallStep
<1> QED
  BY <1>1, TrustAlways, PTL DEF Spec, InstallsTheNamedBuild

-----------------------------------------------------------------------------
\* Numbers

LEMMA RiseStep ==
  ASSUME TypeOK, RiseInv, [Next]_vars
  PROVE  RiseInv'
<1> USE DEF main, github, fleet
<1>1. ASSUME AddKey PROVE RiseInv'
  BY <1>1 DEF RiseInv, AddKey
<1>2. ASSUME ReplaceSecret PROVE RiseInv'
  BY <1>2 DEF RiseInv, ReplaceSecret
<1>3. ASSUME RemoveOldKey PROVE RiseInv'
  BY <1>3 DEF RiseInv, RemoveOldKey
<1>4. ASSUME RaiseFloor PROVE RiseInv'
  BY <1>4 DEF RiseInv, RaiseFloor
<1>5. ASSUME NEW j \in Slots, StartRelease(j) PROVE RiseInv'
  <2>1. \A k \in Slots : jobs[k].step = "rests"
    BY <1>5 DEF StartRelease, Admitted, Resting
  <2>2. tags' = tags
    BY <1>5 DEF StartRelease
  <2> QED
    BY <1>5, <2>1, <2>2, StartReleaseEffect DEF RiseInv
<1>6. ASSUME NEW j \in Slots, FinishRelease(j) PROVE RiseInv'
  <2>1. /\ jobs[j].step = "built" /\ jobs'[j].step = "rests"
        /\ \A k \in Slots : k # j => jobs'[k] = jobs[k]
    BY <1>6, FinishReleaseEffect
  <2>2. \A k \in Slots : jobs'[k].step = "rests"
    BY <2>1 DEF RiseInv
  <2> QED
    BY <2>2 DEF RiseInv
<1>7. ASSUME NEW j \in Slots, NEW v \in Versions, StartSigning(j, v) PROVE RiseInv'
  <2>1. \A k \in Slots : jobs[k].step = "rests"
    BY <1>7 DEF StartSigning, Admitted, Resting
  <2>2. /\ jobs'[j].step = "mark"
        /\ \A k \in Slots : k # j => jobs'[k] = jobs[k]
    BY <1>7, StartSigningEffect
  <2> QED
    BY <2>1, <2>2 DEF RiseInv
<1>8. ASSUME NEW j \in Slots, Uploading(j) PROVE RiseInv'
  <2>1. /\ jobs[j].step # "rests" /\ jobs'[j].step # "built" /\ tags' = tags
        /\ \A k \in Slots : k # j => jobs'[k] = jobs[k]
    BY <1>8, UploadEffect DEF Signing
  <2> QED
    BY <2>1 DEF RiseInv
<1>9. ASSUME NEW j \in Slots, JobFails(j) PROVE RiseInv'
  <2>1. tags' = tags
    BY <1>9 DEF JobFails
  <2> QED
    BY <1>9, <2>1, FailureEffect DEF RiseInv
<1>10. ASSUME HubNames PROVE RiseInv'
  BY <1>10 DEF RiseInv, HubNames
<1>11. ASSUME MixedRow PROVE RiseInv'
  BY <1>11 DEF RiseInv, MixedRow
<1>12. ASSUME MixedPage PROVE RiseInv'
  BY <1>12 DEF RiseInv, MixedPage
<1>13. ASSUME NEW c \in Collectors, LooksAtNamed(c) PROVE RiseInv'
  BY <1>13 DEF RiseInv, LooksAtNamed
<1>14. ASSUME NEW c \in Collectors, ReadsSums(c) PROVE RiseInv'
  BY <1>14 DEF RiseInv, ReadsSums
<1>15. ASSUME NEW c \in Collectors, ReadsSig(c) PROVE RiseInv'
  BY <1>15 DEF RiseInv, ReadsSig
<1>16. ASSUME NEW c \in Collectors, Installs(c) PROVE RiseInv'
  BY <1>16 DEF RiseInv, Installs
<1>17. ASSUME NEW c \in Collectors, UpdateFails(c) PROVE RiseInv'
  BY <1>17 DEF RiseInv, UpdateFails
<1>18. CASE UNCHANGED vars
  BY <1>18 DEF vars, RiseInv
<1> QED
  BY <1>1, <1>2, <1>3, <1>4, <1>5, <1>6, <1>7, <1>8, <1>9, <1>10, <1>11, <1>12,
     <1>13, <1>14, <1>15, <1>16, <1>17, <1>18
     DEF Next, Works, Updates, Uploading

LEMMA RiseInit == Init => RiseInv
BY DEF Init, RiseInv, Resting

LEMMA TagsStep ==
  ASSUME TypeOK, RiseInv, [Next]_vars, NEW v \in tags' \ tags, NEW w \in tags
  PROVE  Above(v, w)
<1>1. ASSUME NEW c \in Collectors, Updates(c) PROVE FALSE
  BY <1>1 DEF Updates, LooksAtNamed, ReadsSums, ReadsSig, Installs, UpdateFails,
              github
<1>2. ASSUME NEW j \in Slots, Works(j), ~FinishRelease(j) PROVE FALSE
  BY <1>2 DEF Works, StartRelease, StartSigning, PutVersion, DeleteSums,
              PutSums, PutSig, Uploads, JobFails, github
<1>3. PICK j \in Slots : FinishRelease(j)
  BY <1>1, <1>2 DEF Next, AddKey, ReplaceSecret, RemoveOldKey, RaiseFloor,
                    HubNames, MixedRow, MixedPage, github, vars
<1>4. v = jobs[j].version /\ jobs[j].step = "built"
  <2>1. tags' = tags \cup {jobs[j].version} /\ jobs[j].step = "built"
    BY <1>3 DEF FinishRelease
  <2> QED
    BY <2>1
<1> QED
  BY <1>4 DEF RiseInv

\* Whatever the order of pushes, failures and publications, a release is above
\* every one before it.
THEOREM NumbersOnlyRise == Spec => VersionsOnlyRise
<1>1. TypeOK /\ RiseInv /\ [Next]_vars => RiseInv'
  BY RiseStep
<1>2. TypeOK /\ RiseInv /\ [Next]_vars =>
        [\A v \in tags' \ tags, w \in tags : Above(v, w)]_vars
  BY TagsStep
<1> QED
  BY <1>1, <1>2, TypeInit, TypeStep, RiseInit, PTL DEF Spec, VersionsOnlyRise

-----------------------------------------------------------------------------
\* Through a rotation

LEMMA RotationInit == Init => RotationInv
<1> SUFFICES ASSUME Init PROVE RotationInv
  OBVIOUS
<1>1. Trusting = {} /\ \A v \in Legacy : v \in Versions
  BY VersionAssumption DEF Init, Trusting
<1>2. SourceInv
  BY <1>1, VersionAssumption DEF Init, SourceInv, Consecutive
<1>3. BuildInv
  BY DEF Init, BuildInv, BuildFor, Resting
<1>4. ReleasesInv
  BY <1>1 DEF Init, ReleasesInv
<1>5. BridgeInv
  BY <1>1 DEF BridgeInv
<1> QED
  BY <1>2, <1>3, <1>4, <1>5 DEF RotationInv

\* What is typed about keys.
LEMMA KeyTypes ==
  ASSUME TypeOK, TagInv
  PROVE  /\ secret \in Int /\ source.keys \subseteq Int
         /\ \A v \in tags : v \in Versions /\ builds[v].keys \subseteq Int
         /\ \A v \in tags : builds[v].floor \in Versions
         /\ Trusting \subseteq tags /\ tags \subseteq Versions
         /\ \A j \in Slots : /\ jobs[j].keys \subseteq Int
                             /\ jobs[j].step = "built" => jobs[j].key \in Int
<1>1. Keys \subseteq Int
  BY DEF Keys
<1>2. \A j \in Slots : /\ jobs[j].keys \in SUBSET Keys
                       /\ jobs[j].step = "built" => jobs[j].key \in Keys
  BY FieldsOfAJob DEF TypeOK
<1> QED
  BY <1>1, <1>2 DEF TypeOK, Trusting

LEMMA CoversSelf ==
  ASSUME NEW K \in SUBSET Int
  PROVE  Covers(K, K)
BY DEF Covers

LEMMA CoversTransitive ==
  ASSUME NEW K \in SUBSET Int, NEW L \in SUBSET Int, NEW M \in SUBSET Int,
         Covers(K, L), Covers(L, M)
  PROVE  Covers(K, M)
<1> SUFFICES ASSUME NEW x \in M PROVE \E y \in K : x <= y
  BY DEF Covers
<1>1. PICK z \in L : x <= z
  BY DEF Covers
<1>2. PICK y \in K : z <= y
  BY DEF Covers
<1>3. x <= y
  BY <1>1, <1>2
<1> QED
  BY <1>3

\* Nothing of it changes but jobs that build nothing, and history of releases
\* that trust nothing.
LEMMA RotationKept ==
  ASSUME TypeOK, TagInv, RotationInv, UNCHANGED <<source, secret, tags, builds>>,
         \A v \in Trusting : signedBy'[v] = signedBy[v],
         \A j \in Slots : jobs'[j].step = "built" => jobs'[j] = jobs[j]
  PROVE  RotationInv'
<1>1. Trusting' = Trusting
  BY DEF Trusting
<1>2. SourceInv'
  BY <1>1 DEF RotationInv, SourceInv
<1>3. BuildInv'
  BY <1>1 DEF RotationInv, BuildInv, BuildFor
<1>4. ReleasesInv'
  BY <1>1 DEF RotationInv, ReleasesInv
<1>5. BridgeInv'
  BY <1>1 DEF RotationInv, BridgeInv, Bridged
<1> QED
  BY <1>2, <1>3, <1>4, <1>5 DEF RotationInv

LEMMA AddKeyRotation ==
  ASSUME TypeOK, TagInv, RotationInv, AddKey
  PROVE  RotationInv'
<1> USE DEF github
<1>1. /\ source.keys = {secret} /\ source'.keys = {secret, secret + 1}
      /\ source'.floor = source.floor
      /\ UNCHANGED <<secret, tags, builds, signedBy, jobs>>
  BY DEF TypeOK, AddKey
<1>2. Trusting' = Trusting /\ secret \in Int
  BY <1>1, KeyTypes DEF Trusting
<1>3. Covers(source'.keys, source.keys)
  BY <1>1, <1>2 DEF Covers
<1>4. \A K \in SUBSET Int : Covers(source.keys, K) => Covers(source'.keys, K)
  BY <1>1, <1>2, <1>3, CoversTransitive
<1>5. SourceInv'
  <2>1. secret' \in source'.keys /\ Consecutive(source'.keys)
        /\ \A x \in source'.keys : x <= secret' + 1
    BY <1>1, <1>2 DEF Consecutive
  <2>2. source'.floor \in tags'
    BY <1>1 DEF RotationInv, SourceInv
  <2>3. \A v \in Trusting : Covers(source'.keys, builds[v].keys)
    BY <1>4, KeyTypes DEF RotationInv, SourceInv
  <2> QED
    BY <1>1, <1>2, <2>1, <2>2, <2>3 DEF SourceInv
<1>6. BuildInv'
  BY <1>1, <1>2, <1>4, KeyTypes DEF RotationInv, BuildInv, BuildFor
<1>7. ReleasesInv' /\ BridgeInv'
  BY <1>1, <1>2 DEF RotationInv, ReleasesInv, BridgeInv, Bridged
<1> QED
  BY <1>5, <1>6, <1>7 DEF RotationInv

LEMMA RemoveOldKeyRotation ==
  ASSUME TypeOK, TagInv, RotationInv, RemoveOldKey
  PROVE  RotationInv'
<1> USE DEF github
<1>1. /\ source'.keys = {secret} /\ source'.floor = source.floor
      /\ UNCHANGED <<secret, tags, builds, signedBy, jobs>>
  BY DEF TypeOK, RemoveOldKey
<1>2. Trusting' = Trusting /\ secret \in Int /\ source.keys \subseteq Int
  BY <1>1, KeyTypes DEF Trusting
\* The key removed was the older of two.
<1>3. \A x \in source.keys : x <= secret
  <2>1. PICK k \in source.keys : k < secret
    BY DEF RemoveOldKey
  <2>2. \A x \in source.keys : x <= k + 1
    BY <2>1 DEF RotationInv, SourceInv, Consecutive
  <2> QED
    BY <1>2, <2>1, <2>2
<1>4. \A K \in SUBSET Int : Covers(source.keys, K) => Covers(source'.keys, K)
  <2>1. Covers(source'.keys, source.keys)
    BY <1>1, <1>3 DEF Covers
  <2> QED
    BY <1>1, <1>2, <2>1, CoversTransitive
<1>5. SourceInv'
  <2>1. secret' \in source'.keys /\ Consecutive(source'.keys)
        /\ \A x \in source'.keys : x <= secret' + 1
    BY <1>1, <1>2 DEF Consecutive
  <2>2. source'.floor \in tags'
    BY <1>1 DEF RotationInv, SourceInv
  <2>3. \A v \in Trusting : Covers(source'.keys, builds[v].keys)
    BY <1>4, KeyTypes DEF RotationInv, SourceInv
  <2> QED
    BY <1>1, <1>2, <2>1, <2>2, <2>3 DEF SourceInv
<1>6. BuildInv'
  BY <1>1, <1>2, <1>4, KeyTypes DEF RotationInv, BuildInv, BuildFor
<1>7. ReleasesInv' /\ BridgeInv'
  BY <1>1, <1>2 DEF RotationInv, ReleasesInv, BridgeInv, Bridged
<1> QED
  BY <1>5, <1>6, <1>7 DEF RotationInv

LEMMA RaiseFloorRotation ==
  ASSUME TypeOK, TagInv, RotationInv, RaiseFloor
  PROVE  RotationInv'
<1> USE DEF github
<1>1. /\ source'.keys = source.keys /\ source'.floor \in tags
      /\ UNCHANGED <<secret, tags, builds, signedBy, jobs>>
  BY DEF TypeOK, RaiseFloor
<1>2. Trusting' = Trusting
  BY <1>1 DEF Trusting
<1>3. SourceInv'
  BY <1>1, <1>2 DEF RotationInv, SourceInv
<1>4. BuildInv'
  BY <1>1, <1>2 DEF RotationInv, BuildInv, BuildFor
<1>5. ReleasesInv' /\ BridgeInv'
  BY <1>1, <1>2 DEF RotationInv, ReleasesInv, BridgeInv, Bridged
<1> QED
  BY <1>3, <1>4, <1>5 DEF RotationInv

LEMMA StartReleaseRotation ==
  ASSUME TypeOK, TagInv, RotationInv, NEW j \in Slots, StartRelease(j)
  PROVE  RotationInv'
<1> USE DEF main, github
<1>1. /\ jobs'[j].keys = source.keys /\ jobs'[j].floor = source.floor
      /\ jobs'[j].key = secret
      /\ \A k \in Slots : k # j => jobs'[k] = jobs[k]
      /\ UNCHANGED <<source, secret, tags, builds, signedBy>>
  BY DEF TypeOK, StartRelease
<1>2. Trusting' = Trusting
  BY <1>1 DEF Trusting
<1>3. SourceInv'
  BY <1>1, <1>2 DEF RotationInv, SourceInv
<1>4. BuildInv'
  <2>1. BuildFor(j)'
    <3>1. secret <= secret /\ secret <= secret + 1 /\ ~(secret < secret)
      BY KeyTypes
    <3>2. \A v \in Trusting : /\ Covers(source.keys, builds[v].keys)
                              /\ signedBy[v] <= secret
      BY DEF RotationInv, SourceInv, ReleasesInv
    <3> QED
      BY <1>1, <1>2, <3>1, <3>2, KeyTypes, CoversSelf
         DEF RotationInv, SourceInv, BuildFor
  <2>2. \A k \in Slots : k # j => BuildFor(k)'
    BY <1>1, <1>2 DEF RotationInv, BuildInv, BuildFor
  <2> QED
    BY <2>1, <2>2 DEF BuildInv
<1>5. ReleasesInv' /\ BridgeInv'
  BY <1>1, <1>2 DEF RotationInv, ReleasesInv, BridgeInv, Bridged
<1> QED
  BY <1>3, <1>4, <1>5 DEF RotationInv

\* Versions are in order.
LEMMA AboveOrders ==
  ASSUME NEW u \in Versions, NEW v \in Versions, NEW w \in Versions
  PROVE  /\ Above(u, v) /\ Above(v, w) => Above(u, w)
         /\ ~(Above(u, v) /\ Above(v, u)) /\ ~Above(u, u)
         /\ u = v \/ Above(u, v) \/ Above(v, u)
<1>1. \A x \in Versions : x = <<x[1], x[2]>> /\ x[1] \in Int /\ x[2] \in Int
  <2> SUFFICES ASSUME NEW x \in Series \X (0 .. MaxPatch)
               PROVE  x = <<x[1], x[2]>> /\ x[1] \in Int /\ x[2] \in Int
    BY DEF Versions
  <2>1. Series \subseteq Int /\ 0 .. MaxPatch \subseteq Int
    BY VersionAssumption
  <2>2. x[1] \in Series /\ x[2] \in 0 .. MaxPatch
    OBVIOUS
  <2>3. x = <<x[1], x[2]>>
    OBVIOUS
  <2> QED
    BY <2>1, <2>2, <2>3
<1>2. u[1] = v[1] /\ u[2] = v[2] => u = v
  BY <1>1, Zenon
<1>3. /\ Above(u, v) /\ Above(v, w) => Above(u, w)
      /\ ~(Above(u, v) /\ Above(v, u)) /\ ~Above(u, u)
  BY <1>1 DEF Above
<1>4. (u[1] = v[1] /\ u[2] = v[2]) \/ Above(u, v) \/ Above(v, u)
  BY <1>1 DEF Above
<1> QED
  BY <1>2, <1>3, <1>4

LEMMA FinishReleaseRotation ==
  ASSUME TypeOK, TagInv, RiseInv, RotationInv, NEW j \in Slots, FinishRelease(j)
  PROVE  RotationInv'
<1>0. PICK v \in Versions, K \in SUBSET Keys, key \in Keys :
        v = jobs[j].version /\ K = jobs[j].keys /\ key = jobs[j].key
  BY FinishReleaseEffect, FieldsOfAJob DEF TypeOK
<1> USE DEF main
<1>1. /\ v \notin tags /\ tags' = tags \cup {v}
      /\ jobs[j].step = "built" /\ key \in K
      /\ builds'[v].keys = K /\ builds'[v].floor = jobs[j].floor
      /\ signedBy'[v] = key
      /\ UNCHANGED <<source, secret>>
  BY <1>0, FinishReleaseEffect DEF TypeOK, FinishRelease
<1>2. /\ \A w \in Versions : w # v => builds'[w] = builds[w]
                                     /\ signedBy'[w] = signedBy[w]
      /\ \A w \in tags : builds'[w] = builds[w] /\ signedBy'[w] = signedBy[w]
      /\ \A k \in Slots : jobs'[k].step = "rests"
  <2>1. \A w \in Versions : w # v => builds'[w] = builds[w]
                                     /\ signedBy'[w] = signedBy[w]
    BY <1>0, FinishReleaseEffect
  <2>2. \A k \in Slots : jobs'[k].step = "rests"
    <3>1. /\ \A k \in Slots : k # j => jobs'[k] = jobs[k]
          /\ jobs[j].step = "built" /\ jobs'[j].step = "rests"
      BY FinishReleaseEffect
    <3>2. \A k \in Slots : k # j => jobs[k].step = "rests"
      BY <3>1 DEF RiseInv
    <3> QED
      BY <3>1, <3>2
  <2> QED
    BY <1>1, <2>1, <2>2, KeyTypes
<1>3. /\ Trusting' = Trusting \cup {v} /\ v \notin Trusting
      /\ Trusting \subseteq tags /\ Legacy \subseteq tags
  BY <1>1 DEF Trusting, TagInv
<1>4. ~Above(v, v) /\ \A w \in tags : Above(v, w) /\ ~Above(w, v)
  BY <1>0, <1>1, AboveOrders, KeyTypes DEF RiseInv
<1>5. BuildFor(j) /\ K \subseteq Int /\ key \in Int /\ secret \in Int
  BY <1>0, <1>1, KeyTypes DEF RotationInv, BuildInv, Keys
<1>6. SourceInv'
  BY <1>0, <1>1, <1>2, <1>3, <1>5 DEF RotationInv, SourceInv, BuildFor
<1>7. BuildInv'
  BY <1>2 DEF BuildInv, BuildFor
<1>8. ReleasesInv'
  <2>1. \A w \in Legacy : builds'[w].keys = {}
    BY <1>2, <1>3 DEF RotationInv, ReleasesInv
  <2>2. \A w \in Trusting :
          /\ Consecutive(builds'[w].keys) /\ Above(w, builds'[w].floor)
          /\ signedBy'[w] \in builds'[w].keys /\ signedBy'[w] <= secret
          /\ \A x \in Legacy : Above(w, x)
    BY <1>2, <1>3 DEF RotationInv, ReleasesInv
  <2>3. /\ Consecutive(builds'[v].keys) /\ Above(v, builds'[v].floor)
        /\ signedBy'[v] \in builds'[v].keys /\ signedBy'[v] <= secret
        /\ \A x \in Legacy : Above(v, x)
    BY <1>0, <1>1, <1>3, <1>4, <1>5, KeyTypes DEF BuildFor
  <2>4. \A x, w \in Trusting :
          Above(w, x) => /\ Covers(builds'[w].keys, builds'[x].keys)
                         /\ signedBy'[x] <= signedBy'[w]
    BY <1>2, <1>3 DEF RotationInv, ReleasesInv
  <2>5. \A x \in Trusting :
          Covers(builds'[v].keys, builds'[x].keys) /\ signedBy'[x] <= signedBy'[v]
    BY <1>0, <1>1, <1>2, <1>3, <1>5 DEF RotationInv, ReleasesInv, BuildFor
  <2>6. \A x, w \in Trusting' :
          Above(w, x) => /\ Covers(builds'[w].keys, builds'[x].keys)
                         /\ signedBy'[x] <= signedBy'[w]
    <3> SUFFICES ASSUME NEW x \in Trusting', NEW w \in Trusting', Above(w, x)
                 PROVE  /\ Covers(builds'[w].keys, builds'[x].keys)
                        /\ signedBy'[x] <= signedBy'[w]
      OBVIOUS
    <3>1. CASE x = v
      <4>1. ~Above(w, v)
        BY <1>3, <1>4
      <4> QED
        BY <3>1, <4>1
    <3>2. CASE x \in Trusting /\ w = v
      BY <3>2, <2>5
    <3>3. CASE x \in Trusting /\ w \in Trusting
      BY <3>3, <2>4
    <3> QED
      BY <1>3, <3>1, <3>2, <3>3
  <2> QED
    BY <1>1, <1>3, <2>1, <2>2, <2>3, <2>6 DEF ReleasesInv
<1>9. BridgeInv'
  <2>1. ASSUME NEW w \in Trusting, NEW k \in builds[w].keys, k < secret
        PROVE  Bridged(w, k)'
    <3>1. Bridged(w, k)
      BY <2>1 DEF RotationInv, BridgeInv
    <3> QED
      BY <3>1, <1>2, <1>3 DEF Bridged
  <2>2. ASSUME NEW k \in K, k < secret
        PROVE  Bridged(v, k)'
    <3>1. /\ key <= k + 1 /\ k <= key + 1 /\ secret <= key + 1
          /\ key < secret => secret \in K
      BY <1>0, <1>1, <1>5 DEF BuildFor, Consecutive
    <3>2. k + 1 = key \/ (k + 1 = secret /\ key < secret)
      BY <3>1, <2>2, <1>5
    <3>3. k + 1 \in K
      BY <3>1, <3>2, <1>1
    <3> QED
      BY <3>3, <1>1 DEF Bridged
  <2> QED
    BY <1>1, <1>2, <1>3, <2>1, <2>2 DEF BridgeInv
<1> QED
  BY <1>6, <1>7, <1>8, <1>9 DEF RotationInv

\* The new secret is the one after the old, and the release some collector runs
\* bridges the two.
LEMMA ReplaceSecretRotation ==
  ASSUME TypeOK, TagInv, RotationInv, ReplaceSecret, NEW c \in Collectors
  PROVE  RotationInv'
<1> DEFINE b == runs[c]
<1> USE DEF github
<1>1. PICK next \in source.keys :
        next > secret /\ FleetTrusts(next) /\ secret' = next
  BY DEF ReplaceSecret
<1>2. secret' = secret + 1 /\ secret \in Int /\ secret' \in source.keys
  BY <1>1, KeyTypes DEF RotationInv, SourceInv
<1>3. UNCHANGED <<source, tags, builds, signedBy, jobs>> /\ Trusting' = Trusting
  BY DEF ReplaceSecret, Trusting
<1>4. b \in Trusting /\ secret + 1 \in builds[b].keys
  BY <1>1, <1>2 DEF FleetTrusts, TagInv, RotationInv, ReleasesInv, Trusting
<1>5. signedBy[b] = secret
  <2>1. signedBy[b] <= secret /\ secret + 1 <= signedBy[b] + 1
        /\ signedBy[b] \in Int
    BY <1>4, KeyTypes DEF RotationInv, ReleasesInv, Consecutive
  <2> QED
    BY <1>2, <2>1
<1>6. ASSUME NEW v \in Trusting, secret \in builds[v].keys,
             secret + 1 \notin builds[v].keys
      PROVE  AtLeast(b, builds[v].floor)
  <2>1. ~Above(v, b)
    <3> SUFFICES ASSUME Above(v, b) PROVE FALSE
      OBVIOUS
    <3>1. PICK y \in builds[v].keys : secret + 1 <= y
      BY <1>4 DEF RotationInv, ReleasesInv, Covers
    <3>2. y <= secret + 1 /\ y \in Int
      BY <1>6, KeyTypes DEF RotationInv, ReleasesInv, Consecutive
    <3>3. y = secret + 1
      BY <3>1, <3>2, <1>2
    <3> QED
      BY <3>1, <3>3, <1>6
  <2>2. Above(v, builds[v].floor)
    BY DEF RotationInv, ReleasesInv
  <2> QED
    BY <1>4, <2>1, <2>2, AboveOrders, KeyTypes DEF AtLeast
<1> HIDE DEF b
<1>7. BridgeInv'
  <2> SUFFICES ASSUME NEW v \in Trusting, NEW k \in builds[v].keys, k < secret + 1
               PROVE  Bridged(v, k)
    BY <1>2, <1>3 DEF BridgeInv, Bridged
  <2>1. CASE k < secret
    BY <2>1 DEF RotationInv, BridgeInv
  <2>2. CASE k = secret
    BY <2>2, <1>4, <1>5, <1>6 DEF Bridged
  <2>3. k \in Int
    BY KeyTypes
  <2> QED
    BY <1>2, <2>1, <2>2, <2>3
<1>8. SourceInv'
  BY <1>2, <1>3, KeyTypes DEF RotationInv, SourceInv
\* A build under way was handed the secret that is replaced: the fleet trusts no
\* key that came after its start.
<1>9. BuildInv'
  <2> SUFFICES ASSUME NEW j \in Slots, jobs[j].step = "built"
               PROVE  BuildFor(j)'
    BY <1>3 DEF BuildInv, BuildFor
  <2>1. PICK key \in Int, K \in SUBSET Int : key = jobs[j].key /\ K = jobs[j].keys
    BY KeyTypes
  <2>2. /\ BuildFor(j) /\ key <= secret /\ signedBy[b] <= key
        /\ Consecutive(K) /\ Covers(K, builds[b].keys)
    BY <1>4, <2>1 DEF RotationInv, BuildInv, BuildFor
  <2>3. key = secret
    BY <1>2, <1>5, <2>2
  <2>4. ASSUME key \in K PROVE secret + 1 \in K
    <3>1. PICK y \in K : secret + 1 <= y
      BY <1>4, <2>2 DEF Covers
    <3>2. y <= secret + 1
      BY <2>2, <2>3, <2>4 DEF Consecutive
    <3>3. y = secret + 1
      BY <1>2, <3>1, <3>2
    <3> QED
      BY <3>3
  <2>5. key <= secret' /\ secret' <= key + 1
    BY <1>2, <2>3
  <2> QED
    BY <1>2, <1>3, <2>1, <2>2, <2>4, <2>5 DEF BuildFor
<1>10. ReleasesInv'
  <2>1. \A v \in Trusting : signedBy[v] <= secret'
    BY <1>2, KeyTypes DEF RotationInv, ReleasesInv
  <2> QED
    BY <1>3, <2>1 DEF RotationInv, ReleasesInv
<1> QED
  BY <1>7, <1>8, <1>9, <1>10 DEF RotationInv

LEMMA RotationStep ==
  ASSUME TrustInv, RiseInv, RotationInv, [Next]_vars, Collectors # {}
  PROVE  RotationInv'
<1> USE DEF main, github
<1>1. TypeOK /\ TagInv /\ SigInv
  BY DEF TrustInv
<1>2. ASSUME NEW j \in Slots, NEW v \in Versions, StartSigning(j, v)
      PROVE  RotationInv'
  <2>1. UNCHANGED <<source, secret, tags, builds, signedBy>>
    BY <1>2 DEF StartSigning
  <2>2. \A k \in Slots : jobs'[k].step = "built" => jobs'[k] = jobs[k]
    BY <1>1, <1>2, StartSigningEffect
  <2> QED
    BY <1>1, <2>1, <2>2, RotationKept
<1>3. ASSUME NEW j \in Slots, Uploading(j) PROVE RotationInv'
  <2>1. UNCHANGED <<source, secret, tags, builds>>
    BY <1>1, <1>3, UploadEffect
  <2>2. \A k \in Slots : jobs'[k].step = "built" => jobs'[k] = jobs[k]
    BY <1>1, <1>3, UploadEffect DEF Signing
  \* A release that trusts a key has its signature, and gets no other.
  <2>3. \A v \in Versions : signedBy[v] # None => signedBy'[v] = signedBy[v]
    BY <1>1, <1>3
       DEF TypeOK, SigInv, PageInv, Uploading, PutVersion, DeleteSums, PutSums,
           PutSig
  <2>4. \A v \in Trusting : v \in Versions /\ signedBy[v] # None
    BY <1>1, KeyTypes, NoneAssumption DEF RotationInv, ReleasesInv, TypeOK
  <2> QED
    BY <1>1, <2>1, <2>2, <2>3, <2>4, RotationKept
<1>4. ASSUME NEW j \in Slots, JobFails(j) PROVE RotationInv'
  <2>1. UNCHANGED <<source, secret, tags, builds, signedBy>>
    BY <1>4 DEF JobFails
  <2>2. \A k \in Slots : jobs'[k].step = "built" => jobs'[k] = jobs[k]
    BY <1>1, <1>4, FailureEffect
  <2> QED
    BY <1>1, <2>1, <2>2, RotationKept
<1>5. ASSUME HubNames \/ MixedRow \/ MixedPage PROVE RotationInv'
  <2>1. UNCHANGED <<source, secret, tags, builds, signedBy, jobs>>
    BY <1>5 DEF HubNames, MixedRow, MixedPage
  <2> QED
    BY <1>1, <2>1, RotationKept
<1>6. ASSUME NEW c \in Collectors, Updates(c) PROVE RotationInv'
  <2>1. UNCHANGED <<source, secret, tags, builds, signedBy, jobs>>
    BY <1>6 DEF Updates, LooksAtNamed, ReadsSums, ReadsSig, Installs, UpdateFails
  <2> QED
    BY <1>1, <2>1, RotationKept
<1>7. ASSUME UNCHANGED vars PROVE RotationInv'
  <2>1. UNCHANGED <<source, secret, tags, builds, signedBy, jobs>>
    BY <1>7 DEF vars
  <2> QED
    BY <1>1, <2>1, RotationKept
<1>8. ASSUME AddKey \/ ReplaceSecret \/ RemoveOldKey \/ RaiseFloor
      PROVE  RotationInv'
  BY <1>1, <1>8, AddKeyRotation, ReplaceSecretRotation, RemoveOldKeyRotation,
     RaiseFloorRotation
<1>9. ASSUME NEW j \in Slots, StartRelease(j) \/ FinishRelease(j)
      PROVE  RotationInv'
  BY <1>1, <1>9, StartReleaseRotation, FinishReleaseRotation
<1> QED
  BY <1>2, <1>3, <1>4, <1>5, <1>6, <1>7, <1>8, <1>9 DEF Next, Works, Uploading

LEMMA LeastIn ==
  ASSUME NEW T \in SUBSET Nat, T # {}
  PROVE  \E x \in T : \A y \in T : x <= y
<1> DEFINE R == {ss \in Nat \X Nat : ss[1] < ss[2]}
<1>1. IsWellFoundedOn(R, Nat)
  BY NatLessThanWellFounded DEF OpToRel
<1>2. \E x \in T : \A y \in T : ~(<<y, x>> \in R)
  <2> HIDE DEF R
  <2> QED
    BY <1>1, WFMin
<1>3. \A x \in T, y \in T : ~(<<y, x>> \in R) => x <= y
  <2> SUFFICES ASSUME NEW x \in T, NEW y \in T, ~(y < x)
               PROVE  x <= y
    OBVIOUS
  <2> QED
    OBVIOUS
<1> QED
  BY <1>2, <1>3

\* Of a set of keys up to s that is not empty, one is the newest.
LEMMA NewestUpTo ==
  ASSUME NEW s \in Int, NEW T \in SUBSET Int, T # {}, \A k \in T : k <= s
  PROVE  \E k \in T : \A x \in T : x <= k
<1> DEFINE D == {s - k : k \in T}
<1>1. D \in SUBSET Nat
  <2>1. \A k \in T : s - k \in Nat
    OBVIOUS
  <2> QED
    BY <2>1
<1>2. D # {}
  OBVIOUS
<1>3. PICK d \in D : \A e \in D : d <= e
  <2> HIDE DEF D
  <2> QED
    BY <1>1, <1>2, LeastIn
<1>4. PICK k \in T : d = s - k
  OBVIOUS
<1>5. \A x \in T : s - k <= s - x
  BY <1>3, <1>4
<1>6. \A x \in T : x <= k
  BY <1>5
<1> QED
  BY <1>6

\* Follow the keys: of everything the hub can name in turn, starting with what a
\* collector runs, take a release whose newest key up to the one that signed the
\* newest release is newest. It is that key, or there is a bridge to a newer one.
LEMMA NobodyIsStranded ==
  ASSUME TrustInv, RotationInv, NEW c \in Collectors, NEW n \in tags,
         \A w \in tags : AtLeast(n, w)
  PROVE  n \in Within(runs[c])
<1> DEFINE v == runs[c]
           s == signedBy[n]
<1> SUFFICES ASSUME NEW S \in SUBSET tags, v \in S, Closed(S)
             PROVE  n \in S
  BY DEF Within
<1>1. TypeOK /\ TagInv /\ Trusting = tags \ Legacy
  BY DEF TrustInv, Trusting
<1>2. CASE v \in Legacy
  BY <1>2 DEF Closed, Accepts
<1>3. CASE v \in Trusting
  <2>1. n \in Trusting
    <3>1. \A w \in Legacy : w \in tags /\ Above(v, w)
      BY <1>1, <1>3 DEF RotationInv, ReleasesInv, TagInv
    <3> QED
      BY <1>1, <1>3, <3>1, AboveOrders, KeyTypes DEF AtLeast
  <2>2. s \in Int /\ s <= secret /\ secret \in Int
    BY <1>1, <2>1, KeyTypes DEF RotationInv, ReleasesInv
  <2>3. \A u \in Trusting : /\ builds[u].keys \subseteq Int
                            /\ AtLeast(n, builds[u].floor)
                            /\ signedBy[u] \in builds[u].keys /\ signedBy[u] <= s
    <3> TAKE u \in Trusting
    <3>1. Above(u, builds[u].floor) /\ signedBy[u] \in builds[u].keys
      BY DEF RotationInv, ReleasesInv
    <3>2. AtLeast(n, u)
      BY <1>1
    <3>3. AtLeast(n, builds[u].floor)
      BY <1>1, <3>1, <3>2, AboveOrders, KeyTypes DEF AtLeast
    <3>4. n = u \/ signedBy[u] <= s
      BY <2>1, <3>2 DEF AtLeast, RotationInv, ReleasesInv
    <3> QED
      BY <1>1, <2>2, <3>1, <3>3, <3>4, KeyTypes
  <2> DEFINE T == {k \in Int : k <= s /\ \E u \in S \cap Trusting : k \in builds[u].keys}
  <2>4. PICK k \in T : \A x \in T : x <= k
    <3>1. signedBy[v] \in T
      BY <1>3, <2>3
    <3> QED
      BY <2>2, <3>1, NewestUpTo
  <2>5. PICK u \in S \cap Trusting : k \in builds[u].keys
    OBVIOUS
  <2>6. k \in Int /\ k <= s
    OBVIOUS
  <2> HIDE DEF s
  <2>7. CASE k = s
    <3>1. Accepts(u, n)
      BY <2>3, <2>5, <2>7 DEF Accepts, s
    <3> QED
      BY <2>5, <3>1 DEF Closed
  <2>8. CASE k < s
    <3>1. k < secret /\ k + 1 \in Int /\ k + 1 <= s /\ ~(k + 1 <= k)
      BY <2>2, <2>6, <2>8
    <3>2. Bridged(u, k)
      BY <2>5, <3>1 DEF RotationInv, BridgeInv
    <3>3. CASE k + 1 \in builds[u].keys
      BY <2>4, <2>5, <3>1, <3>3
    <3>4. ASSUME NEW b \in Trusting, signedBy[b] = k, k + 1 \in builds[b].keys,
                 AtLeast(b, builds[u].floor)
          PROVE  FALSE
      <4>1. b \in S
        BY <1>1, <2>5, <3>4 DEF Closed, Accepts
      <4> QED
        BY <2>4, <3>1, <3>4, <4>1
    <3> QED
      BY <3>2, <3>3, <3>4 DEF Bridged
  <2> QED
    BY <2>2, <2>6, <2>7, <2>8 DEF s
<1> QED
  BY <1>1, <1>2, <1>3 DEF TagInv

\* Through any number of rotations, rollbacks, raised floors, failed workflows
\* and mix-ups, what a collector runs leads by naming to the newest release.
THEOREM NobodyInstallsByHand == Spec => []NoCollectorIsStranded
<1>1. CASE Collectors = {}
  <2>1. NoCollectorIsStranded
    BY <1>1 DEF NoCollectorIsStranded
  <2> QED
    BY <2>1, PTL
<1>2. CASE Collectors # {}
  <2>1. TrustInv /\ RiseInv /\ RotationInv /\ [Next]_vars => RotationInv'
    BY <1>2, RotationStep
  <2>2. TypeOK /\ RiseInv /\ [Next]_vars => RiseInv'
    BY RiseStep
  <2>3. TrustInv /\ RotationInv => NoCollectorIsStranded
    BY NobodyIsStranded DEF NoCollectorIsStranded
  <2>4. TrustInv => TypeOK
    BY DEF TrustInv
  <2> QED
    BY <2>1, <2>2, <2>3, <2>4, TrustAlways, RiseInit, RotationInit, PTL DEF Spec
<1> QED
  BY <1>1, <1>2

=============================================================================
