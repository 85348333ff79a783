---------------------- MODULE PackageRepositoryProofs ----------------------
(***************************************************************************)
(* Invariants of the installer repository, for every set of uploads and    *)
(* every bound.                                                            *)
(***************************************************************************)
EXTENDS PackageRepository, FiniteSetTheorems, WellFoundedInduction, TLAPS

LEMMA TypeInit == RepositoryInit => RepositoryTypeOK
BY RepositoryAssumption
   DEF RepositoryInit, RepositoryTypeOK, Packages, Files, NoFile, Events

LEMMA TypeNext == RepositoryTypeOK /\ [RepositoryNext]_repositoryVars => RepositoryTypeOK'
<1> SUFFICES ASSUME RepositoryTypeOK, [RepositoryNext]_repositoryVars
             PROVE  RepositoryTypeOK'
    OBVIOUS
<1> USE RepositoryAssumption
<1>1. ASSUME NEW u \in Uploads, RejectDuplicate(u) PROVE RepositoryTypeOK'
    BY <1>1 DEF RepositoryTypeOK, RejectDuplicate
<1>2. ASSUME NEW u \in Uploads, BeginUpload(u) PROVE RepositoryTypeOK'
    BY <1>2 DEF RepositoryTypeOK, BeginUpload, tableVars, Files, NoFile
<1>3. CASE RefuseFile
    BY <1>3 DEF RepositoryTypeOK, RefuseFile, tableVars, Files, NoFile
<1>4. CASE StoreFile
    BY <1>4 DEF RepositoryTypeOK, StoreFile, tableVars, Files, NoFile
<1>5. ASSUME NEW p \in Packages, CommitUpload(p) PROVE RepositoryTypeOK'
  <2> DEFINE superseded == list_approved_for_identity(upload)
  <2>1. superseded \subseteq Packages /\ \A q \in superseded : approval[q] = "Approved"
    BY DEF list_approved_for_identity, list_approved
  <2>2. upload \in Uploads /\ upload # NoUpload /\ written \in Files
    BY <1>5 DEF CommitUpload, FileStored, RepositoryTypeOK
  <2> HIDE DEF superseded
  <2>3. \A q \in Packages : approval'[q] = IF q = p THEN "Approved"
                                          ELSE IF q \in superseded THEN "Inactive" ELSE approval[q]
    BY <1>5 DEF CommitUpload, superseded
  <2>4. approval' \in [Packages -> {"Absent", "Approved", "Inactive"}]
    BY <1>5, <2>1 DEF CommitUpload, superseded, RepositoryTypeOK
  <2>5. audit' \in [Events \X Packages -> Nat]
    BY <1>5 DEF CommitUpload, RepositoryTypeOK
  <2>6. metadata' \in [Packages -> Uploads \cup {NoUpload}]
    BY <1>5, <2>2 DEF CommitUpload, RepositoryTypeOK
  <2>7. \A q \in Packages : approval'[q] = "Absent" <=> metadata'[q] = NoUpload
    BY <1>5, <2>1, <2>2, <2>3 DEF CommitUpload, RepositoryTypeOK
  <2> QED
    BY <1>5, <2>2, <2>4, <2>5, <2>6, <2>7 DEF CommitUpload, RepositoryTypeOK, Files, NoFile
<1>6. CASE AbandonUpload
    BY <1>6 DEF RepositoryTypeOK, AbandonUpload, tableVars, Files, NoFile
<1>7. ASSUME NEW p \in Packages, DeactivatePackage(p) PROVE RepositoryTypeOK'
    BY <1>7 DEF RepositoryTypeOK, DeactivatePackage, Events
<1>8. CASE UNCHANGED repositoryVars
    BY <1>8 DEF RepositoryTypeOK, repositoryVars, tableVars
<1> QED
    BY <1>1, <1>2, <1>3, <1>4, <1>5, <1>6, <1>7, <1>8 DEF RepositoryNext

-----------------------------------------------------------------------------
(* One approved package per identity.                                      *)

\* Matching is symmetric, though it is not transitive.
LEMMA IdentitySymmetric ==
    ASSUME NEW a, NEW b
    PROVE  software_identity_matches(a, b) <=> software_identity_matches(b, a)
BY DEF software_identity_matches

\* Every package approved after an upload either was approved before and does
\* not match the new one, or is the new one.
LEMMA OneApprovedNext ==
    RepositoryTypeOK /\ OneApprovedPerIdentity /\ [RepositoryNext]_repositoryVars
        => OneApprovedPerIdentity'
<1> SUFFICES ASSUME RepositoryTypeOK, OneApprovedPerIdentity, [RepositoryNext]_repositoryVars
             PROVE  OneApprovedPerIdentity'
    OBVIOUS
<1>1. ASSUME NEW p \in Packages, CommitUpload(p) PROVE OneApprovedPerIdentity'
  <2>1. ASSUME NEW q \in list_approved', q # p
        PROVE  /\ q \in list_approved
               /\ metadata'[q] = metadata[q]
               /\ ~software_identity_matches(upload, metadata[q])
    BY <1>1, <2>1 DEF CommitUpload, list_approved, list_approved_for_identity, RepositoryTypeOK
  <2>2. metadata'[p] = upload
    BY <1>1 DEF CommitUpload, RepositoryTypeOK
  <2> QED
    BY <2>1, <2>2, IdentitySymmetric DEF OneApprovedPerIdentity
<1>2. ASSUME NEW p \in Packages, DeactivatePackage(p) PROVE OneApprovedPerIdentity'
    BY <1>2 DEF DeactivatePackage, OneApprovedPerIdentity, list_approved, RepositoryTypeOK
<1>3. CASE UNCHANGED <<metadata, approval>>
    BY <1>3 DEF OneApprovedPerIdentity, list_approved
<1> QED
    BY <1>1, <1>2, <1>3
       DEF RepositoryNext, RejectDuplicate, BeginUpload, RefuseFile, StoreFile, AbandonUpload,
           tableVars, repositoryVars

\* One approved package per software identity, whatever is uploaded, refused,
\* interrupted or deactivated (RepositoryService.upload_package).
THEOREM ApprovedOncePerIdentity == RepositorySpec => []OneApprovedPerIdentity
<1>1. RepositoryInit => OneApprovedPerIdentity
    BY DEF RepositoryInit, OneApprovedPerIdentity, list_approved
<1> QED
    BY <1>1, TypeInit, TypeNext, OneApprovedNext, PTL DEF RepositorySpec

-----------------------------------------------------------------------------
(* Installer files.                                                        *)

\* InstallerComplete compares a row with every other, so the rows that do not
\* exist yet must be known to have no file.
InstallerInv ==
    /\ InstallerComplete
    /\ \A p \in Packages : approval[p] = "Absent" => installer[p] = NoFile

LEMMA InstallerInit == RepositoryInit => InstallerInv
BY DEF RepositoryInit, InstallerInv, InstallerComplete

LEMMA InstallerNext ==
    RepositoryTypeOK /\ InstallerInv /\ [RepositoryNext]_repositoryVars
        => InstallerInv'
<1> SUFFICES ASSUME RepositoryTypeOK, InstallerInv, [RepositoryNext]_repositoryVars
             PROVE  InstallerInv'
    OBVIOUS
<1>1. ASSUME NEW u \in Uploads, BeginUpload(u) PROVE InstallerInv'
    BY <1>1 DEF BeginUpload, InstallerInv, InstallerComplete, RepositoryTypeOK, tableVars
<1>2. CASE RefuseFile
    BY <1>2 DEF RefuseFile, InstallerInv, InstallerComplete, RepositoryTypeOK, tableVars, Files, NoFile
<1>3. CASE StoreFile
    BY <1>3 DEF StoreFile, InstallerInv, InstallerComplete, RepositoryTypeOK, tableVars
<1>4. ASSUME NEW p \in Packages, CommitUpload(p) PROVE InstallerInv'
  <2>1. written \in Files /\ content[written] = "complete" /\ NoFile \notin Files
    BY <1>4 DEF CommitUpload, FileStored, RepositoryTypeOK, Files, NoFile
  <2>2. installer'[p] = written
    BY <1>4 DEF CommitUpload, RepositoryTypeOK
  <2>3. ASSUME NEW q \in Packages, approval'[q] # "Absent", q # p
        PROVE  installer'[q] = installer[q] /\ approval[q] # "Absent"
    BY <1>4, <2>3 DEF CommitUpload, list_approved_for_identity, list_approved, RepositoryTypeOK
  <2>4. UNCHANGED content /\ written' = NoFile
    BY <1>4 DEF CommitUpload
  <2>5. ASSUME NEW q \in Packages, approval'[q] = "Absent"
        PROVE  installer'[q] = NoFile
    BY <1>4, <2>5 DEF CommitUpload, list_approved_for_identity, list_approved,
                      InstallerInv, RepositoryTypeOK
  <2>6. \A q \in Packages : q # p => installer'[q] # written
    BY <2>1, <2>3, <2>5 DEF InstallerInv, InstallerComplete
  <2>7. ASSUME NEW q \in Packages, approval'[q] # "Absent", q # p,
               NEW r \in Packages \ {q}
        PROVE  installer'[r] # installer'[q]
    <3>1. installer'[q] = installer[q] /\ installer[q] \in Files
      BY <2>3, <2>7 DEF InstallerInv, InstallerComplete
    <3>2. CASE r = p
      BY <2>2, <2>6, <2>7, <3>2
    <3>3. CASE r # p /\ approval'[r] = "Absent"
      BY <2>1, <2>5, <3>1, <3>3
    <3>4. CASE r # p /\ approval'[r] # "Absent"
      BY <2>3, <2>7, <3>4 DEF InstallerInv, InstallerComplete
    <3> QED
      BY <3>2, <3>3, <3>4
  <2>8. ASSUME NEW q \in Packages, approval'[q] # "Absent"
        PROVE  /\ installer'[q] \in Files \ {written'}
               /\ content'[installer'[q]] = "complete"
    BY <2>1, <2>2, <2>3, <2>4, <2>8 DEF InstallerInv, InstallerComplete
  <2> QED
    BY <2>2, <2>5, <2>6, <2>7, <2>8 DEF InstallerInv, InstallerComplete
<1>5. CASE AbandonUpload
    BY <1>5 DEF AbandonUpload, InstallerInv, InstallerComplete, tableVars, Files, NoFile
<1>6. ASSUME NEW p \in Packages, DeactivatePackage(p) PROVE InstallerInv'
    BY <1>6 DEF DeactivatePackage, InstallerInv, InstallerComplete, RepositoryTypeOK
<1>7. CASE UNCHANGED <<approval, installer, content, written>>
    BY <1>7 DEF InstallerInv, InstallerComplete
<1> QED
    BY <1>1, <1>2, <1>3, <1>4, <1>5, <1>6, <1>7
       DEF RepositoryNext, RejectDuplicate, repositoryVars, tableVars

\* Every package keeps a completely written installer file of its own,
\* whatever later uploads do or fail to do (save_and_hash, upload_package).
THEOREM InstallersAreComplete == RepositorySpec => []InstallerComplete
<1>1. InstallerInv => InstallerComplete
    BY DEF InstallerInv
<1> QED
    BY <1>1, InstallerInit, InstallerNext, TypeInit, TypeNext, PTL DEF RepositorySpec

-----------------------------------------------------------------------------
(* The audit trail of the approvals.                                       *)

LEMMA AuditedInit == RepositoryInit => ApprovalAudited
BY DEF RepositoryInit, ApprovalAudited, Events

LEMMA AuditedNext ==
    RepositoryTypeOK /\ ApprovalAudited /\ [RepositoryNext]_repositoryVars => ApprovalAudited'
<1> SUFFICES ASSUME RepositoryTypeOK, ApprovalAudited, [RepositoryNext]_repositoryVars
             PROVE  ApprovalAudited'
    OBVIOUS
<1>0. \A e \in Events, q \in Packages : audit[<<e, q>>] \in Nat
    BY DEF RepositoryTypeOK
<1>1. ASSUME NEW p \in Packages, CommitUpload(p) PROVE ApprovalAudited'
  <2> DEFINE superseded == list_approved_for_identity(upload)
             Row(e, q) == audit'[<<e, q>>] =
                IF \/ <<e, q>> = <<"REPOSITORY_PACKAGE_UPLOADED", p>>
                   \/ e = "REPOSITORY_PACKAGE_SUPERSEDED" /\ q \in superseded
                THEN audit[<<e, q>>] + 1 ELSE audit[<<e, q>>]
  <2>1. \A q \in Packages : /\ Row("REPOSITORY_PACKAGE_UPLOADED", q)
                            /\ Row("REPOSITORY_PACKAGE_SUPERSEDED", q)
                            /\ Row("REPOSITORY_PACKAGE_DEACTIVATED", q)
    BY <1>1 DEF CommitUpload, Events
  <2>2. \A q \in superseded : approval[q] = "Approved"
    BY DEF list_approved_for_identity, list_approved
  <2>3. /\ approval[p] = "Absent"
        /\ \A q \in Packages : approval'[q] = IF q = p THEN "Approved"
                                ELSE IF q \in superseded THEN "Inactive" ELSE approval[q]
    BY <1>1 DEF CommitUpload
  <2>4. \A q \in Packages : /\ audit[<<"REPOSITORY_PACKAGE_UPLOADED", q>>] \in Nat
                            /\ audit[<<"REPOSITORY_PACKAGE_SUPERSEDED", q>>] \in Nat
                            /\ audit[<<"REPOSITORY_PACKAGE_DEACTIVATED", q>>] \in Nat
    BY <1>0 DEF Events
  <2> HIDE DEF superseded
  <2>5. ASSUME NEW q \in Packages
        PROVE  /\ audit'[<<"REPOSITORY_PACKAGE_UPLOADED", q>>] =
                      IF approval'[q] = "Absent" THEN 0 ELSE 1
               /\ audit'[<<"REPOSITORY_PACKAGE_SUPERSEDED", q>>]
                    + audit'[<<"REPOSITORY_PACKAGE_DEACTIVATED", q>>]
                      = IF approval'[q] = "Inactive" THEN 1 ELSE 0
    <3>1. CASE q = p
      BY <2>1, <2>2, <2>3, <2>4, <3>1 DEF ApprovalAudited
    <3>2. CASE q # p /\ q \in superseded
      BY <2>1, <2>2, <2>3, <2>4, <3>2 DEF ApprovalAudited
    <3>3. CASE q # p /\ q \notin superseded
      BY <2>1, <2>3, <2>4, <3>3 DEF ApprovalAudited
    <3> QED
      BY <3>1, <3>2, <3>3
  <2> QED
    BY <2>5 DEF ApprovalAudited
<1>2. ASSUME NEW p \in Packages, DeactivatePackage(p) PROVE ApprovalAudited'
  <2>1. CASE approval[p] = "Inactive"
    BY <1>2, <2>1 DEF DeactivatePackage, AuditsDeactivation, ApprovalAudited, RepositoryTypeOK
  <2>2. CASE approval[p] # "Inactive"
    <3>1. approval[p] = "Approved"
      BY <1>2, <2>2 DEF DeactivatePackage, RepositoryTypeOK
    <3>2. \A q \in Packages : approval'[q] = IF q = p THEN "Inactive" ELSE approval[q]
      BY <1>2 DEF DeactivatePackage, RepositoryTypeOK
    <3>3. \A e \in Events, q \in Packages :
            audit'[<<e, q>>] = IF e = "REPOSITORY_PACKAGE_DEACTIVATED" /\ q = p
                               THEN audit[<<e, q>>] + 1 ELSE audit[<<e, q>>]
      BY <1>2, <2>2 DEF DeactivatePackage, AuditsDeactivation, RepositoryTypeOK, Events
    <3>4. ASSUME NEW q \in Packages
          PROVE  /\ audit'[<<"REPOSITORY_PACKAGE_UPLOADED", q>>]
                        = audit[<<"REPOSITORY_PACKAGE_UPLOADED", q>>]
                 /\ audit'[<<"REPOSITORY_PACKAGE_SUPERSEDED", q>>]
                        = audit[<<"REPOSITORY_PACKAGE_SUPERSEDED", q>>]
                 /\ audit'[<<"REPOSITORY_PACKAGE_DEACTIVATED", q>>]
                        = audit[<<"REPOSITORY_PACKAGE_DEACTIVATED", q>>] + IF q = p THEN 1 ELSE 0
                 /\ audit[<<"REPOSITORY_PACKAGE_SUPERSEDED", q>>] \in Nat
                 /\ audit[<<"REPOSITORY_PACKAGE_DEACTIVATED", q>>] \in Nat
      BY <1>0, <3>3 DEF Events
    <3>5. ASSUME NEW q \in Packages
          PROVE  /\ audit'[<<"REPOSITORY_PACKAGE_UPLOADED", q>>] =
                        IF approval'[q] = "Absent" THEN 0 ELSE 1
                 /\ audit'[<<"REPOSITORY_PACKAGE_SUPERSEDED", q>>]
                      + audit'[<<"REPOSITORY_PACKAGE_DEACTIVATED", q>>]
                        = IF approval'[q] = "Inactive" THEN 1 ELSE 0
      <4>1. CASE q = p
        BY <3>1, <3>2, <3>4, <4>1 DEF ApprovalAudited
      <4>2. CASE q # p
        BY <3>2, <3>4, <4>2 DEF ApprovalAudited
      <4> QED
        BY <4>1, <4>2
    <3> QED
      BY <3>5 DEF ApprovalAudited
  <2> QED
    BY <2>1, <2>2
<1>3. CASE UNCHANGED <<approval, audit>>
    BY <1>3 DEF ApprovalAudited
<1> QED
    BY <1>1, <1>2, <1>3
       DEF RepositoryNext, RejectDuplicate, BeginUpload, RefuseFile, StoreFile, AbandonUpload,
           tableVars, repositoryVars

\* Each package's audit rows say how it was approved and how it ceased to be
\* (upload_package, deactivate_package).
THEOREM ApprovalsAreAudited == RepositorySpec => []ApprovalAudited
BY AuditedInit, AuditedNext, TypeInit, TypeNext, PTL DEF RepositorySpec

\* Every variable of the repository keeps its type.
THEOREM RepositoryTypeCorrect == RepositorySpec => []RepositoryTypeOK
BY TypeInit, TypeNext, PTL DEF RepositorySpec
-----------------------------------------------------------------------------
(* The order of versions.                                                   *)

LEMMA Segments ==
    ASSUME NEW v \in Seq(Nat), NEW i
    PROVE  Segment(v, i) \in Nat /\ (Segment(v, i) > 0 => i \in DOMAIN v /\ i \in Nat)
BY DEF Segment

\* The first segment in which two versions differ, if they do.
LEMMA FirstDifference ==
    ASSUME NEW v \in Seq(Nat), NEW w \in Seq(Nat), NEW i \in Nat, Segment(v, i) # Segment(w, i)
    PROVE  \E k \in Nat : /\ Segment(v, k) # Segment(w, k)
                          /\ \A j \in Nat : j < k => Segment(v, j) = Segment(w, j)
<1> DEFINE T == {k \in Nat : Segment(v, k) # Segment(w, k)}
           R == OpToRel(<, Nat)
<1>1. T # {} /\ T \subseteq Nat
  OBVIOUS
<1>2. \E k \in T : \A j \in T : <<j, k>> \notin R
  BY <1>1, NatLessThanWellFounded, WFMin
<1>3. \A j, k \in Nat : j < k => <<j, k>> \in R
  BY DEF OpToRel
<1> QED
  BY <1>2, <1>3

\* Padding aside, a version is older exactly when its first segment that
\* differs is the smaller one.
LEMMA OlderSegments ==
    ASSUME NEW v \in Seq(Nat), NEW w \in Seq(Nat)
    PROVE  Older(v, w) <=> \E i \in Nat : /\ Segment(v, i) < Segment(w, i)
                                          /\ \A j \in Nat : j < i => Segment(v, j) = Segment(w, j)
<1>1. ASSUME NEW i \in DOMAIN v \cup DOMAIN w, Segment(v, i) < Segment(w, i),
             \A j \in 1..i-1 : Segment(v, j) = Segment(w, j)
      PROVE  i \in Nat /\ \A j \in Nat : j < i => Segment(v, j) = Segment(w, j)
  <2>1. i \in Nat \ {0}
    OBVIOUS
  <2>2. Segment(v, 0) = Segment(w, 0)
    BY DEF Segment
  <2> QED
    BY <1>1, <2>1, <2>2
<1>2. ASSUME NEW i \in Nat, Segment(v, i) < Segment(w, i),
             \A j \in Nat : j < i => Segment(v, j) = Segment(w, j)
      PROVE  i \in DOMAIN w /\ \A j \in 1..i-1 : Segment(v, j) = Segment(w, j)
  BY <1>2, Segments
<1> QED
  BY <1>1, <1>2 DEF Older

\* What is not older than a version is no younger than anything that is.
LEMMA OlderThanBest ==
    ASSUME NEW r \in Seq(Nat), NEW v \in Seq(Nat), NEW w \in Seq(Nat),
           Older(r, v), ~Older(w, v)
    PROVE  Older(r, w)
<1>1. PICK i \in Nat : /\ Segment(r, i) < Segment(v, i)
                       /\ \A j \in Nat : j < i => Segment(r, j) = Segment(v, j)
  BY OlderSegments
<1>2. CASE \A k \in Nat : Segment(v, k) = Segment(w, k)
  BY <1>1, <1>2, OlderSegments
<1>3. CASE ~\A k \in Nat : Segment(v, k) = Segment(w, k)
  <2>1. PICK k \in Nat : /\ Segment(w, k) # Segment(v, k)
                         /\ \A j \in Nat : j < k => Segment(w, j) = Segment(v, j)
    BY <1>3, FirstDifference
  <2>2. Segment(v, k) < Segment(w, k)
    <3>1. Segment(v, k) \in Nat /\ Segment(w, k) \in Nat
      BY Segments
    <3>2. ~(Segment(w, k) < Segment(v, k))
      BY <2>1, OlderSegments
    <3> QED
      BY <2>1, <3>1, <3>2
  <2>3. CASE k < i
    <3>1. Segment(r, k) < Segment(w, k)
          /\ \A j \in Nat : j < k => Segment(r, j) = Segment(w, j)
      BY <1>1, <2>1, <2>2, <2>3
    <3> QED
      BY <3>1, OlderSegments
  <2>4. CASE k >= i
    <3>1. Segment(r, i) < Segment(w, i)
      BY <1>1, <2>1, <2>2, <2>4, Segments
    <3>2. \A j \in Nat : j < i => Segment(r, j) = Segment(w, j)
      BY <1>1, <2>1, <2>4
    <3> QED
      BY <3>1, <3>2, OlderSegments
  <2> QED
    BY <2>3, <2>4
<1> QED
  BY <1>2, <1>3

\* Python's order on tuples, which picks the best match, does not overlook a
\* version that is newer after padding.
LEMMA OlderIsLess ==
    ASSUME NEW v \in Seq(Nat), NEW w \in Seq(Nat), Older(v, w)
    PROVE  TupleLess(v, w)
<1>1. PICK i \in Nat : /\ Segment(v, i) < Segment(w, i)
                       /\ \A j \in Nat : j < i => Segment(v, j) = Segment(w, j)
  BY OlderSegments
<1>2. i \in DOMAIN w /\ i \in 1..Len(w)
  BY <1>1, Segments
<1>3. \A j \in 1..i-1 : j \in DOMAIN w /\ Segment(w, j) = w[j]
  BY <1>2 DEF Segment
<1>4. CASE i \in DOMAIN v
  <2>1. v[i] < w[i]
    BY <1>1, <1>2, <1>4 DEF Segment
  <2>2. \A j \in 1..i-1 : v[j] = w[j]
    <3>1. \A j \in 1..i-1 : j \in DOMAIN v /\ j \in Nat /\ j < i
      BY <1>4
    <3> QED
      BY <1>1, <1>3, <3>1 DEF Segment
  <2> QED
    BY <1>2, <1>4, <2>1, <2>2 DEF TupleLess
<1>5. CASE i \notin DOMAIN v
  <2>1. Len(v) < i
    BY <1>2, <1>5
  <2>2. \A j \in DOMAIN v : j \in 1..i-1 /\ j \in Nat /\ j < i
    BY <2>1
  <2>3. \A j \in DOMAIN v : v[j] = w[j]
    BY <1>1, <1>3, <2>2 DEF Segment
  <2> QED
    BY <1>2, <2>1, <2>3 DEF TupleLess
<1> QED
  BY <1>4, <1>5

LEMMA Earlier ==
    \A i, k \in Nat :
        i =< k => /\ i = k \/ i \in 1..k-1 \/ i = 0
                  /\ i \in 1..k \/ i = 0
                  /\ 1..i-1 \subseteq 1..k-1 /\ 1..i \subseteq 1..k
OBVIOUS

LEMMA LessThrough == \A a, b, c \in Nat : a < b /\ (b = c \/ b < c) => a < c
OBVIOUS

LEMMA TupleOrder ==
    ASSUME NEW u \in Seq(Nat), NEW v \in Seq(Nat), NEW w \in Seq(Nat)
    PROVE  /\ ~TupleLess(u, u)
           /\ TupleLess(u, v) /\ TupleLess(v, w) => TupleLess(u, w)
<1> DEFINE At(x, y, i) == x[i] < y[i] /\ \A j \in 1..i-1 : x[j] = y[j]
           Prefix(x, y) == Len(x) < Len(y) /\ \A j \in DOMAIN x : x[j] = y[j]
<1>0. \A x \in {u, v, w} : /\ DOMAIN x = 1..Len(x) /\ Len(x) \in Nat
                          /\ \A j \in DOMAIN x : j \in Nat /\ x[j] \in Nat
  OBVIOUS
<1>1. ~TupleLess(u, u)
  BY DEF TupleLess
<1>2. ASSUME NEW i \in DOMAIN u \cap DOMAIN v, At(u, v, i),
             NEW k \in DOMAIN v \cap DOMAIN w, At(v, w, k)
      PROVE  TupleLess(u, w)
  <2>1. CASE i =< k
    <3>1. i \in DOMAIN u \cap DOMAIN w /\ \A j \in 1..i-1 : j \in 1..k-1
      <4>1. i \in Nat /\ k \in Nat /\ 1 =< i /\ k =< Len(w) /\ i \in DOMAIN u
            /\ Len(w) \in Nat
        BY <1>0
      <4>2. 1..i-1 \subseteq 1..k-1 /\ i \in 1..k
        BY <2>1, <4>1, Earlier
      <4>3. 1..k \subseteq 1..Len(w)
        BY <4>1, Earlier
      <4> QED
        BY <1>0, <4>1, <4>2, <4>3
    <3>2. u[i] < w[i]
      <4>1. i = k \/ i \in 1..k-1
        <5>1. i \in Nat /\ k \in Nat /\ i # 0
          BY <1>0
        <5> QED
          BY <2>1, <5>1, Earlier
      <4>2. /\ u[i] \in Nat /\ v[i] \in Nat /\ w[i] \in Nat /\ u[i] < v[i]
            /\ v[k] \in Nat /\ w[k] \in Nat /\ v[k] < w[k]
        BY <1>0, <1>2, <3>1
      <4>3. v[i] = w[i] \/ v[i] < w[i]
        BY <1>2, <4>1, <4>2
      <4> QED
        BY <4>2, <4>3, LessThrough
    <3>3. \A j \in 1..i-1 : u[j] = w[j]
      BY <1>2, <3>1
    <3>4. At(u, w, i)
      BY <3>2, <3>3
    <3> QED
      BY <3>1, <3>4 DEF TupleLess
  <2>2. CASE k < i
    <3>1. k \in DOMAIN u \cap DOMAIN w /\ k \in 1..i-1 /\ \A j \in 1..k-1 : j \in 1..i-1
      <4>1. i \in Nat /\ i =< Len(u) /\ k \in Nat /\ 1 =< k /\ k \in DOMAIN w /\ Len(u) \in Nat
        BY <1>0
      <4>2. k \in 1..Len(u) /\ k \in 1..i-1
        BY <2>2, <4>1
      <4>3. \A j \in 1..k-1 : j \in 1..i-1
        BY <2>2, <4>1
      <4> QED
        BY <1>0, <4>1, <4>2, <4>3
    <3>2. At(u, w, k)
      BY <1>2, <3>1
    <3> QED
      BY <3>1, <3>2 DEF TupleLess
  <2> QED
    BY <2>1, <2>2
<1>3. ASSUME NEW i \in DOMAIN u \cap DOMAIN v, At(u, v, i), Prefix(v, w)
      PROVE  TupleLess(u, w)
  <2>1. i \in DOMAIN u \cap DOMAIN w /\ \A j \in 1..i-1 : j \in DOMAIN v
    <3>1. i \in Nat /\ i \in 1..Len(v) /\ Len(v) \in Nat /\ Len(w) \in Nat /\ Len(v) =< Len(w)
      BY <1>0, <1>3
    <3>2. i \in 1..Len(w) /\ 1..i-1 \subseteq 1..Len(v)
      BY <3>1
    <3> QED
      BY <1>0, <3>2
  <2>2. At(u, w, i)
    BY <1>3, <2>1
  <2> QED
    BY <2>1, <2>2 DEF TupleLess
<1>4. ASSUME Prefix(u, v), NEW k \in DOMAIN v \cap DOMAIN w, At(v, w, k)
      PROVE  TupleLess(u, w)
  <2>1. CASE k \in DOMAIN u
    <3>1. \A j \in 1..k-1 : j \in DOMAIN u
      BY <2>1
    <3>2. At(u, w, k)
      BY <1>4, <2>1, <3>1
    <3> QED
      BY <2>1, <3>2 DEF TupleLess
  <2>2. CASE k \notin DOMAIN u
    <3>1. /\ Len(u) < k /\ k =< Len(w) /\ Len(u) < Len(w)
          /\ \A j \in DOMAIN u : j \in 1..k-1
      BY <1>0, <2>2
    <3>2. Prefix(u, w)
      BY <1>4, <3>1
    <3> QED
      BY <3>2 DEF TupleLess
  <2> QED
    BY <2>1, <2>2
<1>5. ASSUME Prefix(u, v), Prefix(v, w) PROVE TupleLess(u, w)
  <2>1. \A j \in DOMAIN u : j \in DOMAIN v
    BY <1>5
  <2>2. Prefix(u, w)
    BY <1>5, <2>1
  <2> QED
    BY <2>2 DEF TupleLess
<1> QED
  BY <1>1, <1>2, <1>3, <1>4, <1>5 DEF TupleLess

-----------------------------------------------------------------------------
(* Versions as numbers.                                                     *)

\* Induction over an interval, from the least number that would break it.
LEMMA Climb ==
    ASSUME NEW m \in Nat, NEW i \in 0..m, NEW T, i \in T,
           \A n \in i..m : n + 1 \in i..m /\ n \in T => n + 1 \in T
    PROVE  i..m \subseteq T
<1> DEFINE Wrong == {n \in Nat : n \in i..m /\ n \notin T}
           R == OpToRel(<, Nat)
<1> SUFFICES ASSUME Wrong # {} PROVE FALSE
  OBVIOUS
<1>1. PICK n \in Wrong : \A k \in Wrong : <<k, n>> \notin R
  BY NatLessThanWellFounded, WFMin
<1>2. \A j, k \in Nat : j < k => <<j, k>> \in R
  BY DEF OpToRel
<1>3. n # i
  OBVIOUS
<1>4. n - 1 \in Nat /\ n - 1 < n /\ n - 1 \in i..m /\ (n - 1) + 1 = n /\ n \in i..m
  BY <1>3
<1>5. n - 1 \notin T
  BY <1>4
<1> HIDE DEF R
<1>6. n - 1 \in Wrong
  BY <1>4, <1>5
<1> QED
  BY <1>1, <1>2, <1>4, <1>6

\* The sum in Value after its first n digits, given the one before.
Sum(h, v, n) == IF n = 0 THEN 0 ELSE Base * h[n - 1] + Segment(v, n)

\* The definition of Value has a solution: one that goes up to n can be
\* continued.
LEMMA SumsExist ==
    ASSUME NEW v
    PROVE  \E h : h = [n \in 0..MaxSegments |-> Sum(h, v, n)]
<1> DEFINE T == {m \in Nat : \E h : h = [n \in 0..m |-> Sum(h, v, n)]}
<1>1. 0 \in T
  <2>1. [n \in 0..0 |-> 0] = [n \in 0..0 |-> Sum([i \in 0..0 |-> 0], v, n)]
    BY DEF Sum
  <2> QED
    BY <2>1
<1>2. ASSUME NEW m \in Nat, m \in T PROVE m + 1 \in T
  <2>1. PICK f : f = [n \in 0..m |-> Sum(f, v, n)]
    BY <1>2
  <2> DEFINE g == [n \in 0..(m + 1) |-> IF n = m + 1 THEN Sum(f, v, n) ELSE f[n]]
  <2>2. ASSUME NEW n \in 0..(m + 1)
        PROVE  g[n] = Sum(g, v, n)
    <3>1. n # 0 => g[n - 1] = f[n - 1]
      OBVIOUS
    <3>2. Sum(g, v, n) = Sum(f, v, n)
      BY <3>1 DEF Sum
    <3>3. CASE n = m + 1
      BY <3>2, <3>3
    <3>4. CASE n # m + 1
      <4>1. n \in 0..m
        BY <3>4
      <4>2. f[n] = Sum(f, v, n)
        BY <2>1, <4>1
      <4> QED
        BY <3>2, <3>4, <4>2
    <3> QED
      BY <3>3, <3>4
  <2>3. g = [n \in 0..(m + 1) |-> Sum(g, v, n)]
    BY <2>2
  <2> HIDE DEF g
  <2>4. \E h : h = [n \in 0..(m + 1) |-> Sum(h, v, n)]
    BY <2>3
  <2> QED
    BY <2>4
<1>3. MaxSegments \in T
  <2> HIDE DEF T
  <2>1. 0..MaxSegments \subseteq T
    BY <1>1, <1>2, VersionAssumption, Climb
  <2> QED
    BY <2>1, VersionAssumption
<1> QED
  BY <1>3

\* h holds the value of the first n segments of v, for each n.
Sums(h, v) ==
    /\ \A n \in 0..MaxSegments : h[n] \in Nat
    /\ h[0] = 0
    /\ \A n \in 1..MaxSegments : h[n] = Base * h[n - 1] + Segment(v, n)

LEMMA Digits ==
    ASSUME NEW v \in Versions
    PROVE  /\ v \in Seq(Nat)
           /\ \A i \in Nat : Segment(v, i) \in 0..Base-1
           /\ \A i \in Nat : i \notin 1..MaxSegments => Segment(v, i) = 0
<1>1. v \in Seq(0..Base-1) /\ Len(v) =< MaxSegments /\ Base \in Nat \ {0} /\ MaxSegments \in Nat
  BY VersionAssumption DEF Versions
<1>2. v \in Seq(Nat) /\ DOMAIN v = 1..Len(v) /\ Len(v) \in Nat
      /\ \A i \in DOMAIN v : v[i] \in 0..Base-1
  BY <1>1
<1>3. \A i \in Nat : i \in 1..Len(v) => i \in 1..MaxSegments
  BY <1>1, <1>2
<1> QED
  BY <1>1, <1>2, <1>3 DEF Segment

LEMMA ValueIsSum ==
    ASSUME NEW v \in Versions
    PROVE  \E h : Sums(h, v) /\ Value(v) = h[MaxSegments]
<1> DEFINE h == CHOOSE f : f = [n \in 0..MaxSegments |->
                                 IF n = 0 THEN 0 ELSE Base * f[n - 1] + Segment(v, n)]
<1>1. Value(v) = h[MaxSegments]
  BY DEF Value
<1>2. h = [n \in 0..MaxSegments |-> IF n = 0 THEN 0 ELSE Base * h[n - 1] + Segment(v, n)]
  BY SumsExist DEF Sum
<1> HIDE DEF h
<1>3. Base \in Nat /\ MaxSegments \in Nat
  BY VersionAssumption
<1>4. /\ h[0] = 0
      /\ \A n \in 1..MaxSegments : h[n] = Base * h[n - 1] + Segment(v, n)
  BY <1>2, <1>3
<1>5. \A n \in 0..MaxSegments : h[n] \in Nat
  <2> DEFINE T == {n \in 0..MaxSegments : h[n] \in Nat}
  <2>1. 0 \in T
    BY <1>3, <1>4
  <2>2. ASSUME NEW n \in 0..MaxSegments, n + 1 \in 0..MaxSegments, n \in T
        PROVE  n + 1 \in T
    <3>1. n + 1 \in 1..MaxSegments /\ (n + 1) - 1 = n /\ n + 1 \in Nat
      BY <2>2
    <3>2. h[n + 1] = Base * h[n] + Segment(v, n + 1)
      BY <1>4, <3>1
    <3>3. Segment(v, n + 1) \in Nat
      BY <3>1, Digits, Segments
    <3> QED
      BY <1>3, <2>2, <3>2, <3>3
  <2> HIDE DEF T
  <2>3. 0..MaxSegments \subseteq T
    BY <1>3, <2>1, <2>2, Climb
  <2> QED
    BY <2>3 DEF T
<1> QED
  BY <1>1, <1>4, <1>5 DEF Sums

\* As long as the segments are the same, so are the sums.
LEMMA SumsAgree ==
    ASSUME NEW v \in Versions, NEW w \in Versions, NEW g, NEW h, Sums(g, v), Sums(h, w),
           NEW k \in 0..MaxSegments, \A j \in 1..k : Segment(v, j) = Segment(w, j)
    PROVE  g[k] = h[k]
<1> DEFINE Same == {n \in 0..k : g[n] = h[n]}
<1>1. k \in Nat /\ MaxSegments \in Nat /\ k =< MaxSegments
  BY VersionAssumption
<1>2. 0 \in Same
  BY <1>1 DEF Sums
<1>3. ASSUME NEW n \in 0..k, n + 1 \in 0..k, n \in Same
      PROVE  n + 1 \in Same
  <2>1. n + 1 \in 1..MaxSegments /\ (n + 1) - 1 = n /\ n + 1 \in 1..k
    BY <1>1, <1>3
  <2>2. g[n + 1] = Base * g[n] + Segment(v, n + 1) /\ h[n + 1] = Base * h[n] + Segment(w, n + 1)
    BY <2>1 DEF Sums
  <2>3. Segment(v, n + 1) = Segment(w, n + 1) /\ g[n] = h[n]
    BY <1>3, <2>1
  <2> QED
    BY <1>3, <2>2, <2>3
<1> HIDE DEF Same
<1>4. 0..k \subseteq Same
  BY <1>1, <1>2, <1>3, Climb
<1> QED
  BY <1>1, <1>4 DEF Same

\* A larger number stays larger whatever digits follow.
LEMMA StaysLess ==
    \A b \in Nat \ {0} : \A x, y, d, e \in Nat :
        x < y /\ d \in 0..b-1 => b * x + d < b * y + e
<1> TAKE b \in Nat \ {0}
<1> TAKE x, y, d, e \in Nat
<1> HAVE x < y /\ d \in 0..b-1
<1>1. PICK z \in Nat : y = x + 1 + z
  <2>1. y - x - 1 \in Nat /\ y = x + 1 + (y - x - 1)
    OBVIOUS
  <2> QED
    BY <2>1
<1>2. b * y = b * x + b + b * z
  BY <1>1
<1>3. b * x \in Nat /\ b * z \in Nat
  OBVIOUS
<1> QED
  BY <1>2, <1>3

LEMMA OlderIsSmaller ==
    ASSUME NEW v \in Versions, NEW w \in Versions, Older(v, w)
    PROVE  Value(v) < Value(w)
<1>1. PICK g : Sums(g, v) /\ Value(v) = g[MaxSegments]
  BY ValueIsSum
<1>2. PICK h : Sums(h, w) /\ Value(w) = h[MaxSegments]
  BY ValueIsSum
<1>3. PICK i \in Nat : /\ Segment(v, i) < Segment(w, i)
                       /\ \A j \in Nat : j < i => Segment(v, j) = Segment(w, j)
  BY Digits, OlderSegments
<1>4. /\ Base \in Nat \ {0} /\ MaxSegments \in Nat
      /\ \A n \in Nat : Segment(v, n) \in 0..Base-1 /\ Segment(w, n) \in 0..Base-1
  BY VersionAssumption, Digits
<1>5. i \in 1..MaxSegments
  <2>1. Segment(w, i) # 0
    BY <1>3, <1>4
  <2> QED
    BY <2>1, Digits
<1> DEFINE Less == {n \in Nat : g[n] < h[n]}
<1>6. g[i - 1] = h[i - 1]
  <2>1. i - 1 \in 0..MaxSegments /\ \A j \in 1..i-1 : j \in Nat /\ j < i
    BY <1>4, <1>5
  <2> QED
    BY <1>1, <1>2, <1>3, <2>1, SumsAgree
<1>7. i \in Less
  <2>1. g[i] = Base * g[i - 1] + Segment(v, i) /\ h[i] = Base * h[i - 1] + Segment(w, i)
    BY <1>1, <1>2, <1>5 DEF Sums
  <2>2. g[i - 1] \in Nat /\ g[i - 1] = h[i - 1]
    <3>1. i - 1 \in 0..MaxSegments
      BY <1>4, <1>5
    <3> QED
      BY <1>1, <1>6, <3>1 DEF Sums
  <2>3. Base * g[i - 1] \in Nat /\ Segment(v, i) \in Nat /\ Segment(w, i) \in Nat
    BY <1>4, <2>2
  <2>4. g[i] < h[i]
    BY <1>3, <2>1, <2>2, <2>3
  <2> QED
    BY <2>4
<1>8. ASSUME NEW n \in i..MaxSegments, n + 1 \in i..MaxSegments, n \in Less
      PROVE  n + 1 \in Less
  <2>1. n \in 0..MaxSegments /\ n + 1 \in 1..MaxSegments /\ (n + 1) - 1 = n /\ n + 1 \in Nat
    BY <1>4, <1>5, <1>8
  <2>2. g[n + 1] = Base * g[n] + Segment(v, n + 1) /\ h[n + 1] = Base * h[n] + Segment(w, n + 1)
    BY <1>1, <1>2, <2>1 DEF Sums
  <2>3. g[n] \in Nat /\ h[n] \in Nat /\ g[n] < h[n]
    BY <1>1, <1>2, <1>8, <2>1 DEF Sums
  <2>4. Segment(v, n + 1) \in 0..Base-1 /\ Segment(v, n + 1) \in Nat /\ Segment(w, n + 1) \in Nat
    BY <1>4, <2>1
  <2>5. g[n + 1] < h[n + 1]
    BY <1>4, <2>2, <2>3, <2>4, StaysLess
  <2> QED
    BY <2>1, <2>5
<1>9. MaxSegments \in Less
  <2> HIDE DEF Less
  <2>1. i..MaxSegments \subseteq Less
    <3>1. i \in 0..MaxSegments
      BY <1>5
    <3> QED
      BY <1>4, <1>7, <1>8, <3>1, Climb
  <2> QED
    BY <1>4, <1>5, <2>1
<1> QED
  BY <1>1, <1>2, <1>9

\* Two versions differ when one is older than the other, or are padded alike.
LEMMA OlderOrEqual ==
    ASSUME NEW v \in Versions, NEW w \in Versions
    PROVE  Older(v, w) \/ Older(w, v) \/ Value(v) = Value(w)
<1>1. CASE \A i \in Nat : Segment(v, i) = Segment(w, i)
  <2>1. MaxSegments \in 0..MaxSegments /\ \A j \in 1..MaxSegments : j \in Nat
    BY VersionAssumption
  <2>2. PICK g : Sums(g, v) /\ Value(v) = g[MaxSegments]
    BY ValueIsSum
  <2>3. PICK h : Sums(h, w) /\ Value(w) = h[MaxSegments]
    BY ValueIsSum
  <2>4. g[MaxSegments] = h[MaxSegments]
    BY <1>1, <2>1, <2>2, <2>3, SumsAgree
  <2> QED
    BY <2>2, <2>3, <2>4
<1>2. CASE \E i \in Nat : Segment(v, i) # Segment(w, i)
  <2>1. v \in Seq(Nat) /\ w \in Seq(Nat)
    BY Digits
  <2>2. PICK k \in Nat : /\ Segment(v, k) # Segment(w, k)
                         /\ \A j \in Nat : j < k => Segment(v, j) = Segment(w, j)
    BY <1>2, <2>1, FirstDifference
  <2>3. Segment(v, k) < Segment(w, k) \/ Segment(w, k) < Segment(v, k)
    <3>1. Segment(v, k) \in Nat /\ Segment(w, k) \in Nat
      BY <2>1, Segments
    <3> QED
      BY <2>2, <3>1
  <2> QED
    BY <2>1, <2>2, <2>3, OlderSegments
<1> QED
  BY <1>1, <1>2

LEMMA ValueIsNat ==
    ASSUME NEW v \in Versions
    PROVE  Value(v) \in Nat
<1>1. MaxSegments \in 0..MaxSegments
  BY VersionAssumption
<1> QED
  BY <1>1, ValueIsSum DEF Sums

LEMMA OlderByValue ==
    ASSUME NEW v \in Versions, NEW w \in Versions
    PROVE  Older(v, w) <=> Value(v) < Value(w)
<1>1. Value(v) \in Nat /\ Value(w) \in Nat
  BY ValueIsNat
<1>2. Older(w, v) => Value(w) < Value(v)
  BY OlderIsSmaller
<1> QED
  BY <1>1, <1>2, OlderIsSmaller, OlderOrEqual

\* The comparison of versions segment by segment, the shorter one padded, is
\* the comparison of two numbers (compare_versions).
THEOREM VersionsCompareAsNumbers ==
    \A v, w \in Versions \ Unparseable :
        compare_versions(v, w) = IF Value(v) < Value(w) THEN "older"
                                 ELSE IF Value(w) < Value(v) THEN "newer" ELSE "equal"
BY OlderByValue DEF compare_versions

\* What get_active_conflict takes for the same version falls into classes:
\* padding makes no version the same as two different ones (same_version).
THEOREM SameVersionIsEquivalence ==
    \A u, v, w \in Versions \cup Unparseable :
        /\ same_version(u, u)
        /\ same_version(u, v) => same_version(v, u)
        /\ same_version(u, v) /\ same_version(v, w) => same_version(u, w)
<1> DEFINE Parsed == Versions \ Unparseable
<1>1. \A v, w \in Parsed : same_version(v, w) <=> Value(v) = Value(w)
  <2> TAKE v, w \in Parsed
  <2>1. Value(v) \in Nat /\ Value(w) \in Nat
    BY ValueIsNat
  <2>2. compare_versions(v, w) = "equal" <=> Value(v) = Value(w)
    BY <2>1, VersionsCompareAsNumbers
  <2>3. compare_versions(v, w) # "None"
    BY VersionsCompareAsNumbers
  <2> QED
    BY <2>2, <2>3 DEF same_version
<1>2. \A v, w : v \in Unparseable \/ w \in Unparseable => (same_version(v, w) <=> v = w)
  BY DEF same_version, compare_versions
<1> HIDE DEF Parsed
<1>3. \A v \in Versions \cup Unparseable : v \in Parsed \/ v \in Unparseable
  BY DEF Parsed
<1> TAKE u, v, w \in Versions \cup Unparseable
<1>4. \A x \in Parsed : x \notin Unparseable
  BY DEF Parsed
<1> QED
  BY <1>1, <1>2, <1>3, <1>4

-----------------------------------------------------------------------------
(* The best match.                                                          *)

\* The approved packages a record can be compared with.
Comparable(record) ==
    {p \in list_approved_for_identity(record) :
        metadata[p].version \notin Unparseable /\ record.version \notin Unparseable}

\* FR-007 for a record: it is judged by all the packages it can be compared
\* with, although the service picks one of them.
JudgedByAll(record) ==
    Classify(record) =
        {IF Comparable(record) = {} THEN "NOT_MANAGED"
         ELSE IF \E p \in Comparable(record) : Older(record.version, metadata[p].version)
         THEN "UPDATE_AVAILABLE" ELSE "UP_TO_DATE"}

\* A strict order on a finite set has an element that none exceeds: one with as
\* few above it as possible has none.
LEMMA Greatest ==
    ASSUME NEW S, IsFiniteSet(S), S # {}, NEW R,
           \A p \in S : <<p, p>> \notin R,
           \A p, q, r \in S : <<p, q>> \in R /\ <<q, r>> \in R => <<p, r>> \in R
    PROVE  \E p \in S : \A q \in S : <<p, q>> \notin R
<1> DEFINE Above(p) == {q \in S : <<p, q>> \in R}
           T == {Above(p) : p \in S}
<1>0. \A p \in S : Above(p) \subseteq S
  OBVIOUS
<1> HIDE DEF Above
<1>1. T \subseteq FiniteSubsetsOf(S) /\ T # {}
  <2>1. \A p \in S : IsFiniteSet(Above(p))
    BY <1>0, FS_Subset
  <2> QED
    BY <1>0, <2>1 DEF FiniteSubsetsOf
<1>2. PICK t \in T : \A u \in T : <<u, t>> \notin StrictSubsetOrdering(S)
  BY <1>1, FS_StrictSubsetOrderingWellFounded, WFMin
<1>3. PICK p \in S : t = Above(p)
  OBVIOUS
<1>4. ASSUME NEW q \in S, <<p, q>> \in R PROVE FALSE
  <2>1. Above(q) \subseteq Above(p)
    BY <1>4 DEF Above
  <2>2. q \in Above(p) /\ q \notin Above(q)
    BY <1>4 DEF Above
  <2>3. <<Above(q), Above(p)>> \in StrictSubsetOrdering(S)
    BY <1>0, <2>1, <2>2 DEF StrictSubsetOrdering
  <2> QED
    BY <1>2, <1>3, <2>3
<1> QED
  BY <1>4

\* The tuple order has a greatest element among any packages.
LEMMA GreatestVersion ==
    ASSUME NEW S \in SUBSET Packages, S # {}, \A p \in S : metadata[p].version \in Seq(Nat)
    PROVE  \E p \in S : \A q \in S : ~TupleLess(metadata[p].version, metadata[q].version)
<1> DEFINE Exceeded(p, q) == TupleLess(metadata[p].version, metadata[q].version)
           R == {e \in S \X S : Exceeded(e[1], e[2])}
<1>1. IsFiniteSet(S)
  <2>1. 1 \in Int /\ MaxPackages \in Int
    BY RepositoryAssumption
  <2>2. IsFiniteSet(Packages)
    BY <2>1, FS_Interval DEF Packages
  <2> QED
    BY <2>2, FS_Subset
<1>2. /\ \A p \in S : ~Exceeded(p, p)
      /\ \A p, q, r \in S : Exceeded(p, q) /\ Exceeded(q, r) => Exceeded(p, r)
  BY TupleOrder
<1> HIDE DEF Exceeded
<1>3. \A p, q \in S : <<p, q>> \in R <=> Exceeded(p, q)
  OBVIOUS
<1> HIDE DEF R
<1>4. PICK p \in S : \A q \in S : <<p, q>> \notin R
  BY <1>1, <1>2, <1>3, Greatest
<1> QED
  BY <1>3, <1>4 DEF Exceeded

LEMMA VersionsOfPackages ==
    ASSUME RepositoryTypeOK, NEW p \in list_approved
    PROVE  /\ p \in Packages
           /\ metadata[p].version \in Unparseable \/ metadata[p].version \in Seq(Nat)
BY VersionAssumption, Digits DEF RepositoryTypeOK, list_approved

LEMMA BestIsEnough ==
    ASSUME RepositoryTypeOK, NEW record,
           record.version \in Unparseable \/ record.version \in Seq(Nat)
    PROVE  JudgedByAll(record)
<1> DEFINE candidates == list_approved_for_identity(record)
           parseable == {p \in candidates : metadata[p].version \notin Unparseable}
           best == BestMatches(record)
<1>1. /\ candidates \subseteq Packages
      /\ \A p \in parseable : metadata[p].version \in Seq(Nat)
  BY VersionsOfPackages DEF list_approved_for_identity, list_approved
<1>2. CASE record.version \in Unparseable
  <2>1. Comparable(record) = {}
    BY <1>2 DEF Comparable
  <2>2. \A p : StatusAgainst(record, p) = "NOT_MANAGED"
    BY <1>2 DEF StatusAgainst, compare_versions
  <2>3. Classify(record) = {"NOT_MANAGED"}
    BY <2>2 DEF Classify
  <2> QED
    BY <2>1, <2>3 DEF JudgedByAll
<1>3. CASE record.version \notin Unparseable /\ parseable = {}
  <2>1. Comparable(record) = {}
    BY <1>3 DEF Comparable
  <2>2. best = candidates
    BY <1>3 DEF BestMatches
  <2>3. \A p \in candidates : StatusAgainst(record, p) = "NOT_MANAGED"
    BY <1>3 DEF StatusAgainst, compare_versions
  <2>4. Classify(record) = {"NOT_MANAGED"}
    BY <2>2, <2>3 DEF Classify
  <2> QED
    BY <2>1, <2>4 DEF JudgedByAll
<1>4. CASE record.version \notin Unparseable /\ parseable # {}
  <2>1. Comparable(record) = parseable /\ record.version \in Seq(Nat)
    BY <1>4 DEF Comparable
  <2>2. best = {p \in parseable : \A q \in parseable :
                    ~TupleLess(metadata[p].version, metadata[q].version)}
    BY <1>4 DEF BestMatches
  <2>3. best # {}
    <3>1. parseable \in SUBSET Packages
      BY <1>1
    <3> HIDE DEF parseable
    <3> QED
      BY <1>1, <1>4, <2>2, <3>1, GreatestVersion
  <2> DEFINE newer == \E q \in parseable : Older(record.version, metadata[q].version)
  <2>4. ASSUME NEW p \in best
        PROVE  StatusAgainst(record, p) = IF newer THEN "UPDATE_AVAILABLE" ELSE "UP_TO_DATE"
    <3>1. /\ p \in parseable /\ metadata[p].version \in Seq(Nat)
          /\ metadata[p].version \notin Unparseable
          /\ \A q \in parseable : ~TupleLess(metadata[p].version, metadata[q].version)
      BY <1>1, <2>2
    <3>2. ASSUME NEW q \in parseable, Older(record.version, metadata[q].version)
          PROVE  Older(record.version, metadata[p].version)
      <4>1. ~Older(metadata[p].version, metadata[q].version)
        BY <1>1, <3>1, OlderIsLess
      <4> QED
        BY <1>1, <2>1, <3>1, <3>2, <4>1, OlderThanBest
    <3>3. newer <=> Older(record.version, metadata[p].version)
      BY <3>1, <3>2
    <3>4. StatusAgainst(record, p) = IF Older(record.version, metadata[p].version)
                                     THEN "UPDATE_AVAILABLE" ELSE "UP_TO_DATE"
      BY <1>4, <3>1 DEF StatusAgainst, compare_versions
    <3> QED
      BY <3>3, <3>4
  <2> HIDE DEF newer
  <2>5. Classify(record) = {IF newer THEN "UPDATE_AVAILABLE" ELSE "UP_TO_DATE"}
    BY <2>3, <2>4 DEF Classify
  <2> QED
    BY <1>4, <2>1, <2>5 DEF JudgedByAll, newer
<1> QED
  BY <1>2, <1>3, <1>4

\* No update is missed because the service compared a record with another of
\* the packages that match it, for versions of any length and any uploads: the
\* order of tuples it prefers by and the padded order it compares by agree.
THEOREM NoUpdateIsMissed ==
    RepositorySpec =>
        [](\A record : record.version \in Unparseable \/ record.version \in Seq(Nat)
                            => JudgedByAll(record))
<1>1. RepositoryTypeOK =>
        \A record : record.version \in Unparseable \/ record.version \in Seq(Nat)
                        => JudgedByAll(record)
  BY BestIsEnough
<1> QED
  BY <1>1, RepositoryTypeCorrect, PTL

\* An update is reported exactly when an approved package of the record's
\* identity is newer by the number its version is, and none is missed because
\* the service compared the record with another one (_select_best_match,
\* _classify).
THEOREM UpdatesAreByValue == RepositorySpec => []NoUpdateMissed
<1>1. ASSUME RepositoryTypeOK PROVE NoUpdateMissed
  <2> SUFFICES ASSUME NEW record \in Records
               PROVE  JudgedByValue(record)
    BY DEF NoUpdateMissed
  <2>1. record.version \in Unparseable \/ record.version \in Versions
    BY VersionAssumption
  <2>2. JudgedByAll(record)
    BY <1>1, <2>1, BestIsEnough, Digits
  <2>3. ASSUME NEW p \in Comparable(record)
        PROVE  Older(record.version, metadata[p].version)
                <=> Value(metadata[p].version) > Value(record.version)
    <3>1. p \in list_approved /\ metadata[p].version \notin Unparseable
          /\ record.version \notin Unparseable
      BY <2>3 DEF Comparable, list_approved_for_identity
    <3>2. metadata[p].version \in Versions
      BY <1>1, <3>1, VersionAssumption DEF RepositoryTypeOK, list_approved
    <3>3. Older(record.version, metadata[p].version)
            <=> Value(record.version) < Value(metadata[p].version)
      BY <2>1, <3>1, <3>2, OlderByValue
    <3>4. Value(record.version) \in Nat /\ Value(metadata[p].version) \in Nat
      BY <2>1, <3>1, <3>2, ValueIsNat
    <3> QED
      BY <3>3, <3>4
  <2>4. Comparable(record) =
            {p \in list_approved :
                /\ software_identity_matches(record, metadata[p])
                /\ {metadata[p].version, record.version} \cap Unparseable = {}}
    BY DEF Comparable, list_approved_for_identity
  <2>5. (\E p \in Comparable(record) : Older(record.version, metadata[p].version))
        <=> \E p \in Comparable(record) : Value(metadata[p].version) > Value(record.version)
    BY <2>3
  <2> QED
    BY <2>2, <2>4, <2>5 DEF JudgedByAll, JudgedByValue
<1> QED
  BY <1>1, RepositoryTypeCorrect, PTL

-----------------------------------------------------------------------------
(* The deployment service's view of the approvals.                          *)

LEMMA NoTables ==
    /\ <<>> = [b \in 1..0 |-> NoFile]
    /\ \A x : <<>> = [t \in (1..0) \X {} |-> x]
OBVIOUS

LEMMA InitApprovals == RepositoryInit => Deploying!Init
BY NoTables
   DEF RepositoryInit, Deploying!Init, Deploying!Batches, Deploying!Targets,
       Deploying!AuditRows, Deploying!TargetEvents, Deploying!ClientEvents

\* An upload or a deactivation is one for the deployment service, and nothing
\* else changes an approval.
LEMMA NextApprovals ==
    RepositoryTypeOK /\ [RepositoryNext]_repositoryVars =>
        [\E p \in Packages :
            \/ Deploying!DeactivatePackage(p)
            \/ \E superseded \in SUBSET Packages : Deploying!UploadPackage(p, superseded)]_approval
<1> SUFFICES ASSUME RepositoryTypeOK, [RepositoryNext]_repositoryVars, approval' # approval
             PROVE  \E p \in Packages :
                        \/ Deploying!DeactivatePackage(p)
                        \/ \E superseded \in SUBSET Packages :
                                Deploying!UploadPackage(p, superseded)
  OBVIOUS
<1>1. ASSUME NEW p \in Packages, CommitUpload(p)
      PROVE  \E superseded \in SUBSET Packages : Deploying!UploadPackage(p, superseded)
  <2>1. /\ list_approved_for_identity(upload) \in SUBSET Packages
        /\ \A q \in list_approved_for_identity(upload) : approval[q] = "Approved"
    BY DEF list_approved_for_identity, list_approved
  <2>2. Deploying!UploadPackage(p, list_approved_for_identity(upload))
    BY <1>1, <2>1 DEF CommitUpload, Deploying!UploadPackage, Deploying!rowVars
  <2> QED
    BY <2>1, <2>2
<1>2. ASSUME NEW p \in Packages, DeactivatePackage(p) PROVE Deploying!DeactivatePackage(p)
  <2>1. approval[p] = "Approved"
    BY <1>2 DEF DeactivatePackage, RepositoryTypeOK
  <2> QED
    BY <1>2, <2>1 DEF DeactivatePackage, Deploying!DeactivatePackage, Deploying!rowVars
<1> QED
  BY <1>1, <1>2
     DEF RepositoryNext, RejectDuplicate, BeginUpload, RefuseFile, StoreFile, AbandonUpload,
         tableVars, repositoryVars

\* What the deployment service's model lets the repository do to the approvals
\* is all it does: a package is approved once, and an inactive one never again.
THEOREM RepositoryImplementsApprovals == RepositorySpec => ImplementsApprovals
BY InitApprovals, NextApprovals, RepositoryTypeCorrect, PTL
   DEF RepositorySpec, ImplementsApprovals

=============================================================================
