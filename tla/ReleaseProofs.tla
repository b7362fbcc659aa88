----------------------------- MODULE ReleaseProofs -----------------------------
(***************************************************************************)
(* Theorems about ReleaseEnsure for all kinds of artifacts, contents,      *)
(* targets, manifests, receipts and bases.                                 *)
(***************************************************************************)
EXTENDS ReleaseProperties, TLAPS, WellFoundedInduction

LEMMA Absent ==
  /\ None \notin Hashes /\ None \notin Targets
  /\ None \notin Receipts /\ None \notin Bases /\ None \notin Manifests
BY AbsenceIsNew

-----------------------------------------------------------------------------
(* The operators of the planner.                                           *)

LEMMA OnlyOne == ASSUME NEW x PROVE Only({x}) = x
BY DEF Only

LEMMA OnlyUnique ==
  ASSUME NEW S, Only(S) # None
  PROVE  S = {Only(S)}
<1>1. PICK x \in S : S = {x}
  BY DEF Only
<1>2. QED BY <1>1, OnlyOne

\* Among some bases there is one with the least name.
LEMMA FirstOfSome ==
  ASSUME NEW S \in SUBSET Bases, S # {}
  PROVE  First(S) \in S
<1> DEFINE Numbers == {b.name : b \in S}
<1>1. Numbers \subseteq Nat /\ Numbers # {}
  BY BasesAreNumbered DEF Bases
<1>2. PICK n \in Numbers : \A m \in Numbers : ~(<<m, n>> \in OpToRel(<, Nat))
  BY <1>1, WFMin, NatLessThanWellFounded
<1>3. \A m \in Numbers : n <= m
  <2> TAKE m \in Numbers
  <2>1. m \in Nat /\ n \in Nat /\ <<m, n>> \notin {s \in Nat \X Nat : s[1] < s[2]}
    BY <1>1, <1>2 DEF OpToRel
  <2> HIDE DEF Numbers
  <2>2. ~(m < n)
    BY <2>1
  <2>3. QED BY <2>1, <2>2
<1>4. PICK b \in S : b.name = n
  OBVIOUS
<1>5. \A c \in S : b.name <= c.name
  BY <1>3, <1>4
<1>6. QED BY <1>5 DEF First

LEMMA FirstFound ==
  ASSUME NEW S \in SUBSET Bases
  PROVE  /\ S # {} => First(S) # None /\ First(S) \in S
         /\ First(S) # None => S # {}
BY FirstOfSome, Absent DEF First

\* The receipts that count for the release under a target, None for any.
Counting(target) ==
  {r \in receipts : r.valid /\ r.release = "mine" /\ target \in {None, r.target}}

LEMMA IndexEntry ==
  ASSUME NEW k \in Kinds, NEW t, NEW h,
         [release |-> "mine", target |-> t, kind |-> k, hash |-> h] \in Index
  PROVE  \E r \in receipts : r.valid /\ r.release = "mine" /\ r.target = t /\ r.hash[k] = h
<1>1. PICK r \in {x \in receipts : x.valid}, j \in Kinds :
        [release |-> "mine", target |-> t, kind |-> k, hash |-> h]
          = [release |-> r.release, target |-> r.target, kind |-> j, hash |-> r.hash[j]]
  BY DEF Index
<1>2. r.release = "mine" /\ r.target = t /\ j = k /\ r.hash[j] = h
  BY <1>1
<1>3. QED BY <1>2

LEMMA EntryOfReceipt ==
  ASSUME NEW k \in Kinds, NEW r \in receipts, r.valid, r.release = "mine"
  PROVE  [release |-> "mine", target |-> r.target, kind |-> k, hash |-> r.hash[k]] \in Index
BY DEF Index

LEMMA CandidatesCount ==
  ASSUME NEW k \in Kinds, NEW t
  PROVE  /\ {e.hash : e \in IndexCandidates(k, t)} = {r.hash[k] : r \in Counting(t)}
         /\ {e.target : e \in IndexCandidates(k, t)} = {r.target : r \in Counting(t)}
<1>1. ASSUME NEW e \in IndexCandidates(k, t)
      PROVE  \E r \in Counting(t) : e.hash = r.hash[k] /\ e.target = r.target
  BY DEF IndexCandidates, Index, Counting
<1>2. ASSUME NEW r \in Counting(t)
      PROVE  \E e \in IndexCandidates(k, t) : e.hash = r.hash[k] /\ e.target = r.target
  <2> DEFINE e == [release |-> "mine", target |-> r.target, kind |-> k, hash |-> r.hash[k]]
  <2>1. e \in Index
    BY EntryOfReceipt DEF Counting
  <2>2. e \in IndexCandidates(k, t)
    BY <2>1 DEF IndexCandidates, Counting
  <2>3. QED BY <2>2
<1>3. QED BY <1>1, <1>2

HashOf(k, target, m) ==
  IF ManifestArtifact(m, k).sha256 # None THEN ManifestArtifact(m, k).sha256
  ELSE Only({r.hash[k] : r \in Counting(target)})

TargetOf(target) ==
  IF target # None THEN target ELSE Only({r.target : r \in Counting(target)})

\* _plan_artifact, in terms of the receipts.
LEMMA PlanArtifactIs ==
  ASSUME NEW k \in Kinds, NEW t, NEW m
  PROVE  PlanArtifact(k, t, m) =
           CASE ManifestArtifact(m, k).is = "unknown" ->
                  [status |-> "SDKM_DECISION", hash |-> None]
             [] ManifestArtifact(m, k).is # "unknown"
                  /\ (HashOf(k, t, m) = None \/ TargetOf(t) = None) ->
                  [status |-> "SDKM_DECISION", hash |-> HashOf(k, t, m)]
             [] OTHER ->
                  [status |-> ArtifactStatus(k, TargetOf(t), HashOf(k, t, m),
                                             ManifestArtifact(m, k).size),
                   hash |-> HashOf(k, t, m)]
BY CandidatesCount, Zenon DEF PlanArtifact, HashOf, TargetOf, EffectiveTarget

\* What is called cached is proved by a receipt.
LEMMA CachedArtifact ==
  ASSUME NEW k \in Kinds, NEW t, NEW m,
         PlanArtifact(k, t, m).status = "VERIFIED_CACHED"
  PROVE  /\ ManifestArtifact(m, k).is # "unknown"
         /\ HashOf(k, t, m) # None /\ TargetOf(t) # None
         /\ PlanArtifact(k, t, m).hash = HashOf(k, t, m)
         /\ \E r \in receipts : /\ r.valid /\ r.release = "mine"
                                /\ r.target = TargetOf(t)
                                /\ r.hash[k] = HashOf(k, t, m)
<1> DEFINE said == ManifestArtifact(m, k)
           h == HashOf(k, t, m)
           e == TargetOf(t)
           status == ArtifactStatus(k, e, h, said.size)
<1>1. said.is # "unknown" /\ h # None /\ e # None
        /\ PlanArtifact(k, t, m) = [status |-> status, hash |-> h]
  <2> HIDE DEF said, h, e, status
  <2>1. PlanArtifact(k, t, m) =
          CASE said.is = "unknown" -> [status |-> "SDKM_DECISION", hash |-> None]
            [] said.is # "unknown" /\ (h = None \/ e = None) ->
                 [status |-> "SDKM_DECISION", hash |-> h]
            [] OTHER -> [status |-> status, hash |-> h]
    BY PlanArtifactIs DEF said, h, e, status
  <2>2. QED BY <2>1
<1>2. status = "VERIFIED_CACHED"
  BY <1>1
<1>3. [release |-> "mine", target |-> e, kind |-> k, hash |-> h] \in Index
  BY <1>2 DEF ArtifactStatus
<1>4. QED BY <1>1, <1>3, IndexEntry

\* The target and the manifest that a plan is made for.
ManifestTarget(m) == IF m # None /\ m.known /\ m.release = "mine" THEN m.target ELSE None
Conflict(d, m) == d # None /\ ManifestTarget(m) \notin {None, d}
PlannedTarget(d, m) ==
  IF Conflict(d, m) THEN None ELSE IF d # None THEN d ELSE ManifestTarget(m)
PlannedFrom(d, m) == IF Conflict(d, m) THEN NotUnderstood ELSE m

LEMMA PlanReleaseIs ==
  ASSUME NEW d, NEW m
  PROVE  /\ \A k \in Kinds : PlanRelease(d, m).artifacts[k]
                               = PlanArtifact(k, PlannedTarget(d, m), PlannedFrom(d, m))
         /\ PlanRelease(d, m).base = FindReusableBase(PlanRelease(d, m).artifacts)
BY DEF PlanRelease, PlannedTarget, PlannedFrom, Conflict, ManifestTarget

\* A manifest that is not understood leaves everything to SDK Manager.
LEMMA ConflictDecides ==
  ASSUME NEW k \in Kinds, NEW t
  PROVE  PlanArtifact(k, t, NotUnderstood).status = "SDKM_DECISION"
<1>1. NotUnderstood \in Manifests
  BY OfficialKnown DEF NotUnderstood, Manifests, Owners, Evidence, Unsaid
<1>2. ManifestArtifact(NotUnderstood, k).is = "unknown"
  BY <1>1, Absent DEF ManifestArtifact, NotUnderstood, Unsaid
<1>3. QED BY <1>2, PlanArtifactIs

-----------------------------------------------------------------------------
(* Types.                                                                  *)

LEMMA OnlyWithin == ASSUME NEW S PROVE Only(S) \in S \cup {None}
BY DEF Only

LEMMA HashType ==
  ASSUME TypeOK, NEW k \in Kinds, NEW t, NEW m \in Manifests \cup {None}
  PROVE  ManifestArtifact(m, k) \in Evidence /\ HashOf(k, t, m) \in Hashes \cup {None}
<1>1. ManifestArtifact(m, k) \in Evidence
  BY DEF ManifestArtifact, Manifests, Unsaid, Evidence
<1>2. {r.hash[k] : r \in Counting(t)} \subseteq Hashes
  BY DEF TypeOK, Receipts, Counting
<1>3. Only({r.hash[k] : r \in Counting(t)}) \in Hashes \cup {None}
  BY <1>2, OnlyWithin
<1>4. QED BY <1>1, <1>3 DEF HashOf, Evidence

LEMMA ArtifactType ==
  ASSUME TypeOK, NEW k \in Kinds, NEW t, NEW m \in Manifests \cup {None}
  PROVE  PlanArtifact(k, t, m) \in Artifacts
<1> DEFINE said == ManifestArtifact(m, k)
           h == HashOf(k, t, m)
           e == TargetOf(t)
           status == ArtifactStatus(k, e, h, said.size)
<1>1. h \in Hashes \cup {None} /\ status \in Statuses
  BY HashType DEF ArtifactStatus, Statuses
<1>2. PlanArtifact(k, t, m) \in {[status |-> "SDKM_DECISION", hash |-> None],
                                 [status |-> "SDKM_DECISION", hash |-> h],
                                 [status |-> status, hash |-> h]}
  <2> HIDE DEF said, h, e, status
  <2>1. PlanArtifact(k, t, m) =
          CASE said.is = "unknown" -> [status |-> "SDKM_DECISION", hash |-> None]
            [] said.is # "unknown" /\ (h = None \/ e = None) ->
                 [status |-> "SDKM_DECISION", hash |-> h]
            [] OTHER -> [status |-> status, hash |-> h]
    BY PlanArtifactIs DEF said, h, e, status
  <2>2. QED BY <2>1
<1>3. QED
  <2> HIDE DEF h, status
  <2>1. QED BY <1>1, <1>2 DEF Artifacts, Statuses

LEMMA PlanType ==
  ASSUME TypeOK, NEW d, NEW m \in Manifests \cup {None}
  PROVE  PlanRelease(d, m) \in Plans
<1> DEFINE p == PlanRelease(d, m)
<1>1. PlannedFrom(d, m) \in Manifests \cup {None}
  BY OfficialKnown DEF PlannedFrom, NotUnderstood, Manifests, Owners, Evidence, Unsaid
<1>2. \A k \in Kinds : p.artifacts[k] \in Artifacts
  BY <1>1, PlanReleaseIs, ArtifactType
<1>3. p.base \in Bases \cup {None}
  <2> DEFINE S == {b \in bases : /\ b.release = "mine" /\ b.recipe = "mine"
                                 /\ \A k \in Kinds : p.artifacts[k].hash \in {None, b.hash[k]}}
  <2>1. S \in SUBSET Bases
    BY DEF TypeOK
  <2>2. p.base = First(S)
    <3>1. p.base = FindReusableBase(p.artifacts)
      BY PlanReleaseIs
    <3> HIDE DEF p
    <3>2. QED BY <3>1 DEF FindReusableBase
  <2>3. QED
    <3> HIDE DEF S, p
    <3>1. QED BY <2>1, <2>2, FirstFound
<1>4. p = [artifacts |-> p.artifacts, base |-> p.base]
        /\ p.artifacts = [k \in Kinds |-> p.artifacts[k]]
  BY DEF PlanRelease
<1>5. QED
  <2> HIDE DEF p
  <2>1. p \in Plans
    BY <1>2, <1>3, <1>4 DEF Plans
  <2>2. QED BY <2>1 DEF p

LEMMA FoundReceipt ==
  ASSUME TypeOK, NEW p
  PROVE  /\ FindReceipt(p) # None =>
              FindReceipt(p) \in receipts /\ ReceiptMatches(FindReceipt(p), p)
         /\ (\E r \in receipts : ReceiptMatches(r, p)) => FindReceipt(p) # None
BY Absent DEF FindReceipt, TypeOK

LEMMA TypeStep ==
  ASSUME TypeOK, [Next]_vars
  PROVE  TypeOK'
<1> USE DEF TypeOK, Phases
<1>1. CASE Plan
  BY <1>1, PlanType, FoundReceipt DEF Plan
<1>2. CASE Replan
  <2>1. ManifestAfterAcquisition \in Manifests \cup {None}
    BY DEF ManifestAfterAcquisition
  <2>2. QED BY <1>2, <2>1, PlanType, FoundReceipt DEF Replan
<1>3. CASE Decide \/ AcquireFails \/ Incomplete \/ ReuseBase \/ CallBuilder \/ Report \/ BuildFails
  BY <1>3 DEF Decide, AcquireFails, Incomplete, ReuseBase, CallBuilder, Report, BuildFails, Ends
<1>4. CASE Acquire
  <2>1. [release |-> "mine", role |-> "mine", target |-> Required,
         hash |-> [k \in Kinds |-> Official], valid |-> TRUE] \in Receipts
    BY OfficialKnown DEF Receipts, Owners
  <2>2. QED BY <1>4, <2>1 DEF Acquire
<1>5. ASSUME NEW n \in 0..MaxBase, Build(n) PROVE TypeOK'
  <2>1. receipt.hash \in [Kinds -> Hashes]
    BY <1>5 DEF Build, Receipts
  <2>2. n \in 1..MaxBase =>
          [name |-> n, release |-> "mine", recipe |-> "mine", hash |-> receipt.hash] \in Bases
    BY <2>1 DEF Bases, Owners
  <2>3. QED BY <1>5, <2>2 DEF Build, Ends
<1>6. CASE DeleteCache
  <2>1. \A r \in Receipts : [r EXCEPT !.valid = FALSE] \in Receipts
    BY DEF Receipts
  <2>2. QED BY <1>6, <2>1 DEF DeleteCache, run
<1>7. CASE \E b \in bases : DeleteBase(b)
  BY <1>7 DEF DeleteBase, run
<1>8. CASE UNCHANGED vars
  BY <1>8 DEF vars
<1>9. QED BY <1>1, <1>2, <1>3, <1>4, <1>5, <1>6, <1>7, <1>8 DEF Next

\* The types hold throughout.
THEOREM TypeCorrect == Spec => []TypeOK
<1>1. Init => TypeOK
  BY DEF Init, TypeOK, Phases
<1>2. QED BY <1>1, TypeStep, PTL DEF Spec

-----------------------------------------------------------------------------
(* What a plan says.                                                       *)

\* Where the plan changes, it is made from what is there.
LEMMA PlanChange ==
  ASSUME Next, plan' # plan, plan' # None
  PROVE  /\ \/ phase = "idle" /\ plan' = PlanRelease(None, manifest)
            \/ phase = "acquired" /\ plan' = PlanRelease(Required, ManifestAfterAcquisition)
         /\ receipt' = FindReceipt(plan')
BY DEF Next, Plan, Decide, Acquire, AcquireFails, Replan, Incomplete, ReuseBase, CallBuilder,
   Report, Build, BuildFails, DeleteCache, DeleteBase, Ends, run

\* A plan for a known target calls nothing cached on the word of another one.
LEMMA CachedPlan ==
  ASSUME NEW d, NEW m, NEW k \in Kinds,
         PlanRelease(d, m).artifacts[k].status = "VERIFIED_CACHED"
  PROVE  /\ d # None => PlannedTarget(d, m) = d
         /\ \E r \in receipts : /\ r.valid /\ r.release = "mine"
                                /\ r.hash[k] = PlanRelease(d, m).artifacts[k].hash
                                /\ d # None => r.target = d
<1>1. PlanArtifact(k, PlannedTarget(d, m), PlannedFrom(d, m)).status = "VERIFIED_CACHED"
        /\ PlanRelease(d, m).artifacts[k] = PlanArtifact(k, PlannedTarget(d, m), PlannedFrom(d, m))
  BY PlanReleaseIs
<1>2. ~Conflict(d, m)
  BY <1>1, ConflictDecides DEF PlannedFrom
<1>3. d # None => PlannedTarget(d, m) = d
  BY <1>2 DEF PlannedTarget
<1>4. \E r \in receipts :
        /\ r.valid /\ r.release = "mine"
        /\ r.target = TargetOf(PlannedTarget(d, m))
        /\ r.hash[k] = PlanArtifact(k, PlannedTarget(d, m), PlannedFrom(d, m)).hash
  BY <1>1, CachedArtifact
<1>5. d # None => TargetOf(PlannedTarget(d, m)) = d
  BY <1>3 DEF TargetOf
<1>6. QED BY <1>1, <1>3, <1>4, <1>5

\* A plan calls an input cached only on the word of a valid receipt of this
\* release, and of its target where that is known.
THEOREM CachedTruly == Spec => PlansCachedTruly
<1>1. ASSUME TypeOK, Next, plan' # plan, plan' # None, NEW k \in Kinds,
             plan'.artifacts[k].status = "VERIFIED_CACHED"
      PROVE  \E r \in receipts :
               /\ r.valid /\ r.release = "mine"
               /\ r.hash[k] = plan'.artifacts[k].hash
               /\ phase = "acquired" => r.target = Required
  <2>1. CASE phase = "idle" /\ plan' = PlanRelease(None, manifest)
    BY <1>1, <2>1, CachedPlan
  <2>2. CASE phase = "acquired" /\ plan' = PlanRelease(Required, ManifestAfterAcquisition)
    BY <1>1, <2>2, CachedPlan, OfficialKnown, Absent
  <2>3. QED BY <1>1, <2>1, <2>2, PlanChange
<1>2. TypeOK /\ [Next]_vars => [plan' # plan /\ plan' # None =>
       \A k \in Kinds : plan'.artifacts[k].status = "VERIFIED_CACHED" =>
         \E r \in receipts :
           /\ r.valid /\ r.release = "mine"
           /\ r.hash[k] = plan'.artifacts[k].hash
           /\ phase = "acquired" => r.target = Required]_vars
  BY <1>1
<1>3. QED BY <1>2, TypeCorrect, PTL DEF Spec, PlansCachedTruly

\* The two searches for a base look for the same thing, once a receipt matches.
LEMMA SameSearch ==
  ASSUME TypeOK, NEW d, NEW m, FindReceipt(PlanRelease(d, m)) # None
  PROVE  PlanRelease(d, m).base = ReusableCandidate(FindReceipt(PlanRelease(d, m)))
<1> DEFINE p == PlanRelease(d, m)
           r == FindReceipt(p)
           P == {b \in bases : /\ b.release = "mine" /\ b.recipe = "mine"
                               /\ \A k \in Kinds : p.artifacts[k].hash \in {None, b.hash[k]}}
           C == {b \in bases : b.release = "mine" /\ b.recipe = "mine" /\ b.hash = r.hash}
<1>1. r \in receipts /\ ReceiptMatches(r, p)
  BY FoundReceipt
<1>2. r.hash \in [Kinds -> Hashes] /\ \A k \in Kinds : p.artifacts[k].hash = r.hash[k]
  BY <1>1 DEF ReceiptMatches, TypeOK, Receipts
<1>3. \A b \in bases : b.hash \in [Kinds -> Hashes]
  BY DEF TypeOK, Bases
<1>4. p.base = FindReusableBase(p.artifacts)
  BY PlanReleaseIs
<1> HIDE DEF p, r
<1>5. \A b \in bases :
        (\A k \in Kinds : p.artifacts[k].hash \in {None, b.hash[k]}) <=> b.hash = r.hash
  BY <1>2, <1>3, Absent
<1>6. P = C
  BY <1>5
<1>7. p.base = First(P) /\ ReusableCandidate(r) = First(C)
  BY <1>4 DEF FindReusableBase, ReusableCandidate
<1>8. QED BY <1>6, <1>7 DEF p, r

\* The base of a plan is the one that the construction would reuse.
THEOREM AgreeingSearches == Spec => SearchesAgree
<1>1. ASSUME TypeOK, Next, plan' # plan, plan' # None, receipt' # None
      PROVE  plan'.base = ReusableCandidate(receipt')
  BY <1>1, PlanChange, SameSearch
<1>2. TypeOK /\ [Next]_vars =>
        [plan' # plan /\ plan' # None /\ InputsVerified(plan') /\ receipt' # None =>
           plan'.base = ReusableCandidate(receipt')]_vars
  BY <1>1
<1>3. QED BY <1>2, TypeCorrect, PTL DEF Spec, SearchesAgree

-----------------------------------------------------------------------------
(* What a plan that was made from what is there is worth, until something  *)
(* is deleted.                                                             *)

\* A receipt of the target in question makes an input cached, if no other one is
\* in its way.
LEMMA CachedByReceipt ==
  ASSUME TypeOK, NEW k \in Kinds, NEW t, NEW m, NEW r \in receipts,
         r.valid, r.release = "mine",
         TargetOf(t) = r.target, HashOf(k, t, m) = r.hash[k],
         ManifestArtifact(m, k).is # "unknown", ManifestArtifact(m, k).size # "wrong"
  PROVE  PlanArtifact(k, t, m) = [status |-> "VERIFIED_CACHED", hash |-> r.hash[k]]
<1>1. r.target # None /\ r.hash[k] # None
  BY Absent DEF TypeOK, Receipts
<1>2. ArtifactStatus(k, TargetOf(t), HashOf(k, t, m), ManifestArtifact(m, k).size)
        = "VERIFIED_CACHED"
  BY EntryOfReceipt DEF ArtifactStatus
<1> DEFINE said == ManifestArtifact(m, k)
           h == HashOf(k, t, m)
           e == TargetOf(t)
           status == ArtifactStatus(k, e, h, said.size)
<1>3. said.is # "unknown" /\ h # None /\ e # None /\ status = "VERIFIED_CACHED" /\ h = r.hash[k]
  BY <1>1, <1>2
<1>4. PlanArtifact(k, t, m) =
        CASE said.is = "unknown" -> [status |-> "SDKM_DECISION", hash |-> None]
          [] said.is # "unknown" /\ (h = None \/ e = None) ->
               [status |-> "SDKM_DECISION", hash |-> h]
          [] OTHER -> [status |-> status, hash |-> h]
  BY PlanArtifactIs
<1> HIDE DEF said, h, e, status
<1>5. QED BY <1>3, <1>4

LEMMA VerifiedByReceipt ==
  ASSUME NEW p, NEW r, r.valid, r.release = "mine", r.role = "mine", r.target = Required,
         \A k \in Kinds : p.artifacts[k] = [status |-> "VERIFIED_CACHED", hash |-> r.hash[k]]
  PROVE  InputsVerified(p) /\ ReceiptMatches(r, p)
<1>1. ASSUME NEW k \in Kinds
      PROVE  p.artifacts[k].status = "VERIFIED_CACHED" /\ p.artifacts[k].hash = r.hash[k]
  <2> DEFINE a == p.artifacts[k]
  <2>1. a = [status |-> "VERIFIED_CACHED", hash |-> r.hash[k]]
    OBVIOUS
  <2> HIDE DEF a
  <2>2. a.status = "VERIFIED_CACHED" /\ a.hash = r.hash[k]
    BY <2>1
  <2>3. QED BY <2>2 DEF a
<1>2. QED BY <1>1 DEF InputsVerified, ReceiptMatches

\* After an acquisition that nothing contradicts, the plan is complete.
LEMMA CompletePlan ==
  ASSUME TypeOK, NEW r \in Predecessors, r.valid, ~Contradicts, ~Ambiguous
  PROVE  LET p == PlanRelease(Required, ManifestAfterAcquisition)
         IN  InputsVerified(p) /\ FindReceipt(p) # None
<1> DEFINE m == ManifestAfterAcquisition
<1>1. \A q \in Counting(Required) : \A k \in Kinds : q.hash[k] = Official
  BY Absent, OfficialKnown DEF Ambiguous, Counting
<1>2. r \in Counting(Required) /\ r \in receipts /\ r.release = "mine" /\ r.target = Required
        /\ r.role = "mine"
  BY DEF Predecessors, Counting
<1>3. m = None \/ /\ m \in Manifests /\ m.known /\ m.release = "mine" /\ m.target = Required
                  /\ \A k \in Kinds : m.artifacts[k].is = "said" /\ Official1(m.artifacts[k])
  <2>1. CASE m = None
    BY <2>1
  <2>2. CASE m # None
    <3>1. m = manifest /\ manifest # None /\ manifest.known
            /\ \A k \in Kinds : manifest.artifacts[k].is = "said"
      BY <2>2 DEF ManifestAfterAcquisition
    <3>2. manifest.release = "mine" /\ manifest.target = Required
            /\ \A k \in Kinds : Official1(manifest.artifacts[k])
      BY <3>1 DEF Contradicts
    <3>3. QED BY <3>1, <3>2 DEF TypeOK
  <2>3. QED BY <2>1, <2>2
<1> HIDE DEF m
<1>4. PlannedTarget(Required, m) = Required /\ PlannedFrom(Required, m) = m
  BY <1>3, OfficialKnown, Absent DEF PlannedTarget, PlannedFrom, Conflict, ManifestTarget
<1>5. ASSUME NEW k \in Kinds
      PROVE  PlanArtifact(k, Required, m) = [status |-> "VERIFIED_CACHED", hash |-> r.hash[k]]
  <2>1. ManifestArtifact(m, k).is # "unknown" /\ ManifestArtifact(m, k).size # "wrong"
          /\ ManifestArtifact(m, k).sha256 \in {None, Official}
    <3>1. CASE m = None
      BY <3>1 DEF ManifestArtifact, Unsaid
    <3>2. CASE m # None
      <4>1. ManifestArtifact(m, k) = m.artifacts[k]
        BY <1>3, <3>2 DEF ManifestArtifact, Official1
      <4>2. QED BY <1>3, <3>2, <4>1 DEF Official1
    <3>3. QED BY <3>1, <3>2
  <2>2. {q.hash[k] : q \in Counting(Required)} = {Official}
    BY <1>1, <1>2
  <2>3. HashOf(k, Required, m) = r.hash[k]
    BY <1>1, <1>2, <2>1, <2>2, OnlyOne DEF HashOf
  <2>4. TargetOf(Required) = r.target
    BY <1>2, OfficialKnown, Absent DEF TargetOf
  <2>5. QED BY <1>2, <2>1, <2>3, <2>4, CachedByReceipt
<1> DEFINE p == PlanRelease(Required, m)
<1>6. \A k \in Kinds : p.artifacts[k] = [status |-> "VERIFIED_CACHED", hash |-> r.hash[k]]
  BY <1>4, <1>5, PlanReleaseIs
<1>7. InputsVerified(p) /\ ReceiptMatches(r, p)
  BY <1>2, <1>6, VerifiedByReceipt
<1>8. QED BY <1>2, <1>7, FoundReceipt DEF m

\* The receipt is the only evidence of the release, and the base is made of it.
Exact ==
  /\ receipt \in Predecessors /\ receipt.valid
  /\ \A q \in receipts : q.valid /\ q.release = "mine" => q.hash = receipt.hash
  /\ plan.base # None =>
       \E b \in bases : b.release = "mine" /\ b.recipe = "mine" /\ b.hash = receipt.hash

\* Without a manifest, a plan that is verified is based on one evidence.
LEMMA ExactPlan ==
  ASSUME TypeOK, OneTarget, NEW d \in {None, Required},
         InputsVerified(PlanRelease(d, None)), FindReceipt(PlanRelease(d, None)) # None
  PROVE  LET p == PlanRelease(d, None)
             r == FindReceipt(p)
         IN  /\ r \in Predecessors /\ r.valid
             /\ \A q \in receipts : q.valid /\ q.release = "mine" => q.hash = r.hash
             /\ p.base # None =>
                  \E b \in bases : b.release = "mine" /\ b.recipe = "mine" /\ b.hash = r.hash
<1> DEFINE p == PlanRelease(d, None)
           r == FindReceipt(p)
<1>1. r \in receipts /\ ReceiptMatches(r, p)
  BY FoundReceipt
<1>2. PlannedTarget(d, None) = d /\ PlannedFrom(d, None) = None
  BY DEF PlannedTarget, PlannedFrom, Conflict, ManifestTarget
<1>3. ASSUME NEW q \in receipts, q.valid, q.release = "mine", NEW k \in Kinds
      PROVE  q.hash[k] = r.hash[k]
  <2>1. PlanArtifact(k, d, None).status = "VERIFIED_CACHED"
          /\ PlanArtifact(k, d, None).hash = r.hash[k]
    BY <1>1, <1>2, PlanReleaseIs DEF InputsVerified, ReceiptMatches
  <2>2. HashOf(k, d, None) # None
    BY <2>1, CachedArtifact
  <2>3. HashOf(k, d, None) = Only({x.hash[k] : x \in Counting(d)})
    BY DEF HashOf, ManifestArtifact, Unsaid
  <2>4. {x.hash[k] : x \in Counting(d)} = {HashOf(k, d, None)}
    BY <2>2, <2>3, OnlyUnique
  <2>5. q \in Counting(d) /\ r \in Counting(d)
    BY <1>1, <1>3 DEF Counting, OneTarget, ReceiptMatches
  <2>6. QED BY <2>4, <2>5
<1>4. \A q \in receipts : q.valid /\ q.release = "mine" => q.hash = r.hash
  <2>1. \A q \in receipts : q.hash = [k \in Kinds |-> q.hash[k]]
    BY DEF TypeOK, Receipts
  <2>2. QED BY <1>1, <1>3, <2>1
<1>5. p.base = ReusableCandidate(r)
  BY SameSearch
<1>6. p.base # None =>
        \E b \in bases : b.release = "mine" /\ b.recipe = "mine" /\ b.hash = r.hash
  <2> DEFINE C == {b \in bases : b.release = "mine" /\ b.recipe = "mine" /\ b.hash = r.hash}
  <2>1. C \in SUBSET Bases
    BY DEF TypeOK
  <2>2. ReusableCandidate(r) = First(C)
    BY DEF ReusableCandidate
  <2>3. First(C) # None => C # {}
    <3> HIDE DEF C
    <3>1. QED BY <2>1, FirstFound
  <2>4. QED BY <1>5, <2>2, <2>3
<1>7. r \in Predecessors /\ r.valid
  BY <1>1 DEF Predecessors, ReceiptMatches
<1>8. QED BY <1>4, <1>6, <1>7

PlanTrue ==
  ~disturbed =>
    /\ phase = "acquired" => \E r \in Predecessors : r.valid
    /\ phase = "replanned" =>
         Contradicts \/ Ambiguous \/ (InputsVerified(plan) /\ receipt # None)
    /\ phase = "build" => InputsVerified(plan) /\ receipt # None
    /\ /\ phase \in {"planned", "replanned", "build"} /\ InputsVerified(plan) /\ receipt # None
       /\ manifest = None /\ OneTarget
       => Exact

LEMMA PlanTrueStep ==
  ASSUME TypeOK, PlanTrue, [Next]_vars
  PROVE  PlanTrue'
<1> SUFFICES ASSUME ~disturbed' PROVE PlanTrue'
  BY DEF PlanTrue
<1> USE DEF Contradicts, Ambiguous, Official1, Exact, OneTarget, InputsVerified, Predecessors
<1>1. CASE Plan
  <2>1. /\ UNCHANGED <<receipts, bases, manifest>> /\ plan' = PlanRelease(None, manifest)
        /\ phase' = "planned" /\ receipt' = FindReceipt(plan')
    BY <1>1 DEF Plan
  <2>2. InputsVerified(plan') /\ receipt' # None /\ manifest = None /\ OneTarget
          => Exact'
    BY <2>1, ExactPlan
  <2>3. QED BY <2>1, <2>2 DEF PlanTrue
<1>2. CASE Decide \/ CallBuilder
  <2>1. ~disturbed /\ UNCHANGED <<receipts, bases, manifest, plan, receipt>>
    BY <1>2 DEF Decide, CallBuilder
  <2>2. phase' = "acquire" \/ /\ phase \in {"planned", "replanned"} /\ phase' = "build"
                              /\ InputsVerified(plan) /\ receipt # None
    BY <1>2 DEF Decide, CallBuilder
  <2>3. QED BY <2>1, <2>2 DEF PlanTrue
<1>3. CASE Acquire
  <2>1. \E r \in receipts' : r.valid /\ r.release = "mine" /\ r.role = "mine" /\ r.target = Required
    <3>1. CASE (\E r \in Predecessors : r.valid) /\ UNCHANGED receipts
      BY <3>1
    <3>2. CASE [release |-> "mine", role |-> "mine", target |-> Required,
                hash |-> [k \in Kinds |-> Official], valid |-> TRUE] \in receipts'
      BY <3>2
    <3>3. QED BY <1>3, <3>1, <3>2 DEF Acquire
  <2>2. phase' = "acquired"
    BY <1>3 DEF Acquire
  <2>3. QED BY <2>1, <2>2 DEF PlanTrue
<1>4. CASE Replan
  <2>1. /\ UNCHANGED <<receipts, bases, manifest>>
        /\ plan' = PlanRelease(Required, ManifestAfterAcquisition) /\ phase' = "replanned"
        /\ receipt' = FindReceipt(plan') /\ ~disturbed /\ phase = "acquired"
    BY <1>4 DEF Replan
  <2>2. Contradicts \/ Ambiguous \/ (InputsVerified(plan') /\ receipt' # None)
    <3>1. \E r \in Predecessors : r.valid
      BY <2>1 DEF PlanTrue
    <3> HIDE DEF Contradicts, Ambiguous, InputsVerified, Predecessors
    <3>2. QED BY <2>1, <3>1, CompletePlan
  <2>3. manifest = None => ManifestAfterAcquisition = None
    BY DEF ManifestAfterAcquisition
  <2>4. InputsVerified(plan') /\ receipt' # None /\ manifest = None /\ OneTarget
          => Exact'
    BY <2>1, <2>3, ExactPlan
  <2>5. QED BY <2>1, <2>2, <2>4 DEF PlanTrue
<1>5. CASE Incomplete \/ ReuseBase \/ Report \/ \E n \in 0..MaxBase : Build(n)
  <2>1. phase' \in {"error", "idle"}
    BY <1>5 DEF Incomplete, ReuseBase, Report, Build, Ends
  <2>2. QED BY <2>1 DEF PlanTrue
<1>6. CASE AcquireFails \/ BuildFails \/ DeleteCache \/ \E b \in bases : DeleteBase(b)
  BY <1>6 DEF AcquireFails, BuildFails, DeleteCache, DeleteBase
<1>7. CASE UNCHANGED vars
  BY <1>7 DEF vars, PlanTrue
<1>8. QED BY <1>1, <1>2, <1>3, <1>4, <1>5, <1>6, <1>7 DEF Next

LEMMA PlanTrueInit == Init => PlanTrue
BY DEF Init, PlanTrue

\* An acquisition that succeeded is enough.
THEOREM Suffices == Spec => []AcquisitionSuffices
<1>1. PlanTrue => AcquisitionSuffices
  BY DEF PlanTrue, AcquisitionSuffices
<1>2. QED BY <1>1, PlanTrueInit, TypeCorrect, PlanTrueStep, PTL DEF Spec

-----------------------------------------------------------------------------
(* What a run that ended well leaves behind.                               *)

\* One evidence of the release, and a base that is made of it.
Ready ==
  \E r \in Predecessors :
    /\ r.valid
    /\ \A q \in receipts : q.valid /\ q.release = "mine" => q.hash = r.hash
    /\ \E b \in bases : b.release = "mine" /\ b.recipe = "mine" /\ b.hash = r.hash

Repeats ==
  settled /\ manifest = None /\ OneTarget =>
    /\ Ready
    /\ phase \in {"idle", "planned"}
    /\ phase = "planned" => InputsVerified(plan) /\ receipt # None /\ plan.base # None

LEMMA ReadyPlan ==
  ASSUME TypeOK, OneTarget, Ready
  PROVE  LET p == PlanRelease(None, None)
         IN  InputsVerified(p) /\ FindReceipt(p) # None /\ p.base # None
<1> DEFINE p == PlanRelease(None, None)
<1>1. PICK r \in Predecessors :
        /\ r.valid
        /\ \A q \in receipts : q.valid /\ q.release = "mine" => q.hash = r.hash
        /\ \E b \in bases : b.release = "mine" /\ b.recipe = "mine" /\ b.hash = r.hash
  BY DEF Ready
<1>2. r \in receipts /\ r.release = "mine" /\ r.role = "mine" /\ r.target = Required
        /\ r \in Counting(None)
  BY <1>1 DEF Predecessors, Counting
<1>3. PlannedTarget(None, None) = None /\ PlannedFrom(None, None) = None
  BY DEF PlannedTarget, PlannedFrom, Conflict, ManifestTarget
<1>4. \A q \in Counting(None) : q.hash = r.hash /\ q.target = Required
  BY <1>1 DEF Counting, OneTarget
<1>5. {q.target : q \in Counting(None)} = {Required}
  BY <1>2, <1>4
<1>6. TargetOf(None) = r.target
  BY <1>2, <1>5, OnlyOne DEF TargetOf
<1>7. ASSUME NEW k \in Kinds
      PROVE  p.artifacts[k] = [status |-> "VERIFIED_CACHED", hash |-> r.hash[k]]
  <2>1. {q.hash[k] : q \in Counting(None)} = {r.hash[k]}
    BY <1>2, <1>4
  <2>2. ManifestArtifact(None, k) = Unsaid("absent")
    BY DEF ManifestArtifact
  <2>3. HashOf(k, None, None) = r.hash[k]
    <3>1. ManifestArtifact(None, k).sha256 = None
      BY <2>2 DEF Unsaid
    <3>2. HashOf(k, None, None) = Only({q.hash[k] : q \in Counting(None)})
      BY <3>1 DEF HashOf
    <3>3. QED BY <2>1, <3>2, OnlyOne
  <2>4. PlanArtifact(k, None, None) = [status |-> "VERIFIED_CACHED", hash |-> r.hash[k]]
    BY <1>1, <1>2, <1>6, <2>2, <2>3, CachedByReceipt DEF Unsaid
  <2>5. QED BY <1>3, <2>4, PlanReleaseIs
<1>8. InputsVerified(p) /\ ReceiptMatches(r, p)
  BY <1>1, <1>2, <1>7, VerifiedByReceipt
<1>9. FindReceipt(p) # None /\ FindReceipt(p) \in receipts /\ ReceiptMatches(FindReceipt(p), p)
  BY <1>2, <1>8, FoundReceipt
<1>10. FindReceipt(p).hash = r.hash
  BY <1>1, <1>9 DEF ReceiptMatches
<1>11. ReusableCandidate(FindReceipt(p)) # None
  <2> DEFINE C == {b \in bases : b.release = "mine" /\ b.recipe = "mine" /\ b.hash = r.hash}
  <2>1. C \in SUBSET Bases /\ C # {}
    BY <1>1 DEF TypeOK
  <2>2. ReusableCandidate(FindReceipt(p)) = First(C)
    BY <1>10 DEF ReusableCandidate
  <2> HIDE DEF C
  <2>3. QED BY <2>1, <2>2, FirstFound
<1>12. p.base # None
  BY <1>9, <1>11, SameSearch
<1>13. QED BY <1>8, <1>9, <1>12

\* The end of a run that ended well and undisturbed.
LEMMA EndReady ==
  ASSUME TypeOK, PlanTrue, Next, ReuseBase \/ \E n \in 0..MaxBase : Build(n),
         settled', manifest = None, OneTarget
  PROVE  Ready'
<1>1. ~disturbed /\ receipts' = receipts
  BY DEF ReuseBase, Build, Ends
<1>2. CASE ReuseBase
  <2>1. phase \in {"planned", "replanned"} /\ InputsVerified(plan) /\ receipt # None
          /\ plan.base # None /\ bases' = bases
    BY <1>2 DEF ReuseBase
  <2>2. Exact
    BY <1>1, <2>1 DEF PlanTrue
  <2>3. QED BY <1>1, <2>1, <2>2 DEF Exact, Ready, Predecessors
<1>3. ASSUME NEW n \in 0..MaxBase, Build(n) PROVE Ready'
  <2>1. Exact
    BY <1>1, <1>3 DEF PlanTrue, Build
  <2> DEFINE C == {b \in bases : b.release = "mine" /\ b.recipe = "mine" /\ b.hash = receipt.hash}
  <2>2. C \in SUBSET Bases /\ ReusableCandidate(receipt) = First(C)
    BY DEF TypeOK, ReusableCandidate
  <2>3. ReusableCandidate(receipt) # None => C # {}
    <3> HIDE DEF C
    <3>1. QED BY <2>2, FirstFound
  <2>4. \E b \in bases' : b.release = "mine" /\ b.recipe = "mine" /\ b.hash = receipt.hash
    <3>1. CASE ReusableCandidate(receipt) # None
      BY <1>3, <2>3, <3>1 DEF Build
    <3>2. CASE ReusableCandidate(receipt) = None
      <4>1. [name |-> n, release |-> "mine", recipe |-> "mine", hash |-> receipt.hash] \in bases'
        BY <1>3, <3>2 DEF Build
      <4>2. QED BY <4>1
    <3>3. QED BY <3>1, <3>2
  <2>5. QED BY <1>1, <2>1, <2>4 DEF Exact, Ready, Predecessors
<1>4. QED BY <1>2, <1>3

LEMMA RepeatsStep ==
  ASSUME TypeOK, PlanTrue, Repeats, [Next]_vars
  PROVE  Repeats'
<1> SUFFICES ASSUME settled', manifest' = None, OneTarget'
             PROVE  /\ Ready'
                    /\ phase' \in {"idle", "planned"}
                    /\ phase' = "planned" =>
                         InputsVerified(plan') /\ receipt' # None /\ plan'.base # None
  BY DEF Repeats, InputsVerified
<1>1. manifest = None
  BY DEF Next, Plan, Decide, Acquire, AcquireFails, Replan, Incomplete, ReuseBase, CallBuilder,
     Report, Build, BuildFails, DeleteCache, DeleteBase, vars
<1>2. CASE Plan
  <2>1. /\ UNCHANGED <<receipts, bases, settled>> /\ plan' = PlanRelease(None, None)
        /\ phase' = "planned" /\ receipt' = FindReceipt(plan')
    BY <1>1, <1>2 DEF Plan
  <2>2. OneTarget /\ Ready
    BY <1>1, <2>1 DEF OneTarget, Repeats
  <2>3. Ready'
    BY <2>1, <2>2 DEF Ready, Predecessors
  <2>4. QED BY <2>1, <2>2, <2>3, ReadyPlan
<1>3. CASE Decide \/ CallBuilder
  <2>1. UNCHANGED <<receipts, settled>>
    BY <1>3 DEF Decide, CallBuilder
  <2>2. OneTarget
    BY <2>1 DEF OneTarget
  <2>3. phase = "planned" /\ InputsVerified(plan) /\ receipt # None /\ plan.base # None
    BY <1>1, <1>3, <2>1, <2>2 DEF Repeats, Decide, CallBuilder
  <2>4. QED BY <1>3, <2>3 DEF Decide, CallBuilder
<1>4. CASE Acquire \/ AcquireFails \/ Replan \/ Incomplete \/ BuildFails
  <2>1. settled /\ phase \notin {"idle", "planned"}
    BY <1>4 DEF Acquire, AcquireFails, Replan, Incomplete, BuildFails
  <2>2. OneTarget
    <3>1. \A r \in receipts : r \in receipts' \/ r.target = Required
      BY <1>4 DEF Acquire, AcquireFails, Replan, Incomplete, BuildFails, Predecessors
    <3>2. QED BY <3>1 DEF OneTarget
  <2>3. QED BY <1>1, <2>1, <2>2 DEF Repeats
<1>5. CASE ReuseBase \/ \E n \in 0..MaxBase : Build(n)
  <2>1. receipts' = receipts /\ phase' = "idle" /\ Next
    BY <1>5 DEF ReuseBase, Build, Ends, Next
  <2>2. OneTarget
    BY <2>1 DEF OneTarget
  <2>3. QED BY <1>1, <1>5, <2>1, <2>2, EndReady
<1>6. CASE Report \/ DeleteCache \/ \E b \in bases : DeleteBase(b)
  BY <1>6 DEF Report, Ends, DeleteCache, DeleteBase
<1>7. CASE UNCHANGED vars
  <2>1. OneTarget /\ settled
    BY <1>7 DEF vars, OneTarget
  <2>2. QED BY <1>1, <1>7, <2>1 DEF vars, Repeats, Ready, Predecessors, InputsVerified
<1>8. QED BY <1>2, <1>3, <1>4, <1>5, <1>6, <1>7 DEF Next

\* Ensuring a release again, once it was ensured, is free.
THEOREM FreeRepeats == Spec => []RepeatIsFree
<1>1. Init => Repeats
  BY DEF Init, Repeats
<1>2. Repeats => RepeatIsFree
  BY DEF Repeats, RepeatIsFree
<1>3. QED BY <1>1, <1>2, PlanTrueInit, TypeCorrect, PlanTrueStep, RepeatsStep, PTL DEF Spec

=============================================================================
