----------------------------- MODULE ReleaseEnsure -----------------------------
(***************************************************************************)
(* ostg target ensure: plan a release from local evidence, have its inputs *)
(* acquired when they are not all there, plan again, then reuse a base or  *)
(* have one built.                                                         *)
(*                                                                         *)
(*   planning/artifact_index.py   what the valid receipts prove            *)
(*   planning/planner.py          the plan: pure functions of evidence     *)
(*   planning/orchestration.py    the order of the steps                   *)
(*   base/construction.py         its own search for a base to reuse       *)
(*                                                                         *)
(* The acquisition and the construction have modules of their own          *)
(* (SdkmAcquisition, BaseStore); here each is one step.  No lock is held   *)
(* over the steps, so that caches and bases may be deleted in between.     *)
(***************************************************************************)
EXTENDS Naturals

CONSTANTS
  Kinds,     \* CONSTRUCTION_ARTIFACT_KINDS: bsp, sample_rootfs
  Hashes,    \* whole-file SHA-256 identities
  Official,  \* the content of every artifact that the catalog names
  Targets,   \* names that SDK Manager gives to targets
  Required,  \* the one that the catalog requires for this release
  MaxBase,   \* bound: the bases ever published
  Enabled,   \* the kinds of disturbance of this instance
  None       \* "not there"

ASSUME OfficialKnown == Official \in Hashes /\ Required \in Targets
ASSUME BasesAreNumbered == MaxBase \in Nat

VARIABLES
  receipts,   \* sdkm/receipts, with whether the files are still as recorded
  bases,      \* targets/: reusable bases, ordered by the name of the directory
  manifest,   \* the normalized SDK Manager manifest that was passed, if any
  phase,      \* control point of ensure_jp6_release
  plan,       \* the ReleasePlan it has made last
  receipt,    \* the receipt it has chosen
  disturbed,  \* history: something was deleted, or failed, in this run
  settled     \* history: a run ended well, and nothing was deleted since

run == <<phase, plan, receipt>>
vars == <<receipts, bases, manifest, phase, plan, receipt, disturbed, settled>>

-----------------------------------------------------------------------------
(* Types.                                                                  *)

\* "mine" is the release that is ensured, and the component role it needs.
Owners == {"mine", "other"}

Receipts == [release : Owners, role : Owners, target : Targets,
             hash : [Kinds -> Hashes], valid : BOOLEAN]

Bases == [name : 1..MaxBase, release : Owners, recipe : Owners,
          hash : [Kinds -> Hashes]]

\* What a manifest says of one kind: nothing, something that is not understood,
\* or a name and perhaps an identity and a size.
Evidence == [is : {"absent", "unknown", "said"}, name : {"same", "other"},
             sha256 : Hashes \cup {None}, size : {"right", "wrong", "none"}]

Unsaid(is) == [is |-> is, name |-> "same", sha256 |-> None, size |-> "none"]

Manifests ==
  [known : BOOLEAN, release : Owners, target : Targets, artifacts : [Kinds -> Evidence]]

ASSUME AbsenceIsNew ==
  None \notin Hashes \cup Targets \cup Receipts \cup Bases \cup Manifests

Statuses == {"VERIFIED_CACHED", "DOWNLOAD_REQUIRED", "SDKM_DECISION"}

Artifacts == [status : Statuses, hash : Hashes \cup {None}]
Plans == [artifacts : [Kinds -> Artifacts], base : Bases \cup {None}]

Phases == {"idle", "planned", "acquire", "acquired", "replanned", "build", "error"}

TypeOK ==
  /\ receipts \subseteq Receipts
  /\ bases \subseteq Bases
  /\ manifest \in Manifests \cup {None}
  /\ phase \in Phases
  /\ plan \in Plans \cup {None}
  /\ receipt \in Receipts \cup {None}
  /\ disturbed \in BOOLEAN /\ settled \in BOOLEAN

-----------------------------------------------------------------------------
(* artifact_index.py.                                                      *)

\* build_artifact_index: what the receipts prove whose files are still there.
\* The names of files are those of the kinds; receipts of this release name the
\* same ones.
Index ==
  {[release |-> r.release, target |-> r.target, kind |-> k, hash |-> r.hash[k]] :
     r \in {x \in receipts : x.valid}, k \in Kinds}

\* Mutant: an identity is cached under whatever release and target it came.
ArtifactStatusContent(k, target, hash, size) ==
  IF size # "wrong" /\ \E e \in Index : e.kind = k /\ e.hash = hash
  THEN "VERIFIED_CACHED" ELSE "DOWNLOAD_REQUIRED"

\* artifact_status.  Every content has one size.
ArtifactStatus(k, target, hash, size) ==
  IF size # "wrong" /\ [release |-> "mine", target |-> target, kind |-> k, hash |-> hash] \in Index
  THEN "VERIFIED_CACHED" ELSE "DOWNLOAD_REQUIRED"

-----------------------------------------------------------------------------
(* planner.py.                                                             *)

\* _index_candidates.
IndexCandidates(k, target) ==
  {e \in Index : e.release = "mine" /\ e.kind = k /\ target \in {None, e.target}}

\* The one element of a set, if it has one.
Only(S) == IF \E x \in S : S = {x} THEN CHOOSE x \in S : TRUE ELSE None

\* Mutant: a target is taken from the evidence that was passed only.
EffectiveTargetPassed(target, candidates) == target

EffectiveTarget(target, candidates) ==
  IF target # None THEN target ELSE Only({e.target : e \in candidates})

\* What the manifest says of a kind; a manifest that is not understood, or one
\* of another release, leaves every kind to SDK Manager.
ManifestArtifact(m, k) ==
  CASE m = None -> Unsaid("absent")
    [] m # None /\ (~m.known \/ m.release # "mine" \/ m.artifacts[k].name = "other") ->
         Unsaid("unknown")
    [] OTHER -> m.artifacts[k]

\* _plan_artifact.
PlanArtifact(k, target, m) ==
  LET said == ManifestArtifact(m, k)
      candidates == IndexCandidates(k, target)
      hash == IF said.sha256 # None THEN said.sha256
              ELSE Only({e.hash : e \in candidates})
      effective == EffectiveTarget(target, candidates)
  IN  CASE said.is = "unknown" -> [status |-> "SDKM_DECISION", hash |-> None]
        [] said.is # "unknown" /\ (hash = None \/ effective = None) ->
             [status |-> "SDKM_DECISION", hash |-> hash]
        [] OTHER -> [status |-> ArtifactStatus(k, effective, hash, said.size), hash |-> hash]

\* The first of them in the order of their names.
First(S) == IF S = {} THEN None
            ELSE CHOOSE b \in S : \A c \in S : b.name <= c.name

\* Mutant: the inputs of a base are not looked at.
FindReusableBaseAny(artifacts) ==
  First({b \in bases : b.release = "mine" /\ b.recipe = "mine"})

\* _find_reusable_base: an input whose identity is not known is not compared.
FindReusableBase(artifacts) ==
  First({b \in bases :
           /\ b.release = "mine" /\ b.recipe = "mine"
           /\ \A k \in Kinds : artifacts[k].hash \in {None, b.hash[k]}})

NotUnderstood == [known |-> FALSE, release |-> "other", target |-> Required,
                  artifacts |-> [k \in Kinds |-> Unsaid("absent")]]

\* plan_release.  What was discovered and what the manifest says must agree.
PlanRelease(discovered, m) ==
  LET manifestTarget == IF m # None /\ m.known /\ m.release = "mine" THEN m.target ELSE None
      conflict == discovered # None /\ manifestTarget \notin {None, discovered}
      target == IF conflict THEN None
                ELSE IF discovered # None THEN discovered ELSE manifestTarget
      used == IF conflict THEN NotUnderstood ELSE m
      artifacts == [k \in Kinds |-> PlanArtifact(k, target, used)]
  IN  [artifacts |-> artifacts, base |-> FindReusableBase(artifacts)]

-----------------------------------------------------------------------------
(* orchestration.py.                                                       *)

\* _plan_inputs_are_verified.
InputsVerified(p) == \A k \in Kinds : p.artifacts[k].status = "VERIFIED_CACHED"

\* _receipt_matches_plan.
ReceiptMatches(r, p) ==
  /\ r.valid
  /\ r.release = "mine" /\ r.role = "mine" /\ r.target = Required
  /\ \A k \in Kinds : p.artifacts[k].hash = r.hash[k]

\* _find_verified_acquisition_receipt: all that match have the same content.
FindReceipt(p) ==
  LET found == {r \in receipts : ReceiptMatches(r, p)}
  IN  IF found = {} THEN None ELSE CHOOSE r \in found : TRUE

\* Mutant: the manifest is passed on as it is.
ManifestAfterAcquisitionAll == manifest

\* _manifest_after_acquisition: what is not understood in full is dropped.
ManifestAfterAcquisition ==
  IF /\ manifest # None
     /\ manifest.known
     /\ \A k \in Kinds : manifest.artifacts[k].is = "said"
  THEN manifest ELSE None

\* Evidence of other runs, other releases and older catalogs.
Init ==
  /\ receipts \in SUBSET Receipts
  /\ bases \in SUBSET Bases
  /\ manifest \in Manifests \cup {None}
  /\ phase = "idle"
  /\ plan = None
  /\ receipt = None
  /\ disturbed = FALSE
  /\ settled = FALSE

Plan ==
  /\ phase = "idle"
  /\ plan' = PlanRelease(None, manifest)
  /\ receipt' = FindReceipt(plan')
  /\ phase' = "planned"
  /\ disturbed' = FALSE
  /\ UNCHANGED <<receipts, bases, manifest, settled>>

Decide ==
  /\ phase = "planned"
  /\ ~InputsVerified(plan) \/ receipt = None
  /\ phase' = "acquire"
  /\ UNCHANGED <<receipts, bases, manifest, plan, receipt, disturbed, settled>>

\* The receipts of acquisitions like this one, with whatever version of SDK
\* Manager: one of them may have the digest of this one.
Predecessors ==
  {r \in receipts : r.release = "mine" /\ r.role = "mine" /\ r.target = Required}

\* ensure_sdk_manager_acquisition: a cache hit, or the official artifacts and
\* their receipt, in the place of the one of the same digest.
Acquire ==
  /\ phase = "acquire"
  /\ \/ (\E r \in Predecessors : r.valid) /\ UNCHANGED receipts
     \/ \E same \in {{}} \cup {{r} : r \in Predecessors} :
          receipts' = (receipts \ same)
            \cup {[release |-> "mine", role |-> "mine", target |-> Required,
                   hash |-> [k \in Kinds |-> Official], valid |-> TRUE]}
  /\ phase' = "acquired"
  /\ UNCHANGED <<bases, manifest, plan, receipt, disturbed, settled>>

AcquireFails ==
  /\ "fault" \in Enabled
  /\ phase = "acquire"
  /\ phase' = "error"
  /\ disturbed' = TRUE
  /\ UNCHANGED <<receipts, bases, manifest, plan, receipt, settled>>

Replan ==
  /\ phase = "acquired"
  /\ plan' = PlanRelease(Required, ManifestAfterAcquisition)
  /\ receipt' = FindReceipt(plan')
  /\ phase' = "replanned"
  /\ UNCHANGED <<receipts, bases, manifest, disturbed, settled>>

\* "SDK Manager acquisition completed without a fully verified exact set"
Incomplete ==
  /\ phase = "replanned"
  /\ ~InputsVerified(plan) \/ receipt = None
  /\ phase' = "error"
  /\ UNCHANGED <<receipts, bases, manifest, plan, receipt, disturbed, settled>>

Ends(good) ==
  /\ phase' = "idle"
  /\ plan' = None /\ receipt' = None
  /\ settled' = (good /\ ~disturbed)

\* The base is reused on the word of the plan.
ReuseBase ==
  /\ phase \in {"planned", "replanned"}
  /\ InputsVerified(plan) /\ receipt # None
  /\ plan.base # None
  /\ Ends(TRUE)
  /\ UNCHANGED <<receipts, bases, manifest, disturbed>>

CallBuilder ==
  /\ phase \in {"planned", "replanned"}
  /\ InputsVerified(plan) /\ receipt # None
  /\ plan.base = None
  /\ phase' = "build"
  /\ UNCHANGED <<receipts, bases, manifest, plan, receipt, disturbed, settled>>

\* The error is reported, and the command is given again.
Report ==
  /\ phase = "error"
  /\ Ends(FALSE)
  /\ UNCHANGED <<receipts, bases, manifest, disturbed>>

-----------------------------------------------------------------------------
(* base/construction.py: ensure_jp6_base, as one step.                     *)

\* _find_reusable_candidate.
ReusableCandidate(r) ==
  First({b \in bases :
           b.release = "mine" /\ b.recipe = "mine" /\ b.hash = r.hash})

\* The receipt and the artifacts are checked again; a base is reused after all,
\* or published under the digest of its lock.
Build(n) ==
  /\ phase = "build"
  /\ receipt \in receipts
  /\ IF ReusableCandidate(receipt) # None
       THEN n = 0 /\ UNCHANGED bases
       ELSE /\ n \in 1..MaxBase /\ \A b \in bases : b.name # n
            /\ bases' = bases \cup {[name |-> n, release |-> "mine", recipe |-> "mine",
                                     hash |-> receipt.hash]}
  /\ Ends(TRUE)
  /\ UNCHANGED <<receipts, manifest, disturbed>>

BuildFails ==
  /\ phase = "build"
  /\ receipt \notin receipts \/ "fault" \in Enabled
  /\ phase' = "error"
  /\ disturbed' = TRUE
  /\ UNCHANGED <<receipts, bases, manifest, plan, receipt, settled>>

-----------------------------------------------------------------------------
(* Other commands.                                                         *)

\* ostg storage delete-cache: no receipt's files are there any more.
DeleteCache ==
  /\ "delete" \in Enabled
  /\ \E r \in receipts : r.valid
  /\ receipts' = {[r EXCEPT !.valid = FALSE] : r \in receipts}
  /\ disturbed' = TRUE /\ settled' = FALSE
  /\ UNCHANGED <<bases, manifest, run>>

\* ostg storage delete-base.
DeleteBase(b) ==
  /\ "delete" \in Enabled
  /\ b \in bases
  /\ bases' = bases \ {b}
  /\ disturbed' = TRUE /\ settled' = FALSE
  /\ UNCHANGED <<receipts, manifest, run>>

Next ==
  \/ Plan \/ Decide \/ Acquire \/ AcquireFails \/ Replan \/ Incomplete
  \/ ReuseBase \/ CallBuilder \/ Report
  \/ \E n \in 0..MaxBase : Build(n)
  \/ BuildFails
  \/ DeleteCache \/ \E b \in bases : DeleteBase(b)

Spec == Init /\ [][Next]_vars

=============================================================================
