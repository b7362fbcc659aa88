--------------------------- MODULE ReleaseProperties ---------------------------
(***************************************************************************)
(* What is claimed of ReleaseEnsure.                                       *)
(***************************************************************************)
EXTENDS ReleaseEnsure

\* A plan calls an input cached only if a valid receipt of this very release
\* proves its content, whatever mixture of receipts of other releases and SDK
\* Manager targets, and of manifests, it is made from; when the target is known
\* the receipt is one of that target (planning/planner.py:264-373).
PlansCachedTruly ==
  [][plan' # plan /\ plan' # None =>
       \A k \in Kinds : plan'.artifacts[k].status = "VERIFIED_CACHED" =>
         \E r \in receipts :
           /\ r.valid /\ r.release = "mine"
           /\ r.hash[k] = plan'.artifacts[k].hash
           /\ phase = "acquired" => r.target = Required]_vars

\* The planner and the construction search for a base each in its own way, and
\* the plan's choice is final.  When the inputs are verified and the receipt is
\* chosen, both searches come to the same base: the command reuses no base that
\* the construction would not, and calls it only to build one
\* (planning/planner.py:376-415, base/construction.py:151-201).
SearchesAgree ==
  [][plan' # plan /\ plan' # None /\ InputsVerified(plan') /\ receipt' # None =>
       plan'.base = ReusableCandidate(receipt')]_vars

Official1(e) == e.name = "same" /\ e.sha256 \in {None, Official} /\ e.size # "wrong"

\* The manifest contradicts what SDK Manager delivers.
Contradicts ==
  /\ manifest # None /\ manifest.known
  /\ \A k \in Kinds : manifest.artifacts[k].is = "said"
  /\ \/ manifest.release # "mine" \/ manifest.target # Required
     \/ \E k \in Kinds : ~Official1(manifest.artifacts[k])

\* Another content of an artifact of the same release and target is cached.
Ambiguous ==
  \E r \in receipts :
    r.valid /\ r.release = "mine" /\ r.target = Required
      /\ \E k \in Kinds : r.hash[k] # Official

\* After a successful acquisition the release is always found to be complete,
\* unless the manifest contradicts it, the cache holds another content under the
\* same name, or it was deleted in between (planning/orchestration.py:250-276).
AcquisitionSuffices ==
  phase = "replanned" /\ (~InputsVerified(plan) \/ receipt = None)
    => disturbed \/ Contradicts \/ Ambiguous

\* SDK Manager knows the release under one target, as far as there is evidence.
OneTarget ==
  \A r \in receipts : r.valid /\ r.release = "mine" => r.target = Required

\* Once a release was ensured, and as long as nothing is deleted, ensuring it
\* again neither calls SDK Manager nor builds (README.md:359;
\* planning/orchestration.py:217-300).
RepeatIsFree ==
  settled /\ manifest = None /\ OneTarget => phase \notin {"acquire", "build"}

=============================================================================
