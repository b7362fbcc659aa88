---------------------------- MODULE SdkmProperties ----------------------------
(***************************************************************************)
(* What is claimed of SdkmAcquisition.                                     *)
(***************************************************************************)
EXTENDS SdkmAcquisition

-----------------------------------------------------------------------------
(* Safety.                                                                 *)

\* Between verification and the end of publication nobody touches the bytes a
\* receipt will name: neither another download, nor an adoption, nor a
\* deletion of the download cache (sdk_manager_acquisition.py:205-223).
VerifiedStaysTrue ==
  \A p \in Procs :
    /\ pc[p] \in PublishSteps =>
         \A k \in Kinds : files[<<Target(p), loc[p].found[k], k>>] = "good"
    /\ At(p, "publish_tidy") => Hit(loc[p].digest)

\* _remove_abandoned_publish_dirs goes by name and cannot tell a directory in
\* use from one left by a dead process: it never takes the former.
LiveReceiptStagingKept ==
  \A p \in Procs :
    pc[p] \in DownloadSteps \cup AdoptSteps \cup PublishSteps
      => OwnStaging(p) \in stagings

\* However often acquisitions are killed, at most one receipt staging directory
\* per acquisition is left on disk.
StagingBounded ==
  \A s1, s2 \in stagings : s1.digest = s2.digest => s1 = s2

-----------------------------------------------------------------------------
(* The inductive invariant.                                                *)

\* The lock is held exactly during the steps that need it.
LockOwned == \A p \in Procs : pc[p] \in LockedSteps <=> holder = p

\* Every command but a deletion knows which acquisition it works on, and one
\* that publishes knows where it verified the artifacts.
AcquisitionKnown ==
  \A p \in Procs :
    /\ pc[p] \in {"idle", "delete_wait", "delete"} \/ loc[p].digest \in Digests
    /\ pc[p] \in PublishSteps \cup {"publish_tidy"} => loc[p].found \in Located

\* SDK Manager runs only while its process waits for it.
DownloadersOwned ==
  \A w \in downloaders :
    /\ w.owner \in Procs
    /\ At(w.owner, "download") /\ w.target = Target(w.owner)

\* What an adoption published is not disturbed before its receipt is.
AdoptedUndisturbed ==
  \A p \in Procs :
    At(p, "adopt_tidy") => \A k \in Kinds : files[<<Target(p), "adopted", k>>] = "good"

\* The part about the artifacts' bytes needs an SDK Manager that dies with the
\* process that started it.
Inductive ==
  /\ TypeOK
  /\ LockOwned
  /\ AcquisitionKnown
  /\ LiveReceiptStagingKept
  /\ StagingBounded
  /\ "orphan" \notin Enabled =>
       DownloadersOwned /\ AdoptedUndisturbed /\ VerifiedStaysTrue

-----------------------------------------------------------------------------
(* Progress.                                                               *)

Downloaded(p) == \A k \in Kinds : files[<<Target(p), "root", k>>] = "good"

\* What an acquisition cannot help.  Steps of a process at work that change the
\* same are not meant.
Trouble(p) ==
  /\ \/ Crash(p) \/ DownloadFails(p) \/ AdoptFails(p) \/ PublishFails(p)
     \/ DownloadEnds(p) /\ ~Downloaded(p)
     \/ ReferenceFails(p)
  /\ ~(CheckHit(p) \/ LockedHit(p) \/ VerifyFails(p) \/ PublishTidy(p)
         \/ AdoptTidy(p) \/ DeleteEnds(p))

Works(p) ==
  \/ CheckHit(p) \/ CheckMiss(p) \/ Verify(p) \/ VerifyFails(p)
  \/ AdoptCopied(p) \/ AdoptAside(p) \/ AdoptSwap(p) \/ AdoptTidy(p)
  \/ PublishAside(p) \/ PublishSwap(p) \/ PublishTidy(p)
  \/ DeleteEnds(p) \/ \E f \in DOMAIN files : DeleteFile(p, f)

\* Every acquisition is asked for again and again while it is needed, a free
\* lock is granted, a download comes to its end, and one day nothing fails or is
\* killed any more and the SDK Managers that outlived their process end.
RepeatedEnsure ==
  /\ Spec
  /\ \A p \in Procs :
       /\ \A d \in Digests : SF_vars(EnsureRequest(p, d))
       /\ SF_vars(EnsureLocked(p) \/ AdoptLocked(p) \/ LockedHit(p) \/ DeleteLocked(p))
       /\ SF_vars(DownloadEnds(p) /\ Downloaded(p))
       /\ WF_vars(Works(p))
  /\ \A t \in Targets, k \in Kinds :
       WF_vars(SdkManagerWrites(t, k) /\ files'[<<t, "root", k>>] = "good")
  /\ WF_vars(\E w \in downloaders : OrphanExits(w))
  /\ <>[][\A p \in Procs : ~Trouble(p)]_vars

\* README.md:359: ostg target ensure acquires the inputs of a target when they
\* are needed, whatever earlier acquisitions, deletions, failures and kills left
\* behind.  A valid receipt of any SDK Manager will do
\* (planning/orchestration.py:211-246).
EnsureSucceeds == \A t \in Targets : []<>Acquired(t)

=============================================================================
