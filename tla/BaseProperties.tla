---------------------------- MODULE BaseProperties ----------------------------
(***************************************************************************)
(* What is claimed of BaseStore.                                           *)
(***************************************************************************)
EXTENDS BaseStore

-----------------------------------------------------------------------------
(* Safety.                                                                 *)

\* The cleanup tool tells a staging directory in use from one that was left
\* behind although it reads command lines, leases and directories one after
\* the other while builders start and end (cleanup.py:157-194, 213-233).
LiveStagingKept ==
  \A p \in Procs : Building(p) => loc[p].staging \in stagings

\* No rmtree reaches into the host's /dev through a staging directory, unless
\* an umount failed or a builder died there (construction.py:431,
\* cleanup.py:231).
HostDevSpared ==
  \A p \in Procs :
    pc[p] \in {"finally", "clean_staging"} /\ loc[p].staging \in mounts
      => loc[p].staging \in abandoned

DeletedUnderLock(l) ==
  \E p \in Procs : At(p, "deleting") /\ loc[p].lock = l /\ lifecycle = p

\* Half a base, and a seed made from half a base, exist only while the base is
\* deleted under the lifecycle lock, unless a removal went wrong: no failure or
\* kill of a build leaves one, and the cleanup tool, which takes no lock, finds
\* nothing to remove but what such a deletion is removing anyway.
BrokenOnlyByDeletion ==
  \A l \in Locks :
    \/ targets[l] \in {"absent", "whole"} /\ seeds[l] # "torn"
         /\ \A p \in Procs : ~Removing(p, l)
    \/ DeletedUnderLock(l)
    \/ l \in marred

\* A workspace gets a complete tree, although its base is chosen and its seed
\* written without a lock while bases are deleted, cleaned up and rebuilt
\* (cli.py:378-397); only a removal that went wrong before can spoil it.
WorkspaceTreeWhole ==
  \A w \in workspaces : w.tree = "torn" => w.base \in marred

\* The base that a workspace was made from, and will be reset from, stays as
\* long as the workspace (storage.py:282-290), unless a removal of it went wrong:
\* among them one whose ostg was killed, while its privileged child removes on.
WorkspaceBaseKept ==
  \A w \in workspaces : targets[w.base] = "whole" \/ w.base \in marred

-----------------------------------------------------------------------------
(* The inductive invariant.                                                *)

\* Every builder has a staging directory of its own.
StagingsDistinct ==
  \A p \in Procs : Building(p) =>
    /\ loc[p].staging \in Stagings
    /\ \A q \in Procs \ {p} : Building(q) => loc[q].staging # loc[p].staging

\* Once the second inspection has found no builder, the staging directory that
\* it lists is nobody's, and its name is not used again.
InspectionHolds ==
  \A p \in Procs :
    \/ At(p, "clean_again") /\ ~loc[p].active
    \/ At(p, "clean_staging")
    => \A q \in Procs : Building(q) => loc[q].staging # loc[p].staging

\* Mounts are those of a chroot in use, or abandoned.
MountsAccounted ==
  \A s \in mounts :
    \/ s \in abandoned
    \/ \E p \in Procs : pc[p] \in ChrootSteps /\ loc[p].staging = s

\* Which base a process works on is known when it matters.
LockKnown ==
  \A p \in Procs :
    /\ pc[p] \in RemoveSteps \cup CreateSteps \cup {"outside", "clean_target"}
         => loc[p].lock \in Locks
    /\ lifecycle = p => At(p, "deleting")

SeedsInside == \A l \in Locks : targets[l] = "absent" => seeds[l] = None

\* A base that is deleted under the lock has no workspace.
DeletedUnused ==
  \A l \in Locks : DeletedUnderLock(l) => Dependents(l) = {} \/ l \in marred

Inductive ==
  /\ TypeOK
  /\ StagingsDistinct /\ LiveStagingKept /\ InspectionHolds
  /\ MountsAccounted /\ HostDevSpared
  /\ LockKnown /\ SeedsInside /\ BrokenOnlyByDeletion /\ DeletedUnused
  /\ WorkspaceTreeWhole /\ WorkspaceBaseKept

-----------------------------------------------------------------------------
(* The abstract specification.                                             *)

Bases == [l \in Locks |->
           CASE targets[l] = "absent" -> "none"
             [] targets[l] = "whole" -> "whole"
             [] OTHER -> "going"]

Abstract == INSTANCE PublishedBases WITH bases <- Bases

\* README.md:171, 251 call the base immutable: the directory of bases is one
\* from which a base may be read without a lock.
ImplementsPublishedBases == Abstract!Spec

-----------------------------------------------------------------------------
(* Progress.                                                               *)

\* What a build cannot help.  Steps of a process at work that change the same
\* are not meant.
Trouble(p) ==
  \/ /\ Kill(p) \/ KillParent(p) \/ BuildFails(p) \/ BuildFailsMounted(p)
     /\ ~(BuildLeave(p) \/ BuildFinds(p) \/ BuildFinally(p) \/ CleanStaging(p) \/ CleanEnds(p))
  \/ BuildFinally(p) /\ loc[p].staging \notin mounts /\ UNCHANGED stagings
  \/ CleanStaging(p) /\ loc[p].staging \notin mounts /\ UNCHANGED stagings
  \/ \E l \in Locks : RemoveFails(p, l) \/ DeleteLocked(p, l)

Works(p) ==
  \/ BuildLease(p) \/ BuildEnter(p) \/ BuildLeave(p)
  \/ \E l \in Locks, c \in Locks \cup {None} :
       BuildReuse(p, l, c) \/ BuildInstall(p, l, c)
  \/ BuildPublish(p) \/ BuildFinds(p) \/ BuildFinally(p)
  \/ CleanConfirm(p) \/ CleanStaging(p) \/ CleanOpen(p) \/ CleanEnds(p)
  \/ \E l \in Locks : RemoveSome(p, l) \/ RemoveLast(p, l)

\* A run of the cleanup tool raises at a mounted staging directory that it lists,
\* and comes to the directories of bases only when there is none.
Reaches(p) == StaleStagings(loc[p].active) \cap mounts = {}

\* Builds are asked for and the cleanup tool is run again and again, a run of it
\* goes through all entries that it reaches, and one day nothing fails, is killed
\* or deleted any more.  Bound of the instance: sooner or later a name is left
\* for a staging directory (the names of the code are uuids).
RepeatedEnsure ==
  /\ Spec
  /\ SF_vars(\E p \in Procs, s \in Stagings : BuildStage(p, s))
  /\ SF_vars(\E p \in Procs : CleanBegin(p))
  /\ \A l \in Locks : SF_vars(\E p \in Procs : Reaches(p) /\ CleanPick(p, None, l))
  /\ \A p \in Procs : WF_vars(Works(p))
  /\ <>[][\A p \in Procs : ~Trouble(p)]_vars
  /\ []<>(stagings # Stagings)

\* What the cleanup tool does not remove: a directory without lock.json, which
\* is passed over, and half a base while a staging directory is mounted.
HeadlessLeft == \E l \in Locks : targets[l] = "headless"
PartialLeft ==
  mounts \cap abandoned # {} /\ \E l \in Locks : targets[l] = "partial"

\* README.md:359 ff.: ostg target ensure comes to a base again, whatever failed
\* and killed builds, removals and cleanups left behind, as far as the cleanup
\* tool removes it (cleanup.py:171-233).  What comes to be reused is not
\* checked file by file: a removal that went wrong may have taken files of it.
EnsureSucceeds ==
  \/ []<>(\E l \in Locks : Reusable(l))
  \/ <>[]HeadlessLeft
  \/ <>[]PartialLeft

=============================================================================
