------------------------------ MODULE BaseStore ------------------------------
(***************************************************************************)
(* The published bases of one target below <data root>/targets, and the    *)
(* staging directories in which they are built.                            *)
(*                                                                         *)
(*   base/construction.py             build one, or reuse one              *)
(*   base/chroot.py                   host directories mounted into the    *)
(*                                    staging directory meanwhile          *)
(*   base/cleanup.py                  remove what failed builds left       *)
(*   storage.py, privileged_storage_delete.py   delete a base              *)
(*   cli.py, materialization_seed.py  choose a base for a new workspace    *)
(*                                                                         *)
(* A base lies in a directory named after the digest of its target lock.   *)
(* Only deletion and workspace creation take the lifecycle lock; builders, *)
(* the cleanup tool and the choice of a base take none, and rely on names, *)
(* leases, repeated inspection and one atomic rename.                      *)
(***************************************************************************)
EXTENDS FiniteSets

CONSTANTS
  Procs,     \* processes that can be running at the same time
  Packages,  \* package sets that the archives may resolve to
  Evidence,  \* what else a target lock records: QEMU, receipt, versions
  Stagings,  \* bound: the staging directories that exist at a time
  Enabled,   \* the commands, and the kinds of failure, of this instance
  None       \* "not there"

Locks == [packages : Packages, evidence : Evidence]

ASSUME AbsenceIsNew ==
  None \notin Procs \cup Stagings \cup Locks /\ None \notin {"whole", "torn"}

VARIABLES
  targets,     \* targets/<digest>: condition of the directory
  seeds,       \* targets/<digest>/materialization: what tree it archives
  stagings,    \* staging/.base-jp6-<uuid>
  mounts,      \* the staging directories with the host's /dev below them
  lifecycle,   \* holder of the workspace lifecycle lock
  workspaces,  \* the base each workspace names, and the tree it was given
  abandoned,   \* history: stagings whose mounts nobody is left to undo
  marred,      \* history: bases whose removal went wrong
  pc, loc      \* control point and local variables of each process

store == <<targets, seeds>>
staging == <<stagings, mounts>>
history == <<abandoned, marred>>
vars == <<targets, seeds, stagings, mounts, lifecycle, workspaces, abandoned,
          marred, pc, loc>>

-----------------------------------------------------------------------------
(* Types.                                                                  *)

\* "whole"     lock, manifest, receipt and the complete tree
\* "torn"      the same, but files of the tree are missing
\* "partial"   lock.json is there, the rest is not enough to be reused
\* "headless"  a directory without lock.json
Conditions == {"absent", "whole", "torn", "partial", "headless"}

Trees == {"whole", "torn"}

Local == [lock : Locks \cup {None}, staging : Stagings \cup {None},
          active : BOOLEAN]

NoLocal == [lock |-> None, staging |-> None, active |-> FALSE]

\* Steps of privileged_base, from its staging directory to its removal.
BuildSteps == {"staged", "leased", "inside", "leaving", "outside", "finally"}
ChrootSteps == {"inside", "leaving"}
CreateSteps == {"seed", "publish"}
CleanSteps == {"clean_look", "clean_again", "clean_staging", "clean_target"}

\* Steps during which a directory below targets/ is being removed.
RemoveSteps == {"deleting", "cleaning"}

Steps == BuildSteps \cup CreateSteps \cup CleanSteps \cup RemoveSteps \cup {"idle"}

TypeOK ==
  /\ targets \in [Locks -> Conditions]
  /\ seeds \in [Locks -> Trees \cup {None}]
  /\ stagings \subseteq Stagings
  /\ mounts \subseteq Stagings
  /\ lifecycle \in Procs \cup {None}
  /\ workspaces \subseteq [base : Locks, tree : Trees]
  /\ abandoned \subseteq Stagings
  /\ marred \subseteq Locks
  /\ pc \in [Procs -> Steps]
  /\ loc \in [Procs -> Local]

Init ==
  /\ targets = [l \in Locks |-> "absent"]
  /\ seeds = [l \in Locks |-> None]
  /\ stagings = {}
  /\ mounts = {}
  /\ lifecycle = None
  /\ workspaces = {}
  /\ abandoned = {}
  /\ marred = {}
  /\ pc = [p \in Procs |-> "idle"]
  /\ loc = [p \in Procs |-> NoLocal]

-----------------------------------------------------------------------------
(* What the operations share.                                              *)

At(p, step) == pc[p] = step
Goto(p, step) == pc' = [pc EXCEPT ![p] = step]
Keep(p, r) == loc' = [loc EXCEPT ![p] = r]
Return(p) == Goto(p, "idle") /\ Keep(p, NoLocal)

\* base_directory_is_reusable reads the metadata and never the tree.
Reusable(l) == targets[l] \in {"whole", "torn"}

\* build_base_digest: the projection of the lock leaves the evidence out.
BaseDigest(l) == l.packages

\* Any reusable directory may come first: they are sorted by digest.
FirstCandidate(c) ==
  IF \E l \in Locks : Reusable(l) THEN c \in Locks /\ Reusable(c) ELSE c = None

Lock(p) == lifecycle = None /\ lifecycle' = p
Unlock(p) == lifecycle' = IF lifecycle = p THEN None ELSE lifecycle

Building(p) == pc[p] \in BuildSteps
Removing(p, l) == pc[p] \in RemoveSteps /\ loc[p].lock = l

\* Mutant: the processes that build for the data root are not looked for.
ActiveBuilderIgnored == FALSE

\* _has_active_builder_for_data_root: the command line of every process.
ActiveBuilder == \E p \in Procs : Building(p)

\* _has_active_lease: the lease names a process that still exists.  It is
\* there from write_construction_lease until the directory is removed.
LiveLease(s) ==
  \E p \in Procs : loc[p].staging = s /\ pc[p] \in BuildSteps \ {"staged"}

-----------------------------------------------------------------------------
(* ostg target ensure, the privileged part: ensure_jp6_base.  A process    *)
(* that finds a reusable base at once only reports it.                     *)

\* The name of the staging directory is new: no process has heard of it.
BuildStage(p, s) ==
  /\ "ensure" \in Enabled
  /\ At(p, "idle")
  /\ \A l \in Locks : ~Reusable(l)
  /\ s \in Stagings \ stagings
  /\ \A q \in Procs : loc[q].staging # s
  /\ stagings' = stagings \cup {s}
  /\ Goto(p, "staged")
  /\ Keep(p, [NoLocal EXCEPT !.staging = s])
  /\ UNCHANGED <<targets, seeds, mounts, lifecycle, workspaces, history>>

BuildLease(p) ==
  /\ At(p, "staged")
  /\ Goto(p, "leased")
  /\ UNCHANGED <<store, staging, lifecycle, workspaces, history, loc>>

\* The archives are unpacked, then Arm64ConstructionChroot mounts /dev.
BuildEnter(p) ==
  /\ At(p, "leased")
  /\ mounts' = mounts \cup {loc[p].staging}
  /\ Goto(p, "inside")
  /\ UNCHANGED <<store, stagings, lifecycle, workspaces, history, loc>>

\* Inside, the package set gets known, and with it the lock.  Only now can an
\* equal base be looked for, and only the first candidate is compared.
BuildReuse(p, l, c) ==
  /\ At(p, "inside")
  /\ FirstCandidate(c) /\ c # None
  /\ BaseDigest(c) = BaseDigest(l)
  /\ Goto(p, "leaving")
  /\ UNCHANGED <<store, staging, lifecycle, workspaces, history, loc>>

BuildInstall(p, l, c) ==
  /\ At(p, "inside")
  /\ FirstCandidate(c)
  /\ c # None => BaseDigest(c) # BaseDigest(l)
  /\ Goto(p, "leaving")
  /\ Keep(p, [loc[p] EXCEPT !.lock = l])
  /\ UNCHANGED <<store, staging, lifecycle, workspaces, history>>

\* Mutant: the mounts are left to the removal of the staging directory.
BuildLeaveMounted(p) ==
  /\ At(p, "leaving")
  /\ Goto(p, IF loc[p].lock = None THEN "finally" ELSE "outside")
  /\ UNCHANGED <<store, staging, lifecycle, workspaces, history, loc>>

BuildLeave(p) ==
  /\ At(p, "leaving")
  /\ mounts' = mounts \ {loc[p].staging}
  /\ Goto(p, IF loc[p].lock = None THEN "finally" ELSE "outside")
  /\ UNCHANGED <<store, stagings, lifecycle, workspaces, history, loc>>

\* A step fails; inside, the chroot is left on the way out.
BuildFails(p) ==
  /\ "fault" \in Enabled
  /\ pc[p] \in BuildSteps \ {"finally"}
  /\ mounts' = mounts \ {loc[p].staging}
  /\ Goto(p, "finally")
  /\ UNCHANGED <<store, stagings, lifecycle, workspaces, history, loc>>

\* An umount fails, or SIGINT arrives between the mounts, when __enter__ has
\* only "except Exception" to undo them: the rest goes on as above.
BuildFailsMounted(p) ==
  /\ "busy" \in Enabled
  /\ pc[p] \in ChrootSteps
  /\ abandoned' = abandoned \cup {loc[p].staging}
  /\ Goto(p, "finally")
  /\ UNCHANGED <<store, staging, lifecycle, workspaces, marred, loc>>

\* Mutant: the tree is moved before the metadata, into the final directory.
PublishInPlace(p) ==
  /\ At(p, "outside")
  /\ targets[loc[p].lock] = "absent"
  /\ \E c \in {"partial", "whole"} : targets' = [targets EXCEPT ![loc[p].lock] = c]
  /\ Goto(p, "finally")
  /\ UNCHANGED <<seeds, staging, lifecycle, workspaces, history, loc>>

\* Mutant: a directory in the way is replaced.
BuildPublishOver(p) ==
  /\ At(p, "outside")
  /\ targets' = [targets EXCEPT ![loc[p].lock] = "whole"]
  /\ Goto(p, "finally")
  /\ UNCHANGED <<seeds, staging, lifecycle, workspaces, history, loc>>

\* The final directory is not there, and one rename publishes.
BuildPublish(p) ==
  /\ At(p, "outside")
  /\ targets[loc[p].lock] = "absent"
  /\ targets' = [targets EXCEPT ![loc[p].lock] = "whole"]
  /\ Goto(p, "finally")
  /\ UNCHANGED <<seeds, staging, lifecycle, workspaces, history, loc>>

\* It is there: reported when reusable, refused when not.  A directory that
\* appears after the check makes the rename fail, with the same outcome.
BuildFinds(p) ==
  /\ At(p, "outside")
  /\ targets[loc[p].lock] # "absent"
  /\ Goto(p, "finally")
  /\ UNCHANGED <<store, staging, lifecycle, workspaces, history, loc>>

\* rmtree(ignore_errors=True): a staging directory with mounts below stays.
BuildFinally(p) ==
  /\ At(p, "finally")
  /\ \/ /\ loc[p].staging \notin mounts
        /\ stagings' = stagings \ {loc[p].staging}
     \/ /\ loc[p].staging \in mounts \/ "fault" \in Enabled
        /\ UNCHANGED stagings
  /\ Return(p)
  /\ UNCHANGED <<store, mounts, lifecycle, workspaces, history>>

-----------------------------------------------------------------------------
(* The cleanup tool: remove_jp6_base_attempts.                             *)

\* The directories that one inspection would list.
StaleStagings(active) == {s \in stagings : ~active /\ ~LiveLease(s)}

\* Mutant: only staging directories are listed.
StaleTargetsNone == {}

\* A directory whose lock cannot be read belongs to no known target and is
\* passed over.
StaleTargets == {l \in Locks : targets[l] = "partial"}

\* The command lines are read first, the directories later.
CleanBegin(p) ==
  /\ "cleanup" \in Enabled
  /\ At(p, "idle")
  /\ Goto(p, "clean_look")
  /\ Keep(p, [NoLocal EXCEPT !.active = ActiveBuilder])
  /\ UNCHANGED <<store, staging, lifecycle, workspaces, history>>

\* For each entry of the list, the second inspection reads them again.
CleanPick(p, s, l) ==
  /\ At(p, "clean_look")
  /\ \/ s \in StaleStagings(loc[p].active) /\ l = None
     \/ s = None /\ l \in StaleTargets
  /\ Goto(p, "clean_again")
  /\ Keep(p, [lock |-> l, staging |-> s, active |-> ActiveBuilder])
  /\ UNCHANGED <<store, staging, lifecycle, workspaces, history>>

\* Mutant: the entries are removed as the first inspection listed them.
CleanConfirmUnchecked(p) ==
  /\ At(p, "clean_again")
  /\ Goto(p, IF loc[p].lock = None THEN "clean_staging" ELSE "clean_target")
  /\ UNCHANGED <<store, staging, lifecycle, workspaces, history, loc>>

CleanConfirm(p) ==
  /\ At(p, "clean_again")
  /\ \/ loc[p].staging \in StaleStagings(loc[p].active) /\ Goto(p, "clean_staging")
     \/ loc[p].lock \in StaleTargets /\ Goto(p, "clean_target")
  /\ UNCHANGED <<store, staging, lifecycle, workspaces, history, loc>>

\* rmtree raises at the mount points that remain.
CleanStaging(p) ==
  /\ At(p, "clean_staging")
  /\ \/ loc[p].staging \notin mounts /\ stagings' = stagings \ {loc[p].staging}
     \/ /\ loc[p].staging \in mounts \/ "fault" \in Enabled
        /\ UNCHANGED stagings
  /\ Return(p)
  /\ UNCHANGED <<store, mounts, lifecycle, workspaces, history>>

\* rmtree opens whatever now has the name: maybe a base published since.
CleanOpen(p) ==
  /\ At(p, "clean_target")
  /\ targets[loc[p].lock] # "absent"
  /\ marred' = IF Reusable(loc[p].lock) THEN marred \cup {loc[p].lock} ELSE marred
  /\ Goto(p, "cleaning")
  /\ UNCHANGED <<store, staging, lifecycle, workspaces, abandoned, loc>>

\* Nothing is listed, the entry is not listed again, or it is gone.
CleanEnds(p) ==
  /\ \/ At(p, "clean_look")
     \/ /\ At(p, "clean_again")
        /\ loc[p].staging \notin StaleStagings(loc[p].active)
        /\ loc[p].lock \notin StaleTargets
     \/ At(p, "clean_target") /\ targets[loc[p].lock] = "absent"
  /\ Return(p)
  /\ UNCHANGED <<store, staging, lifecycle, workspaces, history>>

-----------------------------------------------------------------------------
(* ostg storage delete-base, with the root child that removes the tree.    *)

Dependents(l) == {w \in workspaces : w.base = l}

\* Mutant: the dependent workspaces are looked for only before the lock.
DeleteLockedUnchecked(p, l) ==
  /\ "delete" \in Enabled
  /\ At(p, "idle")
  /\ Lock(p)
  /\ targets[l] # "absent"
  /\ Goto(p, "deleting")
  /\ Keep(p, [NoLocal EXCEPT !.lock = l])
  /\ UNCHANGED <<store, staging, workspaces, history>>

DeleteLocked(p, l) ==
  /\ "delete" \in Enabled
  /\ At(p, "idle")
  /\ Lock(p)
  /\ targets[l] # "absent"
  /\ Dependents(l) = {}
  /\ Goto(p, "deleting")
  /\ Keep(p, [NoLocal EXCEPT !.lock = l])
  /\ UNCHANGED <<store, staging, workspaces, history>>

\* What rmtree may leave of a directory by removing some more of it, in the
\* order in which the file system lists the entries.
Less(c) ==
  CASE c = "whole" -> {"torn", "partial", "headless"}
    [] c = "torn" -> {"partial", "headless"}
    [] c = "partial" -> {"headless"}
    [] OTHER -> {}

RemoveSome(p, l) ==
  /\ Removing(p, l)
  /\ \E c \in Less(targets[l]) : targets' = [targets EXCEPT ![l] = c]
  /\ \E s \in {seeds[l], None} : seeds' = [seeds EXCEPT ![l] = s]
  /\ UNCHANGED <<staging, lifecycle, workspaces, history, pc, loc>>

\* The last entry goes.  Another process that removes the same directory
\* then fails, since the entries it lists are not there.
RemoveLast(p, l) ==
  /\ Removing(p, l)
  /\ targets' = [targets EXCEPT ![l] = "absent"]
  /\ seeds' = [seeds EXCEPT ![l] = None]
  /\ pc' = [q \in Procs |-> IF Removing(q, l) THEN "idle" ELSE pc[q]]
  /\ loc' = [q \in Procs |-> IF Removing(q, l) THEN NoLocal ELSE loc[q]]
  /\ lifecycle' = IF \E q \in Procs : lifecycle = q /\ Removing(q, l)
                    THEN None ELSE lifecycle
  /\ UNCHANGED <<staging, workspaces, history>>

\* An entry cannot be removed, or one appears: a seed is being written there,
\* or entries vanish because another process removes them too.
RemoveFails(p, l) ==
  /\ Removing(p, l)
  /\ \/ "fault" \in Enabled
     \/ \E q \in Procs \ {p} : loc[q].lock = l /\ pc[q] \in RemoveSteps \cup {"seed"}
  /\ marred' = marred \cup {l}
  /\ Unlock(p)
  /\ Return(p)
  /\ UNCHANGED <<store, staging, workspaces, abandoned>>

-----------------------------------------------------------------------------
(* ostg workspace create: a base, its seed, a workspace made from the seed.*)
(* (The writing of the seed has a module of its own, MaterializationSeed,  *)
(* and the publication of the workspace another, WorkspaceLifecycle.)      *)

CreateLook(p, l) ==
  /\ "create" \in Enabled
  /\ At(p, "idle")
  /\ FirstCandidate(l) /\ l # None
  /\ Goto(p, "seed")
  /\ Keep(p, [NoLocal EXCEPT !.lock = l])
  /\ UNCHANGED <<store, staging, lifecycle, workspaces, history>>

CreateFindsSeed(p) ==
  /\ At(p, "seed")
  /\ seeds[loc[p].lock] # None
  /\ Goto(p, "publish")
  /\ UNCHANGED <<store, staging, lifecycle, workspaces, history, loc>>

\* The seed archives the tree that is there now.
CreateSeed(p) ==
  /\ At(p, "seed")
  /\ seeds[loc[p].lock] = None
  /\ targets[loc[p].lock] \notin {"absent", "headless"}
  /\ seeds' = [seeds EXCEPT ![loc[p].lock] =
                 IF targets[loc[p].lock] = "whole" THEN "whole" ELSE "torn"]
  /\ Goto(p, "publish")
  /\ UNCHANGED <<targets, staging, lifecycle, workspaces, history, loc>>

\* Mutant: without the lifecycle lock.
CreatePublishUnlocked(p) ==
  /\ At(p, "publish")
  /\ seeds[loc[p].lock] # None
  /\ workspaces' = workspaces \cup {[base |-> loc[p].lock, tree |-> seeds[loc[p].lock]]}
  /\ Return(p)
  /\ UNCHANGED <<store, staging, lifecycle, history>>

\* Under the lifecycle lock, the seed alone is looked at.
CreatePublish(p) ==
  /\ At(p, "publish")
  /\ lifecycle = None
  /\ seeds[loc[p].lock] # None
  /\ workspaces' = workspaces \cup {[base |-> loc[p].lock, tree |-> seeds[loc[p].lock]]}
  /\ Return(p)
  /\ UNCHANGED <<store, staging, lifecycle, history>>

\* The base or its seed is gone, or anything else fails.
CreateFails(p) ==
  /\ pc[p] \in CreateSteps
  /\ \/ "fault" \in Enabled
     \/ seeds[loc[p].lock] = None /\ (At(p, "publish") \/ ~Reusable(loc[p].lock))
  /\ Return(p)
  /\ UNCHANGED <<store, staging, lifecycle, workspaces, history>>

\* ostg workspace remove, as one step.
RemoveWorkspace(p, w) ==
  /\ "remove" \in Enabled
  /\ At(p, "idle")
  /\ lifecycle = None
  /\ w \in workspaces
  /\ workspaces' = workspaces \ {w}
  /\ UNCHANGED <<store, staging, lifecycle, history, pc, loc>>

-----------------------------------------------------------------------------
(* A process dies.                                                         *)

Kill(p) ==
  /\ "kill" \in Enabled
  /\ pc[p] # "idle"
  /\ abandoned' = abandoned \cup (mounts \cap {loc[p].staging})
  /\ marred' = marred \cup {l \in Locks : Removing(p, l)}
  /\ Unlock(p)
  /\ Return(p)
  /\ UNCHANGED <<store, staging, workspaces>>

\* Only the command dies, with its lock, and the root child removes on.
KillParent(p) ==
  /\ "kill" \in Enabled
  /\ At(p, "deleting") /\ lifecycle = p
  /\ lifecycle' = None
  /\ marred' = marred \cup {loc[p].lock}
  /\ UNCHANGED <<store, staging, workspaces, abandoned, pc, loc>>

-----------------------------------------------------------------------------
Step(p) ==
  \/ \E s \in Stagings : BuildStage(p, s)
  \/ BuildLease(p) \/ BuildEnter(p) \/ BuildLeave(p)
  \/ \E l \in Locks, c \in Locks \cup {None} :
       BuildReuse(p, l, c) \/ BuildInstall(p, l, c)
  \/ BuildFails(p) \/ BuildFailsMounted(p)
  \/ BuildPublish(p) \/ BuildFinds(p) \/ BuildFinally(p)
  \/ CleanBegin(p) \/ CleanConfirm(p) \/ CleanStaging(p) \/ CleanOpen(p) \/ CleanEnds(p)
  \/ \E s \in Stagings \cup {None}, l \in Locks \cup {None} : CleanPick(p, s, l)
  \/ \E l \in Locks :
       \/ DeleteLocked(p, l)
       \/ RemoveSome(p, l) \/ RemoveLast(p, l) \/ RemoveFails(p, l)
       \/ CreateLook(p, l)
  \/ CreateFindsSeed(p) \/ CreateSeed(p) \/ CreatePublish(p) \/ CreateFails(p)
  \/ \E w \in workspaces : RemoveWorkspace(p, w)
  \/ Kill(p) \/ KillParent(p)

Next == \E p \in Procs : Step(p)

Spec == Init /\ [][Next]_vars

=============================================================================
