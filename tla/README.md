# A verification of Orin Stage in TLA+

Orin Stage keeps reproducible Jetson environments on one machine. The `ostg`
commands share nothing but a *data root*: a directory tree that several
processes change at the same time, that a kill leaves as it is, and that the
next command must understand. There is no daemon; `flock`, `rename` and JSON
receipts are all the coordination there is. This project models that
coordination, checks it with TLC and proves its safety with TLAPS.

Paths below are relative to `src/src/orin_stage/` unless they start with `src/`.

## Inventory of the system

| Component | State it keeps | Operations | Hard behaviours | What makes it correct |
|---|---|---|---|---|
| Workspace lifecycle: `workspace_manager.py`, `workspace_publish.py` | `workspaces/<id>` with `workspace.json` (id, name, target, generation), `staging/*`, `state/operations/*.json`, `state/workspace-locks/*` | create, shell, run, build, reset, remove, recover | two lock levels, values read before a lock is granted, kills between any two steps, failing cleanup, recovery that guesses from what it finds | names unique; what is published is whole; generations count commits; receipts tell the truth; every command ends |
| Executors: `target_executor.py`, `build_capsule.py` | none: a podman container on a published tree | run, shell, build | the container may outlive the command that holds the lock | no writer without a lock |
| Storage: `storage.py`, `privileged_storage_delete.py` | none of its own | delete a base, delete the download cache, remove a workspace | check and removal are separate steps; the removal is a privileged child | no base is removed under a workspace |
| Materialization: `materialization_seed.py`, `materialization_extract.py`, `privileged_materialization.py` | `targets/<digest>/materialization/seed.{tar,json}` | create seed, extract and validate | no lock between two seed builders; a kill between the two files; a tar that outlives its parent; the archive is opened twice | what passes for a seed is one; a workspace is unpacked from a complete archive |
| Acquisition: `acquisition/` | `sdkm/downloads`, `sdkm/receipts/<digest>`, `sdkm/.acquisition.lock` | ensure, adopt, verify, (cache delete in `storage.py`) | first check without the lock, two-rename publication, one download root for every release | a receipt that passes names bytes that are there; a kill never blocks later acquisitions |
| Base construction: `base/construction.py`, `base/receipt.py`, `privileged_base.py` | `staging/.base-jp6-*`, `targets/<digest>` | build or reuse | two builders without a lock, publication by rename, bases read without a lock | a published base is complete and never replaced; a workspace keeps its base |
| Construction chroot: `base/chroot.py` | mounts and helper files in the rootfs | enter, run, close | failure or SIGINT at any of nine preparation steps, failing unmounts, scripts that replace files meanwhile | what was prepared is undone; nothing bound is deleted; no file of the tree is lost |
| Base attempt cleanup: `base/cleanup.py` | construction leases | inspect, remove | races with live builders | only dead attempts are removed |
| Package resolution: `base/packages.py`, `base/validation.py`, `base/recipe.py` | the rootfs and its source lists | closure, removal policy, installation, checks of dpkg state | apt and package scripts do something else than simulated | the installed set is the locked set; nothing is removed without leave |
| Planning: `planning/` | none | index artifacts, plan, ensure a release | no lock over its steps; two searches for a base by different rules | a plan says cached only of what is; a second ensure is free |
| Build toolchain: `build_toolchain.py` | `build/toolchains/<digest>`, lock, staging | ensure | check, lock, check again; failures with the lock held | one download; builds mount the genuine toolchain |
| Catalog: `catalog/` | immutable data | resolve | none | one target per selector |
| Command line: `cli.py` | none | parse, read, call, check, print | reads before it waits | what it checks is still meaningful |
| Diagnosis: `doctor.py`, `runtime.py`, corpora | none | probe | none | - |

Interactions. `create` and `reset` read the seed that materialization wrote
below `targets/<digest>` and publish a tree below `workspaces/`; a deletion of a
base looks at `workspaces/` before it removes that target. All four take the
lifecycle lock. `shell`, `run` and `build` take the lock of one workspace, which
`reset` and `remove` take as their second. Base construction and seed creation
take no lock; acquisition and the deletion of the download cache take their own.

## Plan

In this order; what a later line composes is named in it.

1. `WorkspaceLifecycle` with base deletion, its abstract specification
   `WorkspaceRegistry`, properties, inductive invariant, proofs. *Done.*
2. `SdkmAcquisition`: ensure, adopt and cache deletion on shared downloads and
   receipts, with proofs. *Done.*
3. `BaseStore`: builders, cleanup tool, base deletion and workspace creation on
   the directory of published bases, its abstract specification
   `PublishedBases`, proofs of both. *Done.*
4. `ConstructionChroot`, and `BaseInstallation`, which composes it with the
   source lists and the packages, with proofs. *Done.*
5. `MaterializationSeed`: seed builders without a lock, proofs. *Done.*
6. `BuildToolchain`: double-checked locking, proofs. *Done.*
7. `ReleaseEnsure`: planning with acquisition (2), construction (3) and deletions
   as single steps, proofs. *Done.*
8. Left: the provenance of foreign ELF files and the links inside the toolchain
   archive as pure operators.

## Modules

| Module | Contents |
|---|---|
| `WorkspaceLifecycle` | the state, one action per step of every command, `Spec` |
| `WorkspaceProperties` | invariants, refinement mapping, fairness, liveness |
| `WorkspaceRegistry` | what the commands promise: a registry of named revisions |
| `WorkspaceInvariant` | the inductive invariant the proofs rest on |
| `SdkmAcquisition`, `SdkmProperties` | shared downloads and receipts: ensure, adopt, cache deletion, SDK Manager, kills; what is claimed of them |
| `BaseStore`, `BaseProperties` | builders, cleanup tool, deletion and workspace creation on `targets/` and `staging/`; what is claimed of them |
| `PublishedBases` | what that directory promises: a base appears whole, and is never replaced |
| `ConstructionChroot` | helper files, `resolv.conf` and mounts of the construction chroot |
| `BaseInstallation`, `InstallationProperties` | one construction: source lists around the chroot (EXTENDS it) around the packages; what is claimed of it, and the inductive invariant |
| `MaterializationSeed`, `SeedProperties` | `seed.tar` and `seed.json`, their writers and readers |
| `BuildToolchain`, `ToolchainProperties` | the toolchain, its lock, staging and builds |
| `ReleaseEnsure`, `ReleaseProperties` | index, plan and order of `ostg target ensure` |
| `*Proofs` | the theorems about a component and their proofs |
| `MC*` | instances for TLC: symmetry, and initial states where all are too many; the `.cfg` files give the constants |

### How the state corresponds to the code: workspaces

| Variable | On disk or in the process |
|---|---|
| `lifecycle`, `wsLock` | who holds `lifecycle.lock`, `<id>.lock`. `flock` is exclusive and dies with its process. |
| `wsDir`, `staging` | the directory a path names. `wsDir[i]` is the directory now at `workspaces/<i>`. A reset exchanges two directories, so directories have an identity of their own. |
| `meta` | `workspace.json` of a directory |
| `valid`, `touched` | the tree was extracted in full and validated; a target command wrote to it since |
| `base`, `deleters` | `targets/<digest>` and the privileged children removing it |
| `receipts` | `state/operations/*.json`: operation, phase, `recovered`, identity and `generation_before` (`generation_after` is that plus one) |
| `orphans` | directories with a container whose command died |
| `pc`, `loc` | where each command is and the values it read |
| `effect` | history, read by no action: the operations whose rename took place |

Each action is the code between two points at which another process can see or
change something: a lock request, a rename, a receipt write, the end of a child.
Two adjacent writes are one action only where both are the process's own and
nobody can see the difference. `target` stands for target digest and base
digest together. A selector is the workspace id: the commands resolve the name
first and pass the id on. Waiting for a lock and what the code does first with
the lock held are one action, guarded by the lock being free.

### How the state corresponds to the code: acquisition

| Variable | On disk or in the process |
|---|---|
| `holder` | who holds `sdkm/.acquisition.lock` |
| `files` | what lies below `sdkm/downloads` under an artifact's name: in the folder itself (`"root"`), in `adopted-<target>`, or in a `.stale-adopted-<target>-*` beside it. `"bad"` is a file of the right name with other bytes. |
| `receipts` | `sdkm/receipts/<digest>/receipt.json`: for each artifact the place it was verified in |
| `stagings`, `asides` | `sdkm/receipts/.staging-<digest>-*` with the process that made it (none, if that died), and `.stale-<digest>-*` |
| `downloaders` | the SDK Manager processes and the processes that wait for them |
| `pc`, `loc` | where each command is, the acquisition it works on, what it verified, what it moved aside |

A digest stands for target and version of SDK Manager; the other parts of the
acquisition digest are functions of the target. Each target has file names of
its own, so a name is a target and an artifact kind. A hit is judged in one
step although the files are hashed one after the other: a judgement that mixes
two moments is one that goes stale a moment later, and nobody holds anything on
the strength of a hit. The lock is released in the step that returns. `EnsureRequest` is made by
`ensure_jp6_release`, and only for a target without a valid receipt of any version. SDK
Manager (`SdkManagerWrites`) turns a file of the target it downloads into a good or a
bad one at any moment while it runs; it knows only the folder itself.

### How the state corresponds to the code: bases

| Variable | On disk or in the process |
|---|---|
| `targets` | `targets/<digest of the lock>`: absent, `whole`, `torn` (metadata complete, files of the tree missing), `partial` (`lock.json` and not enough beside it), `headless` (no `lock.json`) |
| `seeds` | `targets/<digest>/materialization`: the tree it is an archive of |
| `stagings`, `mounts` | `staging/.base-jp6-<uuid>`, and which of them has the host's `/dev` below it |
| `lifecycle` | who holds the workspace lifecycle lock |
| `workspaces` | published workspaces: their base, and the tree each was given |
| `abandoned`, `marred` | history: mounts nobody is left to undo; bases whose removal broke off, or was interrupted by a kill, or hit a base published since |

A target lock is a record of the package set and of everything else it records
(`Evidence`: QEMU, receipt, versions), a base digest its projection on the package
set: two directories may hold equal bases. `rmtree` is three kinds of step,
since a concurrent reader can tell them apart (`RemoveSome`, `RemoveLast`, `RemoveFails`). Here the creation of a
workspace is the choice of a base, the seed, and the publication under the
lifecycle lock; what else it does is in `WorkspaceLifecycle`.

### How the state corresponds to the code: one construction

`files` and `original` are what lies now, and lay when the context was made, at
the three helper paths, at `resolv.conf` and at its backup; `mounts` what is
mounted, `mounted` and `created` the context's own lists (`_mounted`,
`_created_paths`), `resolved` the kind of `resolv.conf` it saved, `step` where it
is. `sources` is `sources.list.d`: the list of the tree or the canonical one, its
backup, the construction list, and whether other lists name NVIDIA's repositories.
`installed` is dpkg's table; `transaction`, `before` and `evidence` are the locked
package set, the names listed before the installation, and the removals recorded.
`mishap` records that an umount failed or SIGINT broke into `__enter__`; `stage` tells
a construction that ended from one whose source lists were left half rewritten (`"torn"`). What apt
makes of the packages is chosen among everything its arguments allow (`Outcomes`).

### How the state corresponds to the code: seed, toolchain, release

`archive` and `metadata` are the two files of the seed: `"whole"`, a version of an
archive being written, or not there; `writing` and `last` tell which tars still
write and whose file has the name, `given` what workspaces were unpacked from, and
`overlapped` that two creations were under way at once. `toolchain` is
`toolchains/<digest>`, `stagings` the staging directories with the bytes
downloaded into them, `place` the one of each process. In `ReleaseEnsure`,
`receipts` and `bases` are what lies below the data root, `manifest` the
argument, `plan` and `receipt` local variables of `ensure_jp6_release`; `Index`,
`PlanRelease`, `FindReceipt`, `FindReusableBase` and `ReusableCandidate` are the
functions of those names as operators. The acquisition and the construction are
one step each there, and have modules of their own.

### Failures

With `"fault"` in `Enabled` extraction, renames, receipt writes, downloads,
`podman unshare rm` and the privileged `rmtree` may fail at every place where the
code calls them. With `"crash"` or `"kill"` a command may be killed at every
control point. `KeyboardInterrupt` is no `Exception`: no handler writes a receipt,
the locks go, so it is the same step; where `finally` or a context manager does
run (`ConstructionChroot`) it is an action of its own (`"interrupt"`). With `"busy"`
an umount fails. In `SdkmAcquisition` downloads, reference files, copies,
renames, receipt writes and deletions may fail; of two operations in an error
path the second is assumed to succeed (the rename that gives a directory its old
name back). With `"orphan"` a killed process leaves its SDK Manager running.

## Runs

| Run | Question | Result |
|---|---|---|
| `lifecycle_crashes` | Two commands of any kind at once, with kills, failures, orphans, recovery | the inductive invariant, unique names, undisturbed sessions, whole trees, kept staging, truthful receipts; every step is a registry step or none |
| `commands_end` | Does every command end, deletions and target ensures included? | yes, with failures, under the fairness below; and no workspace refers to a base while a live command deletes it |
| `reset_evidence` | A check in the code | refuted, see Findings |
| `acquisition_safety` | Downloads, adoptions and deletions by two processes, failing and killed | the inductive invariant; the bytes that a receipt is about to name are undisturbed |
| `acquisition_progress` | Does a repeated `target ensure` succeed after whatever went wrong before, orphans included? What stays on disk? | yes, without adoptions; a staging directory in use is never taken and at most one per acquisition is left behind |
| `adoption_blocks_ensure` | A claim of the documentation | refuted, see Findings |
| `base_store` | Builds, cleanups, deletions and creations by three processes, failing and killed at every step | the directory of bases is one of immutable bases; workspaces get whole trees and keep their base; live builds keep their staging directory; no removal reaches the host's `/dev` |
| `base_progress` | Do builds come to a base after builds, removals and cleanups that failed or were killed, and after umounts that failed? | yes, unless a removal left a directory without `lock.json`, or half a base while a staging directory is still mounted |
| `base_installation` | One construction on any tree, with failures anywhere, SIGINT (also while the source lists are rewritten) and busy umounts | the inductive invariant; the tree is restored, mounts are undone, no file is lost; what is published is what the lock and the receipt record, with the canonical source list |
| `seed_safety` | Three creations of a seed, with failures, kills and rebuilds | workspaces are unpacked from complete archives, unless two creations overlapped |
| `toolchain` | Three builds that acquire the toolchain, fail and die | builds mount the genuine one, it is acquired once, every build gets it |
| `release_ensure` | `target ensure` from any evidence | plans say cached only of what is, both searches for a base agree, an acquisition suffices, a second ensure is free |

Bounds. `Procs`, `Ids`, `Names`, `Targets`, `Dirs` and `OpIds` are finite; a
command is asked for only while a fresh operation id, directory and id are left
for it and for everything under way (`OpAvailable`, `IdAvailable`), and a
workspace is asked to advance only below `MaxGen` (`GenAvailable`). The bounds sit
on requests alone, so a command that has begun never stops for want of a value.
They are enough for the cases that matter: two operations with receipts and a
third process state (recovery or a session) between them; three directories let
a reset exchange while an abandoned one lies in staging; generation 2 is the
first at which a reset's `before` and `after` are both left behind.
For acquisition: one target, since targets share nothing but the lock, which two
versions of one target contend for as well; two artifacts in `acquisition_safety`
(one verified, the other not) and one where only directories or progress matter;
one stale directory, which an adoption needs only while it runs: an adoption is
asked for while a directory is left for it (`SlotAvailable`), so kills can fill it.

For bases: three processes, the least with which a builder, a cleanup and a
deletion (or creation) meet; two staging directories, one live and one left
behind; one lock, since two differ only in what `BuildReuse` compares
(`BuildStage` starts only while no base is reusable). A staging directory is
made while a free name is left (`Stagings`). For the seed two versions of the
archive tell the file of one tar from that of another. For the toolchain three
builds and two staging directories: a kill leaves one for good, after which
acquisitions need the other; `Stage` waits when both are gone, which the code
never has to, and `BuildsSucceed` says nothing of such behaviours since kills stop. In
`base_progress` a builder killed in its chroot takes one of two names for good, and
`RepeatedEnsure` speaks of the behaviours in which a name is left again and again. For one
construction three packages (installed, removed, untouched) in two versions, and a
policy that names one of them at most. For
`release_ensure` two kinds, two contents, two targets of SDK Manager, up to two
receipts and one base to begin with (`MCInit` names the combinations), two bases
in all (`MaxBase`).

Symmetry is used for safety only. Processes, ids, names and directories are
interchangeable, operation ids are ordered (recovery sorts them).

Fairness (`FairSpec`). The kernel grants a `flock` to its waiters in turn:
`Waits` is strongly fair. A process that can go on does: `Works` is weakly fair. Sessions
and privileged children are assumed to end, since a shell that never exits
keeps its lock by design. The `RepeatedEnsure` and `RepeatedBuild` specifications
assume in addition that the command is given again and again, that a
free lock is granted, that a download comes to its end, and that one day
nothing fails or is killed any more (`<>[][~Trouble]`) and orphans end; cache
deletions may go on, and in `base_progress` the cleanup tool is run again and again,
by whomever; a run that lists a mounted staging directory raises there and is not
assumed to come to the directories of bases (`Reaches`).
`Trouble` leaves out a failure whose change of state is also that of a regular
step: what is excluded from then on are failures, never the regular steps that
look the same, and the assumption never excludes all behaviours. Deadlock is
checked except in `base_installation`, which models one construction that ends, and
`adoption_blocks_ensure`, where an acquired target leaves nothing to ask for.

## Theorems

### Workspaces

Everything in `WorkspaceLifecycleProofs` and `RegistryProofs` holds for all values of the constants, in particular any number of processes and
workspaces and every `Enabled`. Assumed are that `None` is none of the values it
is the absence of (`NoneIsNew`, `NoneIsNoReceipt`, `AbsenceIsNoWorkspace`), and that
operation ids are positive numbers (`OpIdsPositive`, 0 means "none yet").

| Theorem | Says |
|---|---|
| `TypeCorrect` | `TypeOK` always holds |
| `InductiveHolds` | `Inductive` always holds |
| `NamesUnique` | no two published workspaces share a name |
| `TreesWhole` | a published directory is validated, has its own metadata, and is not in staging |
| `SessionsUndisturbed` | a session keeps its directory and its generation |
| `StagingKept` | nobody takes the staging directory of a running operation |
| `DeletionSafe` | a live base deletion never runs under a workspace |
| `RegistryImplemented` | `WorkspaceLifecycle` implements `WorkspaceRegistry` |
| `ReceiptsTrue` | a receipt closed by its own operation, or by recovery as a failed reset, tells what was published |
| `RecoveriesKeepUp` | a recovery that reads receipts has swept staging, and leaves none open behind it |
| `WaitingEnds` | nobody waits in a circle: no chain of processes that wait for each other's locks is longer than two |
| `RevisionsOrdered` | the generation of a workspace never goes back and never skips a value; its name and target stay |
| `ReceiptsOwned` | where nothing is killed and no write fails, each open receipt belongs to an operation under way |
| `FailedPublishesNothing` | where nothing is removed, no operation that published is called failed, by itself or by a recovery |

The argument. None of these is inductive. `UniqueNames` needs that the name
checked at `create_check` is still free at `create_publish`, hence that a process
past its check holds the lifecycle lock, hence that the control point tells who
holds which lock. `SessionSeesItsGeneration` needs that the only writers of
`wsDir[i]` and of its metadata hold `wsLock[i]`. `PublishedTreesWhole` needs that
a staging directory is used by one live operation, since another process might
delete or publish it. `Inductive` in `WorkspaceInvariant` states exactly this: types;
locks (control point iff holder, in both directions: `LocksOK` and `LocksReleased`); published directories distinct, valid, with
their own metadata, disjoint from staging; unique names; and per control point
what the process knows of its directory, its receipt and the base it deletes.
Each action has a lemma that preserves it; `Crash` weakens a process to idle,
which claims nothing.

The refinement needs one fact more, `Clean`: a staging directory that a create or
reset fills was never written to by a target command, and no container left over
holds it, so what the exchange publishes is pristine. The receipts need their
history: `Told` says of each receipt that it agrees with what was published and
that a workspace reset under it, while it is there, is past the generation the
reset began with. That a recovery calls a reset failed only when it changed
nothing then follows, since the refinement shows that no generation goes back
(`RevisionsMove`), and a new workspace never takes an id of an earlier receipt.

`WaitingEnds` follows from `LocksReleased`: who holds the lifecycle lock is at a
step that waits for at most a workspace lock, and who holds that one without the
lifecycle lock is in a session, which waits for nothing. It is what `CommandsEnd`
rests on, without the fairness. `ProcessMoves` says what a step can do to a receipt (open it,
advance or close its own, settle one left behind) and that an operation leaves its
receipt open only if it is killed or a write fails; `ReceiptsOwned` is its
consequence. `FailedPublishesNothing` is about the judgement of creates by name
and target: as long as no workspace leaves, one that was published for a receipt is still
found by it (`Standing`), since names and targets stay (`RevisionsMove`). With removals
the judgement can be wrong, see Known behaviours. The last four of the table
are stated by no run: TLC agreed with them on instances like `lifecycle_crashes`,
one of them without removals and one without kills and failures, before they were proved.

### Acquisition

`SdkmAcquisitionProofs` holds for all values of the constants, from the
assumptions that `None` is no process, place or directory (`AbsenceIsNew`) and that
the names of stale directories differ from the other places (`PlacesDiffer`).

| Theorem | Says |
|---|---|
| `InductiveHolds` | `Inductive` of `SdkmProperties` always holds |
| `TypeCorrect` | `TypeOK` always holds |
| `StagingSafe` | no staging directory in use is taken, no more than one per acquisition exists; also with orphans |
| `VerifiedUndisturbed` | without orphans nobody disturbs verified bytes before their receipt is published |

The argument: the control point tells who holds the lock (`LockOwned`), so a step
that writes files or receipts excludes every other process from the steps that
rely on them (`Alone`, `BytesMove`). SDK Manager takes no lock; that it runs only
while its process waits for it (`DownloadersOwned`) is what the assumption about
orphans buys: with `"orphan"` TLC refutes `VerifiedStaysTrue` within a dozen steps. An adoption publishes its
artifacts before it records where they are, so `AdoptedUndisturbed` bridges the
step in between.

### Bases

`BaseStoreProofs` assumes that `None` is new (`AbsenceIsNew`).

| Theorem | Says |
|---|---|
| `InductiveHolds` | `Inductive` of `BaseProperties` always holds |
| `BuildsUndisturbed` | a running build keeps its staging directory |
| `HostUndisturbed` | no removal reaches the host's `/dev` below a staging directory, unless an umount failed or a builder died in its chroot |
| `BasesWhole`, `WorkspacesWhole` | half a base exists only while it is deleted, and no workspace is made from one, unless a removal broke off |
| `BaseOutlivesWorkspace` | the base of a workspace stays |
| `ImplementsBases` | `BaseStore` implements `PublishedBases` |

The argument: nobody but its builder knows a staging directory until a second
inspection lists it, and a builder that starts later is given another name
(`StagingsDistinct`, `InspectionHolds`): the inspection of command lines and the
listing, two steps apart, together suffice. A base is broken only by the holder
of the lifecycle lock who has seen no dependents (`DeletedUnused`), and a
workspace appears only under that lock.

### Installation

`InstallationProofs` holds for all packages, versions, trees to begin with and
`Enabled`. It assumes that `None` is no version (`AbsenceIsNew`).

| Theorem | Says |
|---|---|
| `ConstructionInvariant` | `Inductive` of `InstallationProperties` always holds |
| `ConstructionTyped` | `TypeOK` always holds |
| `TreeRestored` | closing the context leaves exactly the files that were found |
| `ClosingUnmounts` | closing undoes every mount, unless an umount fails or SIGINT broke into the preparation |
| `TreeNeverLost` | no file of the tree is lost, however the context is left |
| `PublishedAsRecorded` | what is published is what the lock and the receipt record |
| `NoPolicyNoRemoval` | without a policy no package is removed, not even by an installation that fails |
| `NoTraceLeft` | a published base has no trace of its construction; one that failed leaves the canonical source list, or has refused what it found and touched nothing, or was broken off while it rewrote the source lists |

The argument. None of them is inductive, since each is about the end and each
step relies on the memory of the context. `FilesAccounted` computes the files from
that memory (`created`, `resolved`): a helper path is ours iff it is listed, and the
saved `resolv.conf` lies at its backup iff it was moved. `MountsAccounted` says that
`mounted` is a prefix of `Mounts` and, until a mishap, what is mounted is exactly that;
closing takes it from the end. `StepsKnown` ties the steps of the context to those of
the work inside: the context closes only when the work is over or an exception is
under way. `WorkKnown` says at each step of the work how the installed packages
follow from those found and the transaction; it is what makes the record true.

### Seed, toolchain

`SeedProofs` (`SeedInductive`, `SeedsWhole`, `UnpackedTrue`) rests on `Alone`: without
a second creation, what lies under the archive's name at each control point is
what its only writer made of it, also when that writer dies and its tar goes on.
`ToolchainProofs` (`ToolchainInductive`, `GenuineToolchain`, `AcquiredOnce`) rests on
"control point iff holder" for the lock, one staging directory per acquisition,
and verified bytes from the verification on.

### Release

`ReleaseProofs` holds for all kinds, contents, targets, receipts, bases and
manifests. It assumes that the official content and the required target are
among the contents and targets (`OfficialKnown`), that bases are numbered
(`BasesAreNumbered`), and that `None` is new (`AbsenceIsNew`).

| Theorem | Says |
|---|---|
| `TypeCorrect` | `TypeOK` always holds |
| `CachedTruly` | a plan calls an input cached only on the word of a valid receipt of this release, and of its target where that is known |
| `AgreeingSearches` | the base a plan reuses is the one that the construction would reuse |
| `Suffices` | after an acquisition the release is complete, unless the manifest or another receipt contradicts it, or something was deleted |
| `FreeRepeats` | a release that was ensured is ensured again without SDK Manager and without a build |

The argument: `PlanArtifactIs` states the plan of an artifact in terms of the
receipts that count for it. No lock is held, so what a plan was made from may be
gone; until then (`PlanTrue`) the receipt it goes with is there and, without a
manifest, no other evidence contradicts it. A run that ends well thus leaves one
evidence and a base made of it (`Ready`), from which the same plan follows again:
the least of the bases that match is chosen, and there is one, since the names
are well-founded.

### Only model-checked

Liveness (`CommandsEnd`, `BuildsSucceed`, both `EnsureSucceeds`), which is out of the
prover's reach, since fairness is defined with ENABLED.

## Findings

| Run | What happens |
|---|---|
| `reset_evidence` | `ostg workspace reset` compares the result with a record read before it waited for the locks. A run that commits meanwhile turns a correct reset into an error. |
| `adoption_blocks_ensure` | Adopted artifacts and downloaded ones lie below one root, where each name must occur once. An adoption publishes the artifacts first and their receipt later. Killed in between (an error there has the same effect: the handler removes its staging directories only, `sdk_manager_adoption.py:220-223`), it leaves artifacts without a receipt. `target ensure` then finds no receipt, downloads a second copy, and every verification of the target fails as ambiguous until the user deletes the cache or adopts again. |

### Known behaviours

Conditions in the properties above stand for behaviours that the models have:

- Recovery judges an interrupted operation by what exists *now*
  (`workspace_manager.py:648`, `:686`). A create of a name that is taken, killed
  before it compared names, is closed as completed with the id of the older
  workspace. Hence "as long as the operation itself closed it" in `OwnReceiptsTrue`.
- When the workspace of an interrupted reset was removed or moved on twice,
  recovery raises, every time, and never reaches the receipts after it
  (`workspace_manager.py:702`). Hence no liveness of recovery is claimed.
- The lifecycle lock belongs to `ostg`, not to the privileged child that removes
  a base. When `ostg` is killed the child goes on, and a create may publish a workspace on
  a base that is being removed. Hence "live command" in
  `LiveDeletionUnreferenced` and `marred` in the properties of `BaseStore`.
- A base that lost files of its tree and none of its metadata is reused
  (`base/receipt.py:143`); hence `marred` again. One that lost `lock.json` blocks
  every build of it, and the cleanup tool passes it over (`base/cleanup.py:205`);
  hence `HeadlessLeft` in `EnsureSucceeds` of `BaseProperties`.
- When a builder dies inside its chroot, or an umount fails, the host's `/dev`
  stays bound below the staging directory. Both removals of such directories
  look for a mount at its top only (`base/cleanup.py:184`, `:228`) and descend into it.
  Hence "unless it was abandoned" in `HostDevSpared`. The cleanup tool raises there,
  and staging directories come before the directories of bases (`base/cleanup.py:216-231`):
  half a base is then never removed and blocks every build of it. Hence `PartialLeft` in
  `EnsureSucceeds` of `BaseProperties`.
- SIGINT while the source lists of a tree are rewritten leaves the construction list,
  the backup or neither list behind (`base/packages.py:603-644`): `except Exception` does not
  catch it, and `__exit__` is not called when `__enter__` did not return. A removal that
  fails on the way out has the same effect. Hence `"torn"`, of which `ConstructionUndone`
  claims only that it is never published; the staging directory is removed with the tree.
- Two creations of one seed at once spoil it: the one that fails unlinks the
  archive of the other. Hence `overlapped`.
- Staging directories of killed toolchain acquisitions stay for good.

A container behaves like that child when its `ostg run` is killed: a reset may
start beside it. `ImplementsRegistry` in `lifecycle_crashes`, where containers do
outlive their commands, shows the damage is contained: what is published by the
reset is not reached by the writer, which holds the old directory. An orphaned SDK
Manager is not contained: it can rewrite an artifact between its verification by
another process and the publication of the receipt. The next cache check notices.

## Not modelled, and why

Workspace metadata damaged by hand, symbolic links put in place of directories
and other states the program itself never produces; its refusals of them change nothing. The
branch "ambiguous create" of recovery needs two workspaces of one name, which
`NamesUnique` excludes. Contents of trees, hashes, podman and tar command lines
are abstracted to "whole or not" and "touched or not". A kill during a removal
leaves the staging entry whole or, with `"fault"`, partial; nothing but recovery looks at it again.
The folder an adoption copies from is verified once and assumed not to change
(adopted files may be hard links into it), and not to lie below `sdkm/downloads`.
The directory `.adoption-artifacts-<token>` of a killed adoption stays for good;
nothing reads it. The discovery of a release and the response file come before
the first check and touch no shared state but a file whose content is the same
for every writer. `doctor.py`, storage measurement and listings only read.

Parsing of apt's, dpkg's and SDK Manager's output, the constants of the recipe, archive members and their links,
and the provenance of foreign ELF files are pure functions of their input and
appear as their verdict. The catalog is immutable. The release tooling below
`src/tools` builds packages of Orin Stage and shares no state with it.
