--------------------------- MODULE SdkmAcquisition ---------------------------
(***************************************************************************)
(* Acquisition of NVIDIA's construction inputs: the download folder and    *)
(* the receipts that every process shares below <data root>/sdkm.          *)
(*                                                                         *)
(*   acquisition/sdk_manager_acquisition.py   check, lock, download, verify*)
(*   acquisition/sdk_manager_adoption.py      the same from a folder the   *)
(*                                            user already has             *)
(*   acquisition/artifact_verification.py     what counts as verified      *)
(*   acquisition/acquisition_receipt.py       what counts as a cache hit   *)
(*   storage.py                               deletion of the downloads    *)
(*                                                                         *)
(* One flock serializes the writers.  Readers take no lock.  SDK Manager   *)
(* is an external program that fills the folder; a process may die at any  *)
(* step, and what it had on disk stays.                                    *)
(***************************************************************************)
EXTENDS Naturals, FiniteSets

CONSTANTS
  Procs,      \* processes that can be running at the same time
  Targets,    \* catalog targets, each with file names of its own
  Versions,   \* versions of SDK Manager: part of an acquisition's identity
  Kinds,      \* the artifacts of a target: BSP and sample rootfs
  Stales,     \* bound: the directories .stale-adopted-<target>-<uuid>
  Enabled,    \* the commands, and the kinds of failure, of this instance
  None        \* "not there"

ASSUME AbsenceIsNew ==
  /\ None \notin Procs \cup Stales \cup {"root", "adopted"}
  /\ None \notin [Kinds -> Stales \cup {"root", "adopted"}]
ASSUME PlacesDiffer == {"root", "adopted"} \cap Stales = {}

VARIABLES
  holder,       \* holder of sdkm/.acquisition.lock
  files,        \* sdkm/downloads: condition of an artifact in a place
  receipts,     \* sdkm/receipts/<digest>: where its artifacts were verified
  stagings,     \* sdkm/receipts/.staging-<digest>-*
  asides,       \* digests with a sdkm/receipts/.stale-<digest>-*
  downloaders,  \* running SDK Managers and the processes that wait for them
  pc, loc       \* control point and local variables of each process

disk == <<files, receipts, stagings, asides>>
vars == <<holder, files, receipts, stagings, asides, downloaders, pc, loc>>

-----------------------------------------------------------------------------
(* Types.                                                                  *)

\* SDK Manager downloads to the folder itself, adoption moves its copies to
\* adopted-<target> and what was there before to a directory beside it.
Places == {"root", "adopted"} \cup Stales

Digests == [target : Targets, version : Versions]

\* "bad" is a file of the right name whose bytes are not NVIDIA's.
Conditions == {"absent", "good", "bad"}

Located == [Kinds -> Places]

Staging == [digest : Digests, owner : Procs \cup {None}]
Downloader == [target : Targets, owner : Procs \cup {None}]

Local == [digest : Digests \cup {None}, found : Located \cup {None},
          before : Located \cup {None}, slot : Stales \cup {None}]

NoLocal == [digest |-> None, found |-> None, before |-> None, slot |-> None]

DownloadSteps == {"download", "verify"}
AdoptSteps == {"adopt_copy", "adopt_aside", "adopt_swap", "adopt_tidy"}
PublishSteps == {"publish", "publish_swap"}

\* Control points at which a process holds the lock.
LockedSteps ==
  DownloadSteps \cup AdoptSteps \cup PublishSteps \cup {"publish_tidy", "delete"}

Steps == LockedSteps \cup {"idle", "ensure_check", "ensure_wait", "adopt_check",
                           "adopt_wait", "delete_wait"}

TypeOK ==
  /\ holder \in Procs \cup {None}
  /\ files \in [Targets \X Places \X Kinds -> Conditions]
  /\ receipts \in [Digests -> Located \cup {None}]
  /\ stagings \subseteq Staging
  /\ asides \subseteq Digests
  /\ downloaders \subseteq Downloader
  /\ pc \in [Procs -> Steps]
  /\ loc \in [Procs -> Local]

Init ==
  /\ holder = None
  /\ files = [f \in Targets \X Places \X Kinds |-> "absent"]
  /\ receipts = [d \in Digests |-> None]
  /\ stagings = {}
  /\ asides = {}
  /\ downloaders = {}
  /\ pc = [p \in Procs |-> "idle"]
  /\ loc = [p \in Procs |-> NoLocal]

-----------------------------------------------------------------------------
(* What the operations share.                                              *)

Target(p) == loc[p].digest.target

\* receipt_is_cache_hit: every artifact of the receipt is where it was found
\* and has the recorded bytes.  (The metadata lies in the receipt's directory
\* and moves with it.)
Hit(d) ==
  /\ receipts[d] # None
  /\ \A k \in Kinds : files[<<d.target, receipts[d][k], k>>] = "good"

\* Mutant: the first file of the name is taken, whatever its bytes.
VerifiesAny(t, found) ==
  \A k \in Kinds : files[<<t, found[k], k>>] # "absent"

\* verify_catalog_construction_artifacts: each file name occurs once below the
\* folder, in whatever directory, and has the checksum NVIDIA publishes.
Verifies(t, found) ==
  \A k \in Kinds :
    /\ files[<<t, found[k], k>>] = "good"
    /\ \A place \in Places \ {found[k]} : files[<<t, place, k>>] = "absent"

At(p, step) == pc[p] = step
Goto(p, step) == pc' = [pc EXCEPT ![p] = step]
Return(p) == /\ pc' = [pc EXCEPT ![p] = "idle"]
             /\ loc' = [loc EXCEPT ![p] = NoLocal]

\* Mutant: the lock is taken as a shared one.
LockShared(p) == holder' = p
Lock(p) == holder = None /\ holder' = p
Unlock == holder' = None

OwnStaging(p) == [digest |-> loc[p].digest, owner |-> p]

\* Mutant: what a dead process left is not cleared.
BeginStagingUncleared(p) ==
  /\ stagings' = stagings \cup {OwnStaging(p)}
  /\ UNCHANGED asides

\* _remove_abandoned_publish_dirs goes by the digest in the name alone; then
\* the process makes a staging directory for its own receipt.
BeginStaging(p) ==
  /\ stagings' = {s \in stagings : s.digest # loc[p].digest} \cup {OwnStaging(p)}
  /\ asides' = asides \ {loc[p].digest}

Fault == "fault" \in Enabled

\* Mutant: the lock survives an error.
FailLocked(p) ==
  /\ stagings' = stagings \ {OwnStaging(p)}
  /\ UNCHANGED holder
  /\ Return(p)

\* A failed acquisition removes its own staging directories and nothing else.
Fail(p) ==
  /\ stagings' = stagings \ {OwnStaging(p)}
  /\ Unlock
  /\ Return(p)

\* Bound of the instance: an adoption is asked for while it and every one
\* under way have a directory to move aside to.
SlotFree(t, s) == \A k \in Kinds : files[<<t, s, k>>] = "absent"
SlotAvailable(t) ==
  Cardinality({s \in Stales : SlotFree(t, s)})
    > Cardinality({p \in Procs : pc[p] \in {"adopt_check", "adopt_wait"} \cup AdoptSteps})

-----------------------------------------------------------------------------
(* ensure_sdk_manager_acquisition: check without the lock, then again with *)
(* it, and only then download.                                             *)

\* The target has a valid receipt, whichever SDK Manager it came from.
Acquired(t) == \E d \in Digests : d.target = t /\ Hit(d)

\* ostg target ensure plans from every valid receipt there is, and asks for an
\* acquisition only when none of them serves the target.
EnsureRequest(p, d) ==
  /\ "ensure" \in Enabled
  /\ At(p, "idle")
  /\ ~Acquired(d.target)
  /\ Goto(p, "ensure_check")
  /\ loc' = [loc EXCEPT ![p].digest = d]
  /\ UNCHANGED <<disk, holder, downloaders>>

\* The same for both commands: a cache hit needs no lock.
CheckHit(p) ==
  /\ pc[p] \in {"ensure_check", "adopt_check"}
  /\ Hit(loc[p].digest)
  /\ Return(p)
  /\ UNCHANGED <<disk, holder, downloaders>>

CheckMiss(p) ==
  /\ pc[p] \in {"ensure_check", "adopt_check"}
  /\ ~Hit(loc[p].digest)
  /\ Goto(p, IF At(p, "ensure_check") THEN "ensure_wait" ELSE "adopt_wait")
  /\ UNCHANGED <<disk, holder, downloaders, loc>>

\* Somebody else completed the acquisition meanwhile.
LockedHit(p) ==
  /\ pc[p] \in {"ensure_wait", "adopt_wait"}
  /\ holder = None
  /\ Hit(loc[p].digest)
  /\ Return(p)
  /\ UNCHANGED <<disk, holder, downloaders>>

EnsureLocked(p) ==
  /\ At(p, "ensure_wait")
  /\ Lock(p)
  /\ ~Hit(loc[p].digest)
  /\ BeginStaging(p)
  /\ downloaders' = downloaders \cup {[target |-> Target(p), owner |-> p]}
  /\ Goto(p, "download")
  /\ UNCHANGED <<files, receipts, loc>>

\* SDK Manager writes a file in several steps, and may do so over a good one.
SdkManagerWrites(t, k) ==
  /\ \E w \in downloaders : w.target = t
  /\ \E c \in {"good", "bad"} :
       files' = [files EXCEPT ![<<t, "root", k>>] = c]
  /\ UNCHANGED <<holder, receipts, stagings, asides, downloaders, pc, loc>>

DownloadEnds(p) ==
  /\ At(p, "download")
  /\ downloaders' = downloaders \ {[target |-> Target(p), owner |-> p]}
  /\ Goto(p, "verify")
  /\ UNCHANGED <<disk, holder, loc>>

\* SDK Manager exits with an error.
DownloadFails(p) ==
  /\ At(p, "download")
  /\ Fault
  /\ downloaders' = downloaders \ {[target |-> Target(p), owner |-> p]}
  /\ Fail(p)
  /\ UNCHANGED <<files, receipts, asides>>

Verify(p) ==
  /\ At(p, "verify")
  /\ \E found \in Located :
       /\ Verifies(Target(p), found)
       /\ loc' = [loc EXCEPT ![p].found = found]
  /\ Goto(p, "publish")
  /\ UNCHANGED <<disk, holder, downloaders>>

\* Missing, ambiguous or wrong bytes.
VerifyFails(p) ==
  /\ At(p, "verify")
  /\ \A found \in Located : ~Verifies(Target(p), found)
  /\ Fail(p)
  /\ UNCHANGED <<files, receipts, asides, downloaders>>

\* SDK Manager's reference files for the target are missing or ambiguous.
ReferenceFails(p) ==
  /\ At(p, "verify")
  /\ Fault
  /\ Fail(p)
  /\ UNCHANGED <<files, receipts, asides, downloaders>>

OrphanExits(w) ==
  /\ w \in downloaders
  /\ w.owner = None
  /\ downloaders' = downloaders \ {w}
  /\ UNCHANGED <<disk, holder, pc, loc>>

-----------------------------------------------------------------------------
(* _publish_staging_directory of a receipt: what is there is moved aside,  *)
(* the staging directory takes its name, the old one is removed.           *)

PublishAside(p) ==
  LET d == loc[p].digest IN
  /\ At(p, "publish")
  /\ IF receipts[d] = None
     THEN UNCHANGED <<receipts, asides>>
     ELSE /\ receipts' = [receipts EXCEPT ![d] = None]
          /\ asides' = asides \cup {d}
  /\ loc' = [loc EXCEPT ![p].before = receipts[d]]
  /\ Goto(p, "publish_swap")
  /\ UNCHANGED <<holder, files, stagings, downloaders>>

PublishSwap(p) ==
  /\ At(p, "publish_swap")
  /\ receipts' = [receipts EXCEPT ![loc[p].digest] = loc[p].found]
  /\ stagings' = stagings \ {OwnStaging(p)}
  /\ Goto(p, "publish_tidy")
  /\ UNCHANGED <<holder, files, asides, downloaders, loc>>

\* The receipt cannot be written, or one of the two renames fails; after the
\* second the old directory gets its name back.
PublishFails(p) ==
  LET d == loc[p].digest IN
  /\ Fault
  /\ \/ At(p, "publish") /\ UNCHANGED <<receipts, asides>>
     \/ /\ At(p, "publish_swap")
        /\ receipts' = [receipts EXCEPT ![d] = loc[p].before]
        /\ asides' = asides \ {d}
  /\ Fail(p)
  /\ UNCHANGED <<files, downloaders>>

PublishTidy(p) ==
  /\ At(p, "publish_tidy")
  /\ \/ asides' = asides \ {loc[p].digest}
     \/ Fault /\ UNCHANGED asides
  /\ Unlock
  /\ Return(p)
  /\ UNCHANGED <<files, receipts, stagings, downloaders>>

-----------------------------------------------------------------------------
(* adopt_sdk_manager_acquisition: the copies are verified in a directory   *)
(* outside the download folder and published there before the receipt is.  *)

\* The user's folder was verified; it is not written to.
AdoptRequest(p, d) ==
  /\ "adopt" \in Enabled
  /\ At(p, "idle")
  /\ SlotAvailable(d.target)
  /\ Goto(p, "adopt_check")
  /\ loc' = [loc EXCEPT ![p].digest = d]
  /\ UNCHANGED <<disk, holder, downloaders>>

AdoptLocked(p) ==
  /\ At(p, "adopt_wait")
  /\ Lock(p)
  /\ ~Hit(loc[p].digest)
  /\ BeginStaging(p)
  /\ Goto(p, "adopt_copy")
  /\ UNCHANGED <<files, receipts, downloaders, loc>>

AdoptCopied(p) ==
  /\ At(p, "adopt_copy")
  /\ Goto(p, "adopt_aside")
  /\ UNCHANGED <<disk, holder, downloaders, loc>>

\* The files of target t after os.replace(from, to).
Renamed(t, from, to) ==
  [f \in DOMAIN files |->
     CASE f[1] = t /\ f[2] = to   -> files[<<t, from, f[3]>>]
       [] f[1] = t /\ f[2] = from -> "absent"
       [] OTHER                   -> files[f]]

AdoptAside(p) ==
  LET t == Target(p) IN
  /\ At(p, "adopt_aside")
  /\ IF \A k \in Kinds : files[<<t, "adopted", k>>] = "absent"
     THEN UNCHANGED <<files, loc>>
     ELSE \E s \in Stales :
            /\ SlotFree(t, s)
            /\ files' = Renamed(t, "adopted", s)
            /\ loc' = [loc EXCEPT ![p].slot = s]
  /\ Goto(p, "adopt_swap")
  /\ UNCHANGED <<holder, receipts, stagings, asides, downloaders>>

AdoptSwap(p) ==
  /\ At(p, "adopt_swap")
  /\ files' = [f \in DOMAIN files |->
       IF f[1] = Target(p) /\ f[2] = "adopted" THEN "good" ELSE files[f]]
  /\ Goto(p, "adopt_tidy")
  /\ UNCHANGED <<holder, receipts, stagings, asides, downloaders, loc>>

\* A failure before the artifacts are published, or at the rename that
\* publishes them: what was moved aside gets its name back.
AdoptFails(p) ==
  LET t == Target(p) IN
  /\ Fault
  /\ \/ pc[p] \in {"adopt_copy", "adopt_aside"} /\ UNCHANGED files
     \/ /\ At(p, "adopt_swap")
        /\ files' = IF loc[p].slot = None THEN files
                    ELSE Renamed(t, loc[p].slot, "adopted")
  /\ Fail(p)
  /\ UNCHANGED <<receipts, asides, downloaders>>

\* shutil.rmtree(stale, ignore_errors=True), and the receipt names the copies.
AdoptTidy(p) ==
  /\ At(p, "adopt_tidy")
  /\ \E kept \in SUBSET Kinds :
       /\ Fault \/ kept = {}
       /\ files' = [f \in DOMAIN files |->
            IF f[1] = Target(p) /\ f[2] = loc[p].slot /\ f[3] \notin kept
            THEN "absent" ELSE files[f]]
  /\ loc' = [loc EXCEPT ![p].found = [k \in Kinds |-> "adopted"], ![p].slot = None]
  /\ Goto(p, "publish")
  /\ UNCHANGED <<holder, receipts, stagings, asides, downloaders>>

-----------------------------------------------------------------------------
(* ostg storage delete sdkm-cache: the entries of the download folder, one *)
(* by one, under the acquisition lock.  Receipts stay.                     *)

DeleteRequest(p) ==
  /\ "delete" \in Enabled
  /\ At(p, "idle")
  /\ Goto(p, "delete_wait")
  /\ UNCHANGED <<disk, holder, downloaders, loc>>

DeleteLocked(p) ==
  /\ At(p, "delete_wait")
  /\ Lock(p)
  /\ Goto(p, "delete")
  /\ UNCHANGED <<disk, downloaders, loc>>

DeleteFile(p, f) ==
  /\ At(p, "delete")
  /\ files[f] # "absent"
  /\ files' = [files EXCEPT ![f] = "absent"]
  /\ UNCHANGED <<holder, receipts, stagings, asides, downloaders, pc, loc>>

\* The entries were listed once, so one that appears meanwhile may stay.
DeleteEnds(p) ==
  /\ At(p, "delete")
  /\ \/ \A f \in DOMAIN files : files[f] = "absent"
     \/ downloaders # {}
     \/ Fault
  /\ Unlock
  /\ Return(p)
  /\ UNCHANGED <<disk, downloaders>>

-----------------------------------------------------------------------------
(* A process is killed.  Its directories stay; SDK Manager, a child of its *)
(* own, dies with it or goes on ("orphan").                                *)

Disown(set, p) == {s \in set : s.owner # p}

Crash(p) ==
  /\ "crash" \in Enabled
  /\ ~At(p, "idle")
  /\ holder' = IF holder = p THEN None ELSE holder
  /\ stagings' = Disown(stagings, p)
       \cup {[s EXCEPT !.owner = None] : s \in {x \in stagings : x.owner = p}}
  /\ downloaders' = Disown(downloaders, p)
       \cup {[w EXCEPT !.owner = None] :
               w \in {x \in downloaders : x.owner = p /\ "orphan" \in Enabled}}
  /\ Return(p)
  /\ UNCHANGED <<files, receipts, asides>>

-----------------------------------------------------------------------------

Ensure(p) ==
  \/ \E d \in Digests : EnsureRequest(p, d)
  \/ EnsureLocked(p) \/ DownloadEnds(p) \/ DownloadFails(p)
  \/ Verify(p) \/ VerifyFails(p) \/ ReferenceFails(p)

Adopt(p) ==
  \/ \E d \in Digests : AdoptRequest(p, d)
  \/ AdoptLocked(p) \/ AdoptCopied(p) \/ AdoptAside(p) \/ AdoptSwap(p)
  \/ AdoptTidy(p) \/ AdoptFails(p)

Publish(p) == PublishAside(p) \/ PublishSwap(p) \/ PublishFails(p) \/ PublishTidy(p)

Delete(p) ==
  \/ DeleteRequest(p) \/ DeleteLocked(p) \/ DeleteEnds(p)
  \/ \E f \in Targets \X Places \X Kinds : DeleteFile(p, f)

Process(p) ==
  \/ CheckHit(p) \/ CheckMiss(p) \/ LockedHit(p)
  \/ Ensure(p) \/ Adopt(p) \/ Publish(p) \/ Delete(p)

SdkManager ==
  \/ \E t \in Targets, k \in Kinds : SdkManagerWrites(t, k)
  \/ \E w \in downloaders : OrphanExits(w)

Next ==
  \/ \E p \in Procs : Process(p) \/ Crash(p)
  \/ SdkManager

Spec == Init /\ [][Next]_vars

=============================================================================
