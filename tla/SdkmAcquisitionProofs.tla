------------------------ MODULE SdkmAcquisitionProofs ------------------------
(***************************************************************************)
(* Theorems about SdkmAcquisition for every set of processes, targets,     *)
(* versions, artifacts and stale directories, and every set of enabled     *)
(* commands and failures.                                                  *)
(***************************************************************************)
EXTENDS SdkmProperties, TLAPS

USE DEF Steps, LockedSteps, DownloadSteps, AdoptSteps, PublishSteps, At, Goto,
        Return, Unlock, Fail

-----------------------------------------------------------------------------
(* Types.                                                                  *)

FilesOK == files \in [Targets \X Places \X Kinds -> Conditions]
ControlOK == pc \in [Procs -> Steps] /\ loc \in [Procs -> Local]
SharedOK ==
  /\ holder \in Procs \cup {None}
  /\ receipts \in [Digests -> Located \cup {None}]
  /\ stagings \subseteq Staging
  /\ asides \subseteq Digests
  /\ downloaders \subseteq Downloader

LEMMA TypeParts == TypeOK <=> FilesOK /\ ControlOK /\ SharedOK
BY DEF TypeOK, FilesOK, ControlOK, SharedOK

LEMMA NoLocalTyped == NoLocal \in Local
BY DEF NoLocal, Local

LEMMA DigestTarget == ASSUME NEW d \in Digests PROVE d.target \in Targets
BY DEF Digests

LEMMA EveryPlace == {"root", "adopted"} \cup Stales = Places
BY DEF Places

LEMMA LocalUpdated ==
  ASSUME NEW r \in Local
  PROVE  /\ \A d \in Digests : [r EXCEPT !.digest = d] \in Local
         /\ \A s \in Stales : [r EXCEPT !.slot = s] \in Local
         /\ \A x \in Located \cup {None} : /\ [r EXCEPT !.found = x] \in Local
                                        /\ [r EXCEPT !.before = x] \in Local
         /\ \A x \in Located : [r EXCEPT !.found = x, !.slot = None] \in Local
BY DEF Local

\* A process moves and changes its local variables.
LEMMA Moves ==
  ASSUME ControlOK, NEW p \in Procs, NEW s \in Steps, NEW r \in Local,
         Goto(p, s), loc' = [loc EXCEPT ![p] = r]
  PROVE  ControlOK'
BY DEF ControlOK

LEMMA ControlTyped ==
  ASSUME TypeOK, AcquisitionKnown, NEW p \in Procs, Process(p) \/ Crash(p)
  PROVE  ControlOK'
<1> USE NoLocalTyped DEF TypeOK, ControlOK
<1>0. ControlOK /\ loc[p] \in Local
  BY DEF ControlOK
<1>1. ASSUME NEW d \in Digests, EnsureRequest(p, d) \/ AdoptRequest(p, d)
      PROVE  ControlOK'
  <2>1. [loc[p] EXCEPT !.digest = d] \in Local
    BY <1>0, LocalUpdated
  <2>2. loc' = [loc EXCEPT ![p] = [loc[p] EXCEPT !.digest = d]]
    BY <1>1 DEF EnsureRequest, AdoptRequest
  <2>3. QED BY <1>0, <1>1, <2>1, <2>2, Moves DEF EnsureRequest, AdoptRequest
<1>2. CASE CheckHit(p) \/ CheckMiss(p) \/ LockedHit(p)
  BY <1>2 DEF CheckHit, CheckMiss, LockedHit
<1>3. CASE EnsureLocked(p) \/ DownloadEnds(p) \/ DownloadFails(p)
  BY <1>3 DEF EnsureLocked, DownloadEnds, DownloadFails
<1>4. CASE Verify(p) \/ VerifyFails(p) \/ ReferenceFails(p)
  <2>1. CASE Verify(p)
    <3>1. PICK found \in Located : loc' = [loc EXCEPT ![p] = [loc[p] EXCEPT !.found = found]]
      BY <2>1 DEF Verify
    <3>2. [loc[p] EXCEPT !.found = found] \in Local
      BY <1>0, LocalUpdated
    <3>3. QED BY <1>0, <2>1, <3>1, <3>2, Moves DEF Verify
  <2>2. CASE VerifyFails(p) \/ ReferenceFails(p)
    BY <2>2 DEF VerifyFails, ReferenceFails
  <2>3. QED BY <1>4, <2>1, <2>2
<1>5. CASE AdoptLocked(p) \/ AdoptCopied(p) \/ AdoptSwap(p) \/ AdoptFails(p)
  BY <1>5 DEF AdoptLocked, AdoptCopied, AdoptSwap, AdoptFails
<1>6. CASE AdoptAside(p)
  <2>1. CASE UNCHANGED loc
    BY <1>6, <2>1 DEF AdoptAside
  <2>2. CASE \E s \in Stales : loc' = [loc EXCEPT ![p].slot = s]
    <3>1. PICK s \in Stales : loc' = [loc EXCEPT ![p] = [loc[p] EXCEPT !.slot = s]]
      BY <2>2
    <3>2. [loc[p] EXCEPT !.slot = s] \in Local
      BY <1>0, LocalUpdated
    <3>3. QED BY <1>0, <1>6, <3>1, <3>2, Moves DEF AdoptAside
  <2>3. QED BY <1>6, <2>1, <2>2 DEF AdoptAside
<1>7. CASE AdoptTidy(p)
  <2>1. [k \in Kinds |-> "adopted"] \in Located
    BY DEF Located, Places
  <2>2. QED BY <1>7, <2>1 DEF AdoptTidy, Local
<1>8. CASE Publish(p)
  <2>1. CASE PublishAside(p)
    <3>1. receipts[loc[p].digest] \in Located \cup {None}
      BY <2>1 DEF PublishAside, AcquisitionKnown
    <3>2. [loc[p] EXCEPT !.before = receipts[loc[p].digest]] \in Local
      BY <1>0, <3>1, LocalUpdated
    <3>3. QED BY <1>0, <2>1, <3>2, Moves DEF PublishAside
  <2>2. CASE PublishSwap(p) \/ PublishFails(p) \/ PublishTidy(p)
    BY <2>2 DEF PublishSwap, PublishFails, PublishTidy
  <2>3. QED BY <1>8, <2>1, <2>2 DEF Publish
<1>9. CASE Delete(p)
  BY <1>9 DEF Delete, DeleteRequest, DeleteLocked, DeleteEnds, DeleteFile
<1>10. CASE Crash(p)
  BY <1>10 DEF Crash
<1>11. QED
  BY <1>1, <1>2, <1>3, <1>4, <1>5, <1>6, <1>7, <1>8, <1>9, <1>10 DEF Process, Ensure, Adopt

LEMMA FilesTyped ==
  ASSUME TypeOK, AcquisitionKnown, Next
  PROVE  FilesOK'
<1> USE DEF TypeOK, FilesOK, Conditions
<1>0. DOMAIN files = Targets \X Places \X Kinds
  OBVIOUS
<1>1. ASSUME NEW p \in Procs, CheckHit(p) \/ CheckMiss(p) \/ LockedHit(p) \/ Ensure(p)
      PROVE  FilesOK'
  BY <1>1 DEF CheckHit, CheckMiss, LockedHit, Ensure, EnsureRequest, EnsureLocked,
     DownloadEnds, DownloadFails, Verify, VerifyFails, ReferenceFails, disk
<1>2. ASSUME NEW p \in Procs, Publish(p) \/ Crash(p) PROVE FilesOK'
  BY <1>2 DEF Publish, PublishAside, PublishSwap, PublishFails, PublishTidy, Crash
<1>3. ASSUME NEW p \in Procs, Delete(p) PROVE FilesOK'
  BY <1>3 DEF Delete, DeleteRequest, DeleteLocked, DeleteEnds, DeleteFile, disk
<1>4. ASSUME NEW p \in Procs, pc[p] \in AdoptSteps
      PROVE  \A place \in Places, k \in Kinds :
               files[<<Target(p), place, k>>] \in Conditions
  BY <1>4 DEF AcquisitionKnown, Target, Digests
<1>5. ASSUME NEW p \in Procs, Adopt(p) PROVE FilesOK'
  <2>0. ASSUME NEW from \in Places, NEW to \in Places, pc[p] \in AdoptSteps
        PROVE  Renamed(Target(p), from, to) \in [Targets \X Places \X Kinds -> Conditions]
    <3>1. \A k \in Kinds : files[<<Target(p), from, k>>] \in Conditions
      BY <1>4, <2>0
    <3>2. QED BY <1>0, <3>1 DEF Renamed
  <2>1. CASE AdoptAside(p)
    <3>1. "adopted" \in Places /\ Stales \subseteq Places
      BY DEF Places
    <3>2. CASE UNCHANGED files
      BY <3>2
    <3>3. CASE \E s \in Stales : files' = Renamed(Target(p), "adopted", s)
      BY <2>0, <2>1, <3>1, <3>3 DEF AdoptAside
    <3>4. QED BY <2>1, <3>2, <3>3 DEF AdoptAside
  <2>2. CASE AdoptSwap(p) \/ AdoptTidy(p)
    BY <1>0, <2>2 DEF AdoptSwap, AdoptTidy
  <2>3. CASE AdoptFails(p)
    <3>1. loc[p].slot \in Places \cup {None} /\ "adopted" \in Places
      BY DEF Local, Places
    <3>2. QED BY <2>0, <2>3, <3>1 DEF AdoptFails
  <2>4. CASE AdoptLocked(p) \/ AdoptCopied(p) \/ \E d \in Digests : AdoptRequest(p, d)
    BY <2>4 DEF AdoptLocked, AdoptCopied, AdoptRequest, disk
  <2>5. QED BY <1>5, <2>1, <2>2, <2>3, <2>4 DEF Adopt
<1>6. CASE SdkManager
  BY <1>6 DEF SdkManager, SdkManagerWrites, OrphanExits, disk
<1>7. QED BY <1>1, <1>2, <1>3, <1>5, <1>6 DEF Next, Process

\* What a process puts on disk or starts is its own.
LEMMA OwnTyped ==
  ASSUME NEW p \in Procs, loc[p].digest \in Digests
  PROVE  /\ OwnStaging(p) \in Staging
         /\ [target |-> Target(p), owner |-> p] \in Downloader
BY DEF OwnStaging, Staging, Downloader, Target, Digests

LEMMA SharedTyped ==
  ASSUME TypeOK, AcquisitionKnown, Next
  PROVE  SharedOK'
<1> USE DEF TypeOK, SharedOK, AcquisitionKnown
<1>1. ASSUME NEW p \in Procs, CheckHit(p) \/ CheckMiss(p) \/ LockedHit(p) PROVE SharedOK'
  BY <1>1 DEF CheckHit, CheckMiss, LockedHit, disk
<1>2. ASSUME NEW p \in Procs, Ensure(p) PROVE SharedOK'
  <2>1. CASE EnsureLocked(p)
    BY <2>1, OwnTyped DEF EnsureLocked, Lock, BeginStaging
  <2>2. CASE \E d \in Digests : EnsureRequest(p, d)
    BY <2>2 DEF EnsureRequest, disk
  <2>3. CASE DownloadEnds(p) \/ DownloadFails(p) \/ Verify(p) \/ VerifyFails(p) \/ ReferenceFails(p)
    BY <2>3 DEF DownloadEnds, DownloadFails, Verify, VerifyFails, ReferenceFails, disk
  <2>4. QED BY <1>2, <2>1, <2>2, <2>3 DEF Ensure
<1>3. ASSUME NEW p \in Procs, Adopt(p) PROVE SharedOK'
  <2>1. CASE AdoptLocked(p)
    BY <2>1, OwnTyped DEF AdoptLocked, Lock, BeginStaging
  <2>2. CASE AdoptCopied(p) \/ \E d \in Digests : AdoptRequest(p, d)
    BY <2>2 DEF AdoptRequest, AdoptCopied, disk
  <2>3. CASE AdoptAside(p) \/ AdoptSwap(p) \/ AdoptTidy(p) \/ AdoptFails(p)
    BY <2>3 DEF AdoptAside, AdoptSwap, AdoptTidy, AdoptFails
  <2>4. QED BY <1>3, <2>1, <2>2, <2>3 DEF Adopt
<1>4. ASSUME NEW p \in Procs, Publish(p) PROVE SharedOK'
  <2>0. loc[p].before \in Located \cup {None}
    BY DEF Local
  <2>1. CASE PublishAside(p)
    BY <2>1 DEF PublishAside
  <2>2. CASE PublishSwap(p)
    BY <2>2 DEF PublishSwap
  <2>3. CASE PublishFails(p)
    BY <2>0, <2>3 DEF PublishFails
  <2>4. CASE PublishTidy(p)
    BY <2>4 DEF PublishTidy
  <2>5. QED BY <1>4, <2>1, <2>2, <2>3, <2>4 DEF Publish
<1>5. ASSUME NEW p \in Procs, Delete(p) PROVE SharedOK'
  BY <1>5 DEF Delete, DeleteRequest, DeleteLocked, DeleteEnds, DeleteFile, Lock, disk
<1>6. ASSUME NEW p \in Procs, Crash(p) PROVE SharedOK'
  <2>1. \A s \in Staging : [s EXCEPT !.owner = None] \in Staging
    BY DEF Staging
  <2>2. \A w \in Downloader : [w EXCEPT !.owner = None] \in Downloader
    BY DEF Downloader
  <2>3. QED BY <1>6, <2>1, <2>2 DEF Crash, Disown
<1>7. CASE SdkManager
  BY <1>7 DEF SdkManager, SdkManagerWrites, OrphanExits, disk
<1>8. QED BY <1>1, <1>2, <1>3, <1>4, <1>5, <1>6, <1>7 DEF Next, Process

LEMMA TypeStep ==
  ASSUME TypeOK, AcquisitionKnown, [Next]_vars
  PROVE  TypeOK'
<1>1. CASE UNCHANGED vars
  BY <1>1 DEF TypeOK, vars, disk
<1>2. CASE Next
  <2>1. ControlOK'
    <3>1. CASE SdkManager
      BY <3>1 DEF TypeOK, ControlOK, SdkManager, SdkManagerWrites, OrphanExits
    <3>2. QED BY <1>2, <3>1, ControlTyped DEF Next
  <2>2. QED BY <1>2, <2>1, FilesTyped, SharedTyped DEF TypeOK, FilesOK, ControlOK, SharedOK
<1>3. QED BY <1>1, <1>2

-----------------------------------------------------------------------------
(* The lock.                                                               *)

\* A process changes only its own control point and local variables.
LEMMA OthersStand ==
  ASSUME TypeOK, NEW p \in Procs, Process(p) \/ Crash(p),
         NEW q \in Procs, q # p
  PROVE  pc'[q] = pc[q] /\ loc'[q] = loc[q]
<1> USE DEF TypeOK
<1>1. CASE CheckHit(p) \/ CheckMiss(p) \/ LockedHit(p) \/ Ensure(p)
  BY <1>1 DEF CheckHit, CheckMiss, LockedHit, Ensure, EnsureRequest, EnsureLocked,
     DownloadEnds, DownloadFails, Verify, VerifyFails, ReferenceFails
<1>2. CASE Adopt(p)
  BY <1>2 DEF Adopt, AdoptRequest, AdoptLocked, AdoptCopied, AdoptAside, AdoptSwap,
     AdoptTidy, AdoptFails
<1>3. CASE Publish(p) \/ Crash(p)
  BY <1>3 DEF Publish, PublishAside, PublishSwap, PublishFails, PublishTidy, Crash
<1>4. CASE Delete(p)
  BY <1>4 DEF Delete, DeleteRequest, DeleteLocked, DeleteEnds, DeleteFile
<1>5. QED BY <1>1, <1>2, <1>3, <1>4 DEF Process

\* One process at most is at a step that needs the lock.
LEMMA Alone ==
  ASSUME LockOwned, NEW p \in Procs, NEW q \in Procs,
         pc[p] \in LockedSteps, pc[q] \in LockedSteps
  PROVE  p = q
BY DEF LockOwned

LEMMA LockStep ==
  ASSUME TypeOK, LockOwned, [Next]_vars
  PROVE  LockOwned'
<1> USE AbsenceIsNew DEF TypeOK, LockOwned
<1>1. ASSUME NEW p \in Procs, CheckHit(p) \/ CheckMiss(p) \/ LockedHit(p) PROVE LockOwned'
  BY <1>1 DEF CheckHit, CheckMiss, LockedHit
<1>2. ASSUME NEW p \in Procs, Ensure(p) PROVE LockOwned'
  <2>1. CASE \E d \in Digests : EnsureRequest(p, d)
    BY <2>1 DEF EnsureRequest
  <2>2. CASE EnsureLocked(p)
    BY <2>2 DEF EnsureLocked, Lock
  <2>3. CASE DownloadEnds(p) \/ Verify(p)
    BY <2>3 DEF DownloadEnds, Verify
  <2>4. CASE DownloadFails(p) \/ VerifyFails(p) \/ ReferenceFails(p)
    BY <2>4 DEF DownloadFails, VerifyFails, ReferenceFails
  <2>5. QED BY <1>2, <2>1, <2>2, <2>3, <2>4 DEF Ensure
<1>3. ASSUME NEW p \in Procs, Adopt(p) PROVE LockOwned'
  <2>1. CASE \E d \in Digests : AdoptRequest(p, d)
    BY <2>1 DEF AdoptRequest
  <2>2. CASE AdoptLocked(p)
    BY <2>2 DEF AdoptLocked, Lock
  <2>3. CASE AdoptCopied(p) \/ AdoptAside(p) \/ AdoptSwap(p) \/ AdoptTidy(p)
    BY <2>3 DEF AdoptCopied, AdoptAside, AdoptSwap, AdoptTidy
  <2>4. CASE AdoptFails(p)
    BY <2>4 DEF AdoptFails
  <2>5. QED BY <1>3, <2>1, <2>2, <2>3, <2>4 DEF Adopt
<1>4. ASSUME NEW p \in Procs, Publish(p) PROVE LockOwned'
  BY <1>4 DEF Publish, PublishAside, PublishSwap, PublishFails, PublishTidy
<1>5. ASSUME NEW p \in Procs, Delete(p) PROVE LockOwned'
  BY <1>5 DEF Delete, DeleteRequest, DeleteLocked, DeleteEnds, DeleteFile, Lock
<1>6. ASSUME NEW p \in Procs, Crash(p) PROVE LockOwned'
  BY <1>6 DEF Crash
<1>7. CASE SdkManager \/ UNCHANGED vars
  BY <1>7 DEF SdkManager, SdkManagerWrites, OrphanExits, vars
<1>8. QED BY <1>1, <1>2, <1>3, <1>4, <1>5, <1>6, <1>7 DEF Next, Process

LEMMA KnownStep ==
  ASSUME TypeOK, AcquisitionKnown, [Next]_vars
  PROVE  AcquisitionKnown'
<1> USE DEF TypeOK, AcquisitionKnown
<1>2. ASSUME NEW p \in Procs, CheckHit(p) \/ CheckMiss(p) \/ LockedHit(p)
      PROVE AcquisitionKnown'
  BY <1>2 DEF CheckHit, CheckMiss, LockedHit
<1>3. ASSUME NEW p \in Procs, Ensure(p) PROVE AcquisitionKnown'
  <2>1. CASE \E d \in Digests : EnsureRequest(p, d)
    BY <2>1 DEF EnsureRequest, Local
  <2>2. CASE EnsureLocked(p) \/ DownloadEnds(p)
    BY <2>2 DEF EnsureLocked, DownloadEnds
  <2>3. CASE Verify(p)
    BY <2>3 DEF Verify, Local
  <2>4. CASE DownloadFails(p) \/ VerifyFails(p) \/ ReferenceFails(p)
    BY <2>4 DEF DownloadFails, VerifyFails, ReferenceFails
  <2>5. QED BY <1>3, <2>1, <2>2, <2>3, <2>4 DEF Ensure
<1>4. ASSUME NEW p \in Procs, Adopt(p) PROVE AcquisitionKnown'
  <2>1. CASE \E d \in Digests : AdoptRequest(p, d)
    BY <2>1 DEF AdoptRequest, Local
  <2>2. CASE AdoptLocked(p) \/ AdoptCopied(p) \/ AdoptSwap(p) \/ AdoptFails(p)
    BY <2>2 DEF AdoptLocked, AdoptCopied, AdoptSwap, AdoptFails
  <2>3. CASE AdoptAside(p)
    BY <2>3 DEF AdoptAside, Local
  <2>4. CASE AdoptTidy(p)
    <3>1. [k \in Kinds |-> "adopted"] \in Located
      BY DEF Located, Places
    <3>2. QED BY <2>4, <3>1 DEF AdoptTidy, Local
  <2>5. QED BY <1>4, <2>1, <2>2, <2>3, <2>4 DEF Adopt
<1>5. ASSUME NEW p \in Procs, Publish(p) PROVE AcquisitionKnown'
  BY <1>5 DEF Publish, PublishAside, PublishSwap, PublishFails, PublishTidy, Local
<1>6. ASSUME NEW p \in Procs, Delete(p) PROVE AcquisitionKnown'
  BY <1>6 DEF Delete, DeleteRequest, DeleteLocked, DeleteEnds, DeleteFile
<1>7. ASSUME NEW p \in Procs, Crash(p) PROVE AcquisitionKnown'
  BY <1>7 DEF Crash
<1>8. CASE SdkManager \/ UNCHANGED vars
  BY <1>8 DEF SdkManager, SdkManagerWrites, OrphanExits, vars
<1>9. QED BY <1>2, <1>3, <1>4, <1>5, <1>6, <1>7, <1>8 DEF Next, Process

-----------------------------------------------------------------------------
(* The staging directories of receipts.                                    *)

Staged == DownloadSteps \cup AdoptSteps \cup PublishSteps

StagingOK == LiveReceiptStagingKept /\ StagingBounded

\* Nobody starts, ends or fails an acquisition.
LEMMA StagingStands ==
  ASSUME TypeOK, StagingOK, UNCHANGED stagings,
         \A q \in Procs : pc'[q] \in Staged => pc[q] \in Staged /\ loc'[q].digest = loc[q].digest
  PROVE  StagingOK'
BY DEF StagingOK, LiveReceiptStagingKept, StagingBounded, Staged, OwnStaging

\* Steps of processes that own no staging directory, and of those that keep it.
LEMMA StagingMoves ==
  ASSUME TypeOK, AcquisitionKnown, StagingOK, UNCHANGED stagings, NEW p \in Procs,
         Process(p), pc'[p] \in Staged => pc[p] \in Staged /\ loc'[p].digest = loc[p].digest
  PROVE  StagingOK'
<1>1. \A q \in Procs : q # p => pc'[q] = pc[q] /\ loc'[q] = loc[q]
  BY OthersStand
<1>2. QED BY <1>1, StagingStands

\* The holder of the lock removes what a dead process left, and has its own.
LEMMA StagingBegins ==
  ASSUME TypeOK, LockOwned, StagingOK, NEW p \in Procs, Process(p),
         Lock(p), BeginStaging(p), UNCHANGED loc
  PROVE  StagingOK'
<1>1. \A q \in Procs : q # p => pc'[q] \notin Staged
  BY AbsenceIsNew, OthersStand DEF LockOwned, Lock, Staged
<1>2. LiveReceiptStagingKept'
  BY <1>1 DEF LiveReceiptStagingKept, BeginStaging, OwnStaging, Staged
<1>3. StagingBounded'
  BY DEF StagingOK, StagingBounded, BeginStaging, OwnStaging
<1>4. QED BY <1>2, <1>3 DEF StagingOK

\* A process that ends its acquisition removes its own directory and no other.
LEMMA StagingEnds ==
  ASSUME TypeOK, StagingOK, NEW p \in Procs, Process(p),
         stagings' = stagings \ {OwnStaging(p)}, pc'[p] \notin Staged
  PROVE  StagingOK'
<1>1. \A q \in Procs : q # p => /\ pc'[q] = pc[q] /\ loc'[q] = loc[q]
                             /\ OwnStaging(q) # OwnStaging(p)
  BY OthersStand DEF OwnStaging
<1>2. LiveReceiptStagingKept'
  BY <1>1 DEF StagingOK, LiveReceiptStagingKept, OwnStaging, Staged
<1>3. QED BY <1>2 DEF StagingOK, StagingBounded

\* A dead process leaves its directory, which no longer has an owner.
LEMMA StagingAbandoned ==
  ASSUME TypeOK, StagingOK, NEW p \in Procs, Crash(p)
  PROVE  StagingOK'
<1>1. \A q \in Procs : q # p => pc'[q] = pc[q] /\ loc'[q] = loc[q]
  BY OthersStand
<1>2. pc'[p] = "idle"
  BY DEF TypeOK, Crash
<1>3. LiveReceiptStagingKept'
  <2>1. ASSUME NEW q \in Procs, q # p, OwnStaging(q) \in stagings
        PROVE  OwnStaging(q) \in stagings'
    BY <2>1 DEF Crash, Disown, OwnStaging
  <2>2. QED BY <1>1, <1>2, <2>1 DEF StagingOK, LiveReceiptStagingKept, OwnStaging
<1>4. ASSUME NEW s \in stagings'
      PROVE  \E x \in stagings : s = IF x.owner = p THEN [x EXCEPT !.owner = None] ELSE x
  BY DEF Crash, Disown
<1>5. \A x \in stagings : [x EXCEPT !.owner = None].digest = x.digest
  BY DEF TypeOK, Staging
<1>6. StagingBounded'
  <2> SUFFICES ASSUME NEW s1 \in stagings', NEW s2 \in stagings', s1.digest = s2.digest
               PROVE  s1 = s2
    BY DEF StagingBounded
  <2>1. PICK x1 \in stagings : s1 = IF x1.owner = p THEN [x1 EXCEPT !.owner = None] ELSE x1
    BY <1>4
  <2>2. PICK x2 \in stagings : s2 = IF x2.owner = p THEN [x2 EXCEPT !.owner = None] ELSE x2
    BY <1>4
  <2>3. x1.digest = x2.digest
    BY <1>5, <2>1, <2>2
  <2>4. QED BY <2>1, <2>2, <2>3 DEF StagingOK, StagingBounded
<1>7. QED BY <1>3, <1>6 DEF StagingOK

LEMMA StagingStep ==
  ASSUME TypeOK, LockOwned, AcquisitionKnown, StagingOK, [Next]_vars
  PROVE  StagingOK'
<1> USE DEF Staged, TypeOK
<1>1. ASSUME NEW p \in Procs, CheckHit(p) \/ CheckMiss(p) \/ LockedHit(p)
      PROVE  StagingOK'
  BY <1>1, StagingMoves DEF Process, CheckHit, CheckMiss, LockedHit, disk
<1>2. ASSUME NEW p \in Procs, Ensure(p) PROVE StagingOK'
  <2>0. Process(p)
    BY <1>2 DEF Process
  <2>1. CASE \E d \in Digests : EnsureRequest(p, d)
    BY <2>0, <2>1, StagingMoves DEF EnsureRequest, disk
  <2>2. CASE EnsureLocked(p)
    BY <2>0, <2>2, StagingBegins DEF EnsureLocked
  <2>3. CASE DownloadEnds(p)
    BY <2>0, <2>3, StagingMoves DEF DownloadEnds, disk
  <2>4. CASE Verify(p)
    <3>1. loc'[p].digest = loc[p].digest
      BY <2>4 DEF Verify, Local
    <3>2. QED BY <2>0, <2>4, <3>1, StagingMoves DEF Verify, disk
  <2>5. CASE DownloadFails(p) \/ VerifyFails(p) \/ ReferenceFails(p)
    BY <2>0, <2>5, StagingEnds DEF DownloadFails, VerifyFails, ReferenceFails
  <2>6. QED BY <1>2, <2>1, <2>2, <2>3, <2>4, <2>5 DEF Ensure
<1>3. ASSUME NEW p \in Procs, Adopt(p) PROVE StagingOK'
  <2>0. Process(p)
    BY <1>3 DEF Process
  <2>1. CASE \E d \in Digests : AdoptRequest(p, d)
    BY <2>0, <2>1, StagingMoves DEF AdoptRequest, disk
  <2>2. CASE AdoptLocked(p)
    BY <2>0, <2>2, StagingBegins DEF AdoptLocked
  <2>3. CASE AdoptCopied(p) \/ AdoptSwap(p)
    BY <2>0, <2>3, StagingMoves DEF AdoptCopied, AdoptSwap, disk
  <2>4. CASE AdoptAside(p) \/ AdoptTidy(p)
    <3>1. loc'[p].digest = loc[p].digest
      BY <2>4 DEF AdoptAside, AdoptTidy, Local
    <3>2. QED BY <2>0, <2>4, <3>1, StagingMoves DEF AdoptAside, AdoptTidy
  <2>5. CASE AdoptFails(p)
    BY <2>0, <2>5, StagingEnds DEF AdoptFails
  <2>6. QED BY <1>3, <2>1, <2>2, <2>3, <2>4, <2>5 DEF Adopt
<1>4. ASSUME NEW p \in Procs, Publish(p) PROVE StagingOK'
  <2>0. Process(p)
    BY <1>4 DEF Process
  <2>1. CASE PublishAside(p)
    <3>1. loc'[p].digest = loc[p].digest
      BY <2>1 DEF PublishAside, Local
    <3>2. QED BY <2>0, <2>1, <3>1, StagingMoves DEF PublishAside
  <2>2. CASE PublishSwap(p) \/ PublishFails(p)
    BY <2>0, <2>2, StagingEnds DEF PublishSwap, PublishFails
  <2>3. CASE PublishTidy(p)
    BY <2>0, <2>3, StagingMoves DEF PublishTidy
  <2>4. QED BY <1>4, <2>1, <2>2, <2>3 DEF Publish
<1>5. ASSUME NEW p \in Procs, Delete(p) PROVE StagingOK'
  BY <1>5, StagingMoves DEF Process, Delete, DeleteRequest, DeleteLocked, DeleteEnds,
     DeleteFile, disk
<1>6. CASE SdkManager \/ UNCHANGED vars
  BY <1>6, StagingStands DEF SdkManager, SdkManagerWrites, OrphanExits, vars, disk
<1>7. QED BY <1>1, <1>2, <1>3, <1>4, <1>5, <1>6, StagingAbandoned DEF Next, Process

-----------------------------------------------------------------------------
(* The bytes of verified artifacts.                                        *)

LEMMA DownloadersStep ==
  ASSUME TypeOK, LockOwned, DownloadersOwned, "orphan" \notin Enabled, [Next]_vars
  PROVE  DownloadersOwned'
<1> USE DEF TypeOK, DownloadersOwned, Target
<1>0. ASSUME NEW p \in Procs, UNCHANGED downloaders, Process(p), ~At(p, "download")
      PROVE  DownloadersOwned'
  BY <1>0, OthersStand
<1>1. ASSUME NEW p \in Procs, CheckHit(p) \/ CheckMiss(p) \/ LockedHit(p)
      PROVE  DownloadersOwned'
  BY <1>0, <1>1 DEF Process, CheckHit, CheckMiss, LockedHit
<1>2. ASSUME NEW p \in Procs, Ensure(p) PROVE DownloadersOwned'
  <2>0. Process(p)
    BY <1>2 DEF Process
  <2>1. CASE (\E d \in Digests : EnsureRequest(p, d)) \/ Verify(p) \/ VerifyFails(p) \/ ReferenceFails(p)
    BY <1>0, <2>0, <2>1 DEF EnsureRequest, Verify, VerifyFails, ReferenceFails
  <2>2. CASE EnsureLocked(p)
    <3>1. \A q \in Procs : q # p => pc'[q] = pc[q]
      BY <2>0, OthersStand
    <3>2. QED BY <2>2, <3>1 DEF EnsureLocked
  <2>3. CASE DownloadEnds(p) \/ DownloadFails(p)
    <3>1. \A q \in Procs : q # p => pc'[q] = pc[q]
      BY <2>0, OthersStand
    <3>2. \A w \in downloaders : w.owner = p => w = [target |-> Target(p), owner |-> p]
      BY DEF Downloader
    <3>3. QED BY <2>3, <3>1, <3>2 DEF DownloadEnds, DownloadFails
  <2>4. QED BY <1>2, <2>1, <2>2, <2>3 DEF Ensure
<1>3. ASSUME NEW p \in Procs, Adopt(p) PROVE DownloadersOwned'
  BY <1>0, <1>3 DEF Process, Adopt, AdoptRequest, AdoptLocked, AdoptCopied, AdoptAside,
     AdoptSwap, AdoptTidy, AdoptFails
<1>4. ASSUME NEW p \in Procs, Publish(p) PROVE DownloadersOwned'
  BY <1>0, <1>4 DEF Process, Publish, PublishAside, PublishSwap, PublishFails, PublishTidy
<1>5. ASSUME NEW p \in Procs, Delete(p) PROVE DownloadersOwned'
  BY <1>0, <1>5 DEF Process, Delete, DeleteRequest, DeleteLocked, DeleteEnds, DeleteFile
<1>6. ASSUME NEW p \in Procs, Crash(p) PROVE DownloadersOwned'
  BY <1>6, OthersStand DEF Crash, Disown
<1>7. CASE SdkManager \/ UNCHANGED vars
  BY <1>7 DEF SdkManager, SdkManagerWrites, OrphanExits, vars
<1>8. QED BY <1>1, <1>2, <1>3, <1>4, <1>5, <1>6, <1>7 DEF Next, Process

\* The steps of which AdoptedUndisturbed and VerifiedStaysTrue speak.
Relied == PublishSteps \cup {"adopt_tidy", "publish_tidy"}

\* What both say of one process.
BytesOf(p) ==
  /\ At(p, "adopt_tidy") => \A k \in Kinds : files[<<Target(p), "adopted", k>>] = "good"
  /\ pc[p] \in PublishSteps =>
       \A k \in Kinds : files[<<Target(p), loc[p].found[k], k>>] = "good"
  /\ At(p, "publish_tidy") => Hit(loc[p].digest)

BytesOK == \A p \in Procs : BytesOf(p)

LEMMA BytesParts == BytesOK <=> AdoptedUndisturbed /\ VerifiedStaysTrue
BY DEF BytesOK, BytesOf, AdoptedUndisturbed, VerifiedStaysTrue

\* A step that changes files or receipts is of the lock's holder, so nobody else
\* is at a step that relies on them.
LEMMA BytesMove ==
  ASSUME TypeOK, LockOwned, BytesOK, NEW p \in Procs, Process(p) \/ Crash(p),
         pc[p] \in LockedSteps \/ UNCHANGED <<files, receipts>>,
         BytesOf(p)'
  PROVE  BytesOK'
<1>1. ASSUME NEW q \in Procs, q # p PROVE BytesOf(q)'
  <2>1. pc'[q] = pc[q] /\ loc'[q] = loc[q]
    BY <1>1, OthersStand
  <2>2. CASE pc[p] \in LockedSteps
    <3>1. pc[q] \notin Relied
      BY <1>1, <2>2, Alone DEF Relied
    <3>2. QED BY <2>1, <3>1 DEF BytesOf, Relied
  <2>3. CASE UNCHANGED <<files, receipts>>
    BY <2>1, <2>3 DEF BytesOK, BytesOf, Target, Hit
  <2>4. QED BY <2>2, <2>3
<1>2. QED BY <1>1 DEF BytesOK

LEMMA BytesNotRelied ==
  ASSUME TypeOK, LockOwned, BytesOK, NEW p \in Procs, Process(p) \/ Crash(p),
         pc[p] \in LockedSteps \/ UNCHANGED <<files, receipts>>,
         pc'[p] \notin Relied
  PROVE  BytesOK'
<1>1. BytesOf(p)'
  BY DEF BytesOf, Relied
<1>2. QED BY <1>1, BytesMove

LEMMA BytesAdopt ==
  ASSUME TypeOK, LockOwned, AcquisitionKnown, BytesOK, NEW p \in Procs, Adopt(p)
  PROVE  BytesOK'
<1> USE DEF TypeOK, Relied
<1>0. Process(p)
  BY DEF Process
<1>1. CASE (\E d \in Digests : AdoptRequest(p, d)) \/ AdoptLocked(p)
  BY <1>0, <1>1, BytesNotRelied DEF AdoptRequest, AdoptLocked, disk
<1>2. CASE AdoptCopied(p) \/ AdoptAside(p) \/ AdoptFails(p)
  BY <1>0, <1>2, BytesNotRelied DEF AdoptCopied, AdoptAside, AdoptFails
<1>3. CASE AdoptSwap(p)
  <2>1. pc'[p] = "adopt_tidy" /\ UNCHANGED loc
    BY <1>3 DEF AdoptSwap
  <2>2. Target(p) \in Targets /\ "adopted" \in Places
    BY <1>3 DEF AdoptSwap, AcquisitionKnown, Target, Digests, Places
  <2>3. \A k \in Kinds : files'[<<Target(p), "adopted", k>>] = "good"
    BY <1>3, <2>2 DEF AdoptSwap
  <2>4. BytesOf(p)'
    BY <2>1, <2>3 DEF BytesOf, Target
  <2>5. QED BY <1>0, <1>3, <2>4, BytesMove DEF AdoptSwap
<1>4. CASE AdoptTidy(p)
  <2>1. pc'[p] = "publish" /\ Target(p)' = Target(p)
        /\ loc'[p].found = [k \in Kinds |-> "adopted"]
    BY <1>4 DEF AdoptTidy, Target, Local
  <2>2. Target(p) \in Targets /\ "adopted" \in Places
    BY <1>4 DEF AdoptTidy, AcquisitionKnown, Target, Digests, Places
  <2>3. loc[p].slot # "adopted"
    BY AbsenceIsNew, PlacesDiffer DEF Local
  <2>4. \A k \in Kinds : files[<<Target(p), "adopted", k>>] = "good"
    BY <1>4 DEF AdoptTidy, BytesOK, BytesOf
  <2>5. \A k \in Kinds : files'[<<Target(p), "adopted", k>>] = "good"
    BY <1>4, <2>2, <2>3, <2>4 DEF AdoptTidy
  <2>6. BytesOf(p)'
    BY <2>1, <2>5 DEF BytesOf
  <2>7. QED BY <1>0, <1>4, <2>6, BytesMove DEF AdoptTidy
<1>5. QED BY <1>1, <1>2, <1>3, <1>4 DEF Adopt

LEMMA BytesPublish ==
  ASSUME TypeOK, LockOwned, AcquisitionKnown, BytesOK, NEW p \in Procs, Publish(p)
  PROVE  BytesOK'
<1> USE DEF TypeOK, Relied
<1>0. Process(p)
  BY DEF Process
<1>1. CASE PublishAside(p)
  <2>1. pc'[p] = "publish_swap" /\ loc'[p].found = loc[p].found
        /\ Target(p)' = Target(p) /\ UNCHANGED files
    BY <1>1 DEF PublishAside, Target, Local
  <2>2. BytesOf(p)'
    BY <1>1, <2>1 DEF PublishAside, BytesOK, BytesOf
  <2>3. QED BY <1>0, <1>1, <2>2, BytesMove DEF PublishAside
<1>2. CASE PublishSwap(p)
  <2>1. loc[p].digest \in Digests /\ loc[p].found \in Located
    BY <1>2 DEF PublishSwap, AcquisitionKnown
  <2>2. receipts'[loc[p].digest] = loc[p].found /\ loc[p].found # None
    BY <1>2, <2>1, AbsenceIsNew DEF PublishSwap, Located, Places
  <2>3. \A k \in Kinds : files'[<<Target(p), loc[p].found[k], k>>] = "good"
    BY <1>2 DEF PublishSwap, BytesOK, BytesOf
  <2>4. Hit(loc[p].digest)'
    BY <1>2, <2>2, <2>3 DEF PublishSwap, Hit, Target
  <2>5. BytesOf(p)'
    BY <1>2, <2>4 DEF PublishSwap, BytesOf
  <2>6. QED BY <1>0, <1>2, <2>5, BytesMove DEF PublishSwap
<1>3. CASE PublishFails(p) \/ PublishTidy(p)
  BY <1>0, <1>3, BytesNotRelied DEF PublishFails, PublishTidy
<1>4. QED BY <1>1, <1>2, <1>3 DEF Publish

LEMMA BytesStep ==
  ASSUME TypeOK, LockOwned, AcquisitionKnown, DownloadersOwned, BytesOK, [Next]_vars
  PROVE  BytesOK'
<1> USE DEF TypeOK, Relied
<1>1. ASSUME NEW p \in Procs, CheckHit(p) \/ CheckMiss(p) \/ LockedHit(p) PROVE BytesOK'
  BY <1>1, BytesNotRelied DEF Process, CheckHit, CheckMiss, LockedHit, disk
<1>2. ASSUME NEW p \in Procs, Ensure(p) PROVE BytesOK'
  <2>0. Process(p)
    BY <1>2 DEF Process
  <2>1. CASE (\E d \in Digests : EnsureRequest(p, d)) \/ EnsureLocked(p)
    BY <2>0, <2>1, BytesNotRelied DEF EnsureRequest, EnsureLocked, disk
  <2>2. CASE DownloadEnds(p) \/ DownloadFails(p) \/ VerifyFails(p) \/ ReferenceFails(p)
    BY <2>0, <2>2, BytesNotRelied DEF DownloadEnds, DownloadFails, VerifyFails, ReferenceFails
  <2>3. CASE Verify(p)
    <3>1. PICK found \in Located :
            Verifies(Target(p), found) /\ loc' = [loc EXCEPT ![p].found = found]
      BY <2>3 DEF Verify
    <3>2. loc'[p].found = found /\ Target(p)' = Target(p) /\ UNCHANGED files
          /\ pc'[p] = "publish"
      BY <2>3, <3>1 DEF Verify, Target, Local, disk
    <3>3. BytesOf(p)'
      BY <3>1, <3>2 DEF BytesOf, Verifies
    <3>4. QED BY <2>0, <2>3, <3>3, BytesMove DEF Verify
  <2>4. QED BY <1>2, <2>1, <2>2, <2>3 DEF Ensure
<1>3. ASSUME NEW p \in Procs, Delete(p) PROVE BytesOK'
  BY <1>3, BytesNotRelied DEF Process, Delete, DeleteRequest, DeleteLocked, DeleteEnds,
     DeleteFile, disk
<1>4. ASSUME NEW p \in Procs, Crash(p) PROVE BytesOK'
  BY <1>4, BytesNotRelied DEF Crash
<1>5. ASSUME NEW t \in Targets, NEW k \in Kinds, SdkManagerWrites(t, k) PROVE BytesOK'
  <2>1. PICK w \in downloaders : w.owner \in Procs /\ pc[w.owner] = "download"
    BY <1>5 DEF SdkManagerWrites, DownloadersOwned
  <2>2. ASSUME NEW q \in Procs PROVE pc'[q] \notin Relied
    BY <1>5, <2>1, <2>2, Alone DEF SdkManagerWrites
  <2>3. QED BY <2>2 DEF BytesOK, BytesOf
<1>6. CASE UNCHANGED <<pc, loc, files, receipts>>
  BY <1>6 DEF BytesOK, BytesOf, Hit, Target
<1>7. CASE (\E w \in downloaders : OrphanExits(w)) \/ UNCHANGED vars
  BY <1>6, <1>7 DEF OrphanExits, vars, disk
<1>8. QED
  BY <1>1, <1>2, <1>3, <1>4, <1>5, <1>7, BytesAdopt, BytesPublish
  DEF Next, Process, SdkManager

-----------------------------------------------------------------------------
(* The theorems.                                                           *)

\* Every reachable state satisfies the inductive invariant: whatever commands
\* and failures are enabled, the lock, the staging directories and the local
\* variables are as claimed, and as long as no SDK Manager outlives its
\* process so are the bytes of the artifacts.
THEOREM InductiveHolds == Spec => []Inductive
<1>1. Init => Inductive
  <2> SUFFICES ASSUME Init PROVE Inductive
    OBVIOUS
  <2>1. TypeOK
    BY NoLocalTyped DEF Init, TypeOK, Conditions
  <2>2. \A p \in Procs : pc[p] = "idle"
    BY DEF Init
  <2>3. LockOwned
    BY <2>2, AbsenceIsNew DEF Init, LockOwned
  <2>4. QED
    BY <2>1, <2>2, <2>3 DEF Init, Inductive, AcquisitionKnown, LiveReceiptStagingKept,
       StagingBounded, DownloadersOwned, AdoptedUndisturbed, VerifiedStaysTrue
<1>2. Inductive /\ [Next]_vars => Inductive'
  <2> SUFFICES ASSUME Inductive, [Next]_vars PROVE Inductive'
    OBVIOUS
  <2>1. TypeOK /\ LockOwned /\ AcquisitionKnown /\ StagingOK
    BY DEF Inductive, StagingOK
  <2>2. TypeOK' /\ LockOwned' /\ AcquisitionKnown' /\ StagingOK'
    BY <2>1, TypeStep, LockStep, KnownStep, StagingStep
  <2>3. ASSUME "orphan" \notin Enabled PROVE DownloadersOwned' /\ BytesOK'
    BY <2>1, <2>3, DownloadersStep, BytesStep, BytesParts DEF Inductive
  <2>4. "orphan" \notin Enabled => (AdoptedUndisturbed /\ VerifiedStaysTrue)'
    BY <2>3 DEF BytesOK, BytesOf, AdoptedUndisturbed, VerifiedStaysTrue
  <2>5. QED BY <2>2, <2>3, <2>4 DEF Inductive, StagingOK
<1>3. QED BY <1>1, <1>2, PTL DEF Spec

\* Every variable keeps its type.
THEOREM TypeCorrect == Spec => []TypeOK
<1>1. Inductive => TypeOK
  BY DEF Inductive
<1>2. QED BY <1>1, InductiveHolds, PTL

\* No acquisition, however it is interrupted, takes a staging directory in use:
\* also with SDK Managers that outlive their process.
THEOREM StagingSafe == Spec => []LiveReceiptStagingKept
<1>1. Inductive => LiveReceiptStagingKept
  BY DEF Inductive
<1>2. QED BY <1>1, InductiveHolds, PTL

\* No acquisition leaves more than one staging directory behind, however often it
\* is killed.
THEOREM StagingStaysBounded == Spec => []StagingBounded
<1>1. Inductive => StagingBounded
  BY DEF Inductive
<1>2. QED BY <1>1, InductiveHolds, PTL

\* Nothing touches the bytes a receipt is about to name, if SDK Manager dies
\* with the process that started it.
THEOREM VerifiedUndisturbed ==
  ASSUME "orphan" \notin Enabled
  PROVE  Spec => []VerifiedStaysTrue
<1>1. Inductive => VerifiedStaysTrue
  BY DEF Inductive
<1>2. QED BY <1>1, InductiveHolds, PTL

=============================================================================
