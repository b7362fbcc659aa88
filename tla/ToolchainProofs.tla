---------------------------- MODULE ToolchainProofs ----------------------------
(***************************************************************************)
(* Theorems about BuildToolchain for every set of processes and staging    *)
(* directories, and every set of enabled failures.                         *)
(***************************************************************************)
EXTENDS ToolchainProperties, TLAPS

USE DEF At, Goto, Put, Archive, Steps, LockedSteps, AcquireSteps, Contents

-----------------------------------------------------------------------------
(* The parts of the invariant.                                             *)

LockHeld == \A p \in Procs : pc[p] \in LockedSteps <=> holder = p
PlaceHeld == \A p \in Procs : pc[p] \in AcquireSteps \ {"stage"} <=> place[p] # None
BytesVerified == \A p \in Procs : pc[p] \in {"extract", "publish"} => Archive(p) = "good"
StillMissing == \A p \in Procs : pc[p] \in AcquireSteps \ {"tidy"} => toolchain = None
InUse == \A p \in Procs : At(p, "build") => toolchain = "good"
Genuine == toolchain # "other"

LEMMA Parts ==
  Inductive <=> /\ TypeOK /\ LockHeld /\ PlaceHeld /\ BytesVerified
                /\ StillMissing /\ InUse /\ Genuine
BY DEF Inductive, LockHeld, PlaceHeld, BytesVerified, StillMissing, InUse, Genuine

\* No two processes are at a step that needs the lock.
LEMMA OneHolder ==
  ASSUME LockHeld, NEW p \in Procs, NEW q \in Procs,
         pc[p] \in LockedSteps, pc[q] \in LockedSteps
  PROVE  p = q
BY DEF LockHeld

LEMMA TypeStep ==
  ASSUME TypeOK, PlaceHeld, BytesVerified, NEW p \in Procs, Step(p)
  PROVE  TypeOK'
<1> USE DEF TypeOK, PlaceHeld
<1>1. CASE LoadReuses(p) \/ LoadMisses(p) \/ Locked(p) \/ Fails(p) \/ Kill(p)
  BY <1>1 DEF LoadReuses, LoadMisses, Locked, Fails, Kill
<1>2. CASE LookAgain(p) \/ (\E s \in Stagings : Stage(p, s)) \/ Verify(p) \/ Extract(p)
           \/ Unlock(p) \/ BuildEnds(p)
  BY <1>2 DEF LookAgain, Stage, Verify, Extract, Unlock, BuildEnds
<1>3. CASE Download(p) \/ Tidy(p)
  BY <1>3 DEF Download, Tidy
<1>4. CASE Publish(p)
  <2>1. place[p] \in Stagings
    BY <1>4 DEF Publish
  <2>2. CASE toolchain = None
    <3>1. Archive(p) = "good"
      BY <1>4 DEF BytesVerified, Publish
    <3>2. QED BY <1>4, <2>1, <2>2, <3>1 DEF Publish
  <2>3. CASE toolchain # None
    BY <1>4, <2>3 DEF Publish
  <2>4. QED BY <2>2, <2>3
<1>5. QED BY <1>1, <1>2, <1>3, <1>4 DEF Step, Works

\* The lock is taken when it is free, and given up by its holder.
LEMMA LockStep ==
  ASSUME TypeOK, LockHeld, NEW p \in Procs, Step(p)
  PROVE  LockHeld'
<1> USE AbsenceIsNew DEF TypeOK, LockHeld
<1>1. CASE LoadReuses(p) \/ LoadMisses(p)
  BY <1>1 DEF LoadReuses, LoadMisses
<1>2. CASE Locked(p)
  BY <1>2 DEF Locked
<1>3. CASE LookAgain(p) \/ (\E s \in Stagings : Stage(p, s)) \/ Download(p) \/ Verify(p)
  BY <1>3 DEF LookAgain, Stage, Download, Verify
<1>4. CASE Extract(p) \/ Publish(p) \/ Tidy(p) \/ Fails(p)
  BY <1>4 DEF Extract, Publish, Tidy, Fails
<1>5. CASE Unlock(p) \/ BuildEnds(p)
  BY <1>5 DEF Unlock, BuildEnds
<1>6. CASE Kill(p)
  BY <1>6 DEF Kill
<1>7. QED BY <1>1, <1>2, <1>3, <1>4, <1>5, <1>6 DEF Step, Works

LEMMA PlaceStep ==
  ASSUME TypeOK, PlaceHeld, NEW p \in Procs, Step(p)
  PROVE  PlaceHeld'
<1> USE AbsenceIsNew DEF TypeOK, PlaceHeld
<1>1. CASE LoadReuses(p) \/ LoadMisses(p) \/ Locked(p) \/ LookAgain(p)
  BY <1>1 DEF LoadReuses, LoadMisses, Locked, LookAgain
<1>2. CASE (\E s \in Stagings : Stage(p, s)) \/ Download(p) \/ Verify(p) \/ Extract(p)
  BY <1>2 DEF Stage, Download, Verify, Extract
<1>3. CASE Publish(p) \/ Tidy(p) \/ Fails(p)
  BY <1>3 DEF Publish, Tidy, Fails
<1>4. CASE Unlock(p) \/ BuildEnds(p) \/ Kill(p)
  BY <1>4 DEF Unlock, BuildEnds, Kill
<1>5. QED BY <1>1, <1>2, <1>3, <1>4 DEF Step, Works

\* The archive of the process at work is changed by nobody else.
LEMMA BytesStep ==
  ASSUME TypeOK, LockHeld, PlaceHeld, BytesVerified, NEW p \in Procs, Step(p)
  PROVE  BytesVerified'
<1> SUFFICES ASSUME NEW q \in Procs, pc'[q] \in {"extract", "publish"}
             PROVE  Archive(q)' = "good"
  BY DEF BytesVerified
<1> USE DEF TypeOK
<1>1. CASE q = p
  <2>1. CASE Verify(p)
    BY <1>1, <2>1 DEF Verify
  <2>2. CASE Extract(p)
    BY <1>1, <2>2 DEF Extract, BytesVerified
  <2>3. CASE ~Verify(p) /\ ~Extract(p)
    BY <1>1, <2>3 DEF Step, Works, LoadReuses, LoadMisses, Locked, LookAgain, Stage, Download,
       Publish, Tidy, Unlock, BuildEnds, Fails, Kill
  <2>4. QED BY <2>1, <2>2, <2>3
<1>2. CASE q # p
  <2>1. pc[q] \in {"extract", "publish"} /\ place'[q] = place[q]
    BY <1>2 DEF Step, Works, LoadReuses, LoadMisses, Locked, LookAgain, Stage, Download, Verify,
       Extract, Publish, Tidy, Unlock, BuildEnds, Fails, Kill
  <2>2. pc[p] \notin LockedSteps
    BY <1>2, <2>1, OneHolder
  <2>3. UNCHANGED stagings
    BY <2>2 DEF Step, Works, LoadReuses, LoadMisses, Locked, LookAgain, Stage, Download, Verify,
       Extract, Publish, Tidy, Unlock, BuildEnds, Fails, Kill
  <2>4. QED BY <2>1, <2>3 DEF BytesVerified
<1>3. QED BY <1>1, <1>2

\* The toolchain appears when its only acquirer publishes it, and stays.
LEMMA ToolchainChanges ==
  ASSUME TypeOK, BytesVerified, NEW p \in Procs, Step(p)
  PROVE  \/ UNCHANGED toolchain
         \/ At(p, "publish") /\ pc'[p] = "tidy" /\ toolchain = None /\ toolchain' = "good"
<1>1. CASE Publish(p)
  BY <1>1 DEF Publish, BytesVerified, TypeOK
<1>2. CASE ~Publish(p)
  BY <1>2 DEF Step, Works, LoadReuses, LoadMisses, Locked, LookAgain, Stage, Download, Verify,
     Extract, Tidy, Unlock, BuildEnds, Fails, Kill
<1>3. QED BY <1>1, <1>2

LEMMA UseStep ==
  ASSUME TypeOK, LockHeld, BytesVerified, StillMissing, InUse, Genuine, NEW p \in Procs, Step(p)
  PROVE  StillMissing' /\ InUse' /\ Genuine'
<1> USE DEF TypeOK, StillMissing, InUse, Genuine
<1>1. CASE At(p, "publish") /\ pc'[p] = "tidy" /\ toolchain = None /\ toolchain' = "good"
  <2>1. \A q \in Procs \ {p} : pc'[q] = pc[q]
    BY DEF Step, Works, LoadReuses, LoadMisses, Locked, LookAgain, Stage, Download, Verify,
       Extract, Publish, Tidy, Unlock, BuildEnds, Fails, Kill
  <2>2. \A q \in Procs \ {p} : pc[q] \notin LockedSteps
    BY <1>1, OneHolder
  <2>3. QED BY <1>1, <2>1, <2>2
<1>2. CASE UNCHANGED toolchain
  BY <1>2 DEF Step, Works, LoadReuses, LoadMisses, Locked, LookAgain, Stage, Download, Verify,
     Extract, Publish, Tidy, Unlock, BuildEnds, Fails, Kill
<1>3. QED BY <1>1, <1>2, ToolchainChanges

LEMMA InitInductive == ASSUME Init PROVE Inductive
BY AbsenceIsNew DEF Init, Inductive, TypeOK

LEMMA NextInductive == ASSUME Inductive, [Next]_vars PROVE Inductive'
<1> USE Parts
<1>1. CASE UNCHANGED vars
  BY <1>1 DEF vars, Inductive, TypeOK
<1>2. ASSUME NEW p \in Procs, Step(p) PROVE Inductive'
  <2>1. TypeOK' /\ LockHeld' /\ PlaceHeld' /\ BytesVerified'
    BY <1>2, TypeStep, LockStep, PlaceStep, BytesStep
  <2>2. StillMissing' /\ InUse' /\ Genuine'
    BY <1>2, UseStep
  <2>3. QED
    BY <2>1, <2>2 DEF Inductive, TypeOK, LockHeld, PlaceHeld, BytesVerified, StillMissing, InUse,
       Genuine
<1>3. QED BY <1>1, <1>2 DEF Next

\* The invariant of the lock, the staging directories and the toolchain.
THEOREM ToolchainInductive == Spec => []Inductive
<1>1. Init => Inductive
  BY InitInductive
<1>2. Inductive /\ [Next]_vars => Inductive'
  BY NextInductive
<1>3. QED BY <1>1, <1>2, PTL DEF Spec

\* Nothing but the verified toolchain is published, and a build keeps the one it
\* has found.
THEOREM GenuineToolchain == Spec => []BuildsUseToolchain
<1>1. Inductive => BuildsUseToolchain
  BY DEF Inductive, BuildsUseToolchain
<1>2. QED BY <1>1, ToolchainInductive, PTL

\* One process at a time acquires the toolchain, while it is not there.
THEOREM AcquiredOnce == Spec => []OneAcquisition
<1>1. Inductive => OneAcquisition
  <2> SUFFICES ASSUME Inductive, NEW p \in Procs, pc[p] \in AcquireSteps \ {"tidy"}
               PROVE  toolchain = None /\ \A q \in Procs \ {p} : pc[q] \notin AcquireSteps
    BY DEF OneAcquisition
  <2>1. toolchain = None
    BY DEF Inductive
  <2>2. \A q \in Procs \ {p} : pc[q] \notin AcquireSteps
    BY OneHolder, Parts
  <2>3. QED BY <2>1, <2>2
<1>2. QED BY <1>1, ToolchainInductive, PTL

=============================================================================
