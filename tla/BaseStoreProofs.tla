---------------------------- MODULE BaseStoreProofs ----------------------------
(***************************************************************************)
(* Theorems about BaseStore for every set of processes, packages, evidence *)
(* and staging directories, and every set of enabled commands and          *)
(* failures.                                                               *)
(***************************************************************************)
EXTENDS BaseProperties, TLAPS

USE DEF At, Goto, Keep, Return, Building, Removing, Unlock, Lock, Steps, BuildSteps,
        ChrootSteps, CreateSteps, CleanSteps, RemoveSteps, store, staging, history

-----------------------------------------------------------------------------
(* The steps of one process, in five groups.                               *)

Builds(p) ==
  \/ \E s \in Stagings : BuildStage(p, s)
  \/ BuildLease(p) \/ BuildEnter(p) \/ BuildLeave(p)
  \/ \E l \in Locks, c \in Locks \cup {None} :
       BuildReuse(p, l, c) \/ BuildInstall(p, l, c)
  \/ BuildFails(p) \/ BuildFailsMounted(p)
  \/ BuildPublish(p) \/ BuildFinds(p) \/ BuildFinally(p)

Cleans(p) ==
  \/ CleanBegin(p) \/ CleanConfirm(p) \/ CleanStaging(p) \/ CleanOpen(p) \/ CleanEnds(p)
  \/ \E s \in Stagings \cup {None}, l \in Locks \cup {None} : CleanPick(p, s, l)

Removes(p) ==
  \E l \in Locks :
    DeleteLocked(p, l) \/ RemoveSome(p, l) \/ RemoveLast(p, l) \/ RemoveFails(p, l)

Creates(p) ==
  \/ \E l \in Locks : CreateLook(p, l)
  \/ CreateFindsSeed(p) \/ CreateSeed(p) \/ CreatePublish(p) \/ CreateFails(p)
  \/ \E w \in workspaces : RemoveWorkspace(p, w)

Dies(p) == Kill(p) \/ KillParent(p)

LEMMA StepCases ==
  ASSUME NEW p \in Procs, Step(p)
  PROVE  Builds(p) \/ Cleans(p) \/ Removes(p) \/ Creates(p) \/ Dies(p)
BY DEF Step, Builds, Cleans, Removes, Creates, Dies

-----------------------------------------------------------------------------
(* Types.                                                                  *)

ControlOK == pc \in [Procs -> Steps] /\ loc \in [Procs -> Local]

SharedOK ==
  /\ targets \in [Locks -> Conditions]
  /\ seeds \in [Locks -> Trees \cup {None}]
  /\ stagings \subseteq Stagings
  /\ mounts \subseteq Stagings
  /\ lifecycle \in Procs \cup {None}
  /\ workspaces \subseteq [base : Locks, tree : Trees]
  /\ abandoned \subseteq Stagings
  /\ marred \subseteq Locks

LEMMA TypeParts == TypeOK <=> ControlOK /\ SharedOK
BY DEF TypeOK, ControlOK, SharedOK

LEMMA LocalUpdated ==
  /\ NoLocal \in Local
  /\ \A s \in Stagings : [NoLocal EXCEPT !.staging = s] \in Local
  /\ \A l \in Locks : [NoLocal EXCEPT !.lock = l] \in Local
  /\ \A b \in BOOLEAN : [NoLocal EXCEPT !.active = b] \in Local
  /\ \A r \in Local, l \in Locks : [r EXCEPT !.lock = l] \in Local
  /\ \A s \in Stagings \cup {None}, l \in Locks \cup {None}, b \in BOOLEAN :
       [lock |-> l, staging |-> s, active |-> b] \in Local
BY DEF NoLocal, Local

LEMMA ActiveTyped == ActiveBuilder \in BOOLEAN
BY DEF ActiveBuilder

LEMMA ControlTyped ==
  ASSUME ControlOK, NEW p \in Procs, Step(p)
  PROVE  ControlOK'
<1> USE DEF ControlOK
<1>0. loc[p] \in Local
  OBVIOUS
<1>1. CASE Builds(p)
  <2>1. ASSUME NEW s \in Stagings, BuildStage(p, s) PROVE ControlOK'
    BY <2>1, LocalUpdated DEF BuildStage
  <2>2. CASE BuildLease(p) \/ BuildEnter(p) \/ BuildLeave(p) \/ BuildFails(p)
             \/ BuildFailsMounted(p) \/ BuildPublish(p) \/ BuildFinds(p)
    BY <2>2 DEF BuildLease, BuildEnter, BuildLeave, BuildFails, BuildFailsMounted,
       BuildPublish, BuildFinds
  <2>3. ASSUME NEW l \in Locks, NEW c \in Locks \cup {None},
               BuildReuse(p, l, c) \/ BuildInstall(p, l, c)
        PROVE  ControlOK'
    BY <1>0, <2>3, LocalUpdated DEF BuildReuse, BuildInstall
  <2>4. CASE BuildFinally(p)
    BY <2>4, LocalUpdated DEF BuildFinally
  <2>5. QED BY <1>1, <2>1, <2>2, <2>3, <2>4 DEF Builds
<1>2. CASE Cleans(p)
  <2>1. CASE CleanBegin(p)
    BY <2>1, LocalUpdated, ActiveTyped DEF CleanBegin
  <2>2. CASE CleanConfirm(p) \/ CleanOpen(p)
    BY <2>2 DEF CleanConfirm, CleanOpen
  <2>3. CASE CleanStaging(p) \/ CleanEnds(p)
    BY <2>3, LocalUpdated DEF CleanStaging, CleanEnds
  <2>4. ASSUME NEW s \in Stagings \cup {None}, NEW l \in Locks \cup {None}, CleanPick(p, s, l)
        PROVE  ControlOK'
    BY <2>4, LocalUpdated, ActiveTyped DEF CleanPick
  <2>5. QED BY <1>2, <2>1, <2>2, <2>3, <2>4 DEF Cleans
<1>3. CASE Removes(p)
  BY <1>3, LocalUpdated DEF Removes, DeleteLocked, RemoveSome, RemoveLast, RemoveFails
<1>4. CASE Creates(p)
  BY <1>4, LocalUpdated DEF Creates, CreateLook, CreateFindsSeed, CreateSeed, CreatePublish,
     CreateFails, RemoveWorkspace
<1>5. CASE Dies(p)
  BY <1>5, LocalUpdated DEF Dies, Kill, KillParent
<1>6. QED BY <1>1, <1>2, <1>3, <1>4, <1>5, StepCases

\* Which base a process works on is known when it matters.
LEMMA StagingKnown ==
  ASSUME TypeOK, StagingsDistinct, NEW p \in Procs, Building(p)
  PROVE  loc[p].staging \in Stagings
BY DEF StagingsDistinct

LEMMA SharedTyped ==
  ASSUME TypeOK, StagingsDistinct, LockKnown, NEW p \in Procs, Step(p)
  PROVE  SharedOK'
<1> USE DEF SharedOK, TypeOK, Conditions, Trees
<1>0. SharedOK
  OBVIOUS
<1>1. CASE Builds(p)
  <2>1. CASE \E s \in Stagings : BuildStage(p, s)
    BY <2>1 DEF BuildStage
  <2>2. CASE BuildEnter(p) \/ BuildLeave(p) \/ BuildFails(p) \/ BuildFailsMounted(p)
    BY <2>2, StagingKnown DEF BuildEnter, BuildLeave, BuildFails, BuildFailsMounted
  <2>3. CASE BuildPublish(p)
    BY <2>3 DEF BuildPublish
  <2>4. CASE BuildFinally(p)
    BY <2>4 DEF BuildFinally
  <2>5. CASE \/ BuildLease(p) \/ BuildFinds(p)
             \/ \E l \in Locks, c \in Locks \cup {None} :
                  BuildReuse(p, l, c) \/ BuildInstall(p, l, c)
    BY <2>5 DEF BuildLease, BuildFinds, BuildReuse, BuildInstall
  <2>6. QED BY <1>1, <2>1, <2>2, <2>3, <2>4, <2>5 DEF Builds
<1>2. CASE Cleans(p)
  BY <1>2 DEF Cleans, CleanBegin, CleanConfirm, CleanStaging, CleanOpen, CleanEnds, CleanPick,
     LockKnown
<1>3. CASE Removes(p)
  <2>1. PICK l \in Locks :
          DeleteLocked(p, l) \/ RemoveSome(p, l) \/ RemoveLast(p, l) \/ RemoveFails(p, l)
    BY <1>3 DEF Removes
  <2>2. CASE DeleteLocked(p, l)
    BY <2>2 DEF DeleteLocked
  <2>3. CASE RemoveSome(p, l)
    <3>1. Less(targets[l]) \subseteq Conditions
      BY DEF Less
    <3>2. QED BY <2>3, <3>1 DEF RemoveSome
  <2>4. CASE RemoveLast(p, l)
    BY <2>4 DEF RemoveLast
  <2>5. CASE RemoveFails(p, l)
    BY <2>5 DEF RemoveFails
  <2>6. QED BY <2>1, <2>2, <2>3, <2>4, <2>5
<1>4. CASE Creates(p)
  <2>1. CASE CreateSeed(p)
    BY <2>1, LockKnown DEF CreateSeed
  <2>2. CASE CreatePublish(p)
    <3>1. loc[p].lock \in Locks
      BY <2>2 DEF CreatePublish, LockKnown
    <3>2. seeds[loc[p].lock] \in Trees
      BY <2>2, <3>1 DEF CreatePublish
    <3>3. QED BY <2>2, <3>1, <3>2 DEF CreatePublish
  <2>3. CASE \E w \in workspaces : RemoveWorkspace(p, w)
    BY <2>3 DEF RemoveWorkspace
  <2>4. CASE (\E l \in Locks : CreateLook(p, l)) \/ CreateFindsSeed(p) \/ CreateFails(p)
    BY <2>4 DEF CreateLook, CreateFindsSeed, CreateFails
  <2>5. QED BY <1>4, <2>1, <2>2, <2>3, <2>4 DEF Creates
<1>5. CASE Dies(p)
  BY <1>5 DEF Dies, Kill, KillParent, LockKnown
<1>6. QED BY <1>1, <1>2, <1>3, <1>4, <1>5, StepCases

-----------------------------------------------------------------------------
(* Staging directories and mounts.                                         *)

\* A process that builds after a step has just begun, with a directory whose
\* name no process knows, or was building in the same directory.
LEMMA BuildersStay ==
  ASSUME TypeOK, NEW p \in Procs, Step(p), NEW q \in Procs, Building(q)'
  PROVE  \/ Building(q) /\ loc'[q].staging = loc[q].staging
         \/ /\ q = p
            /\ \E s \in Stagings : BuildStage(p, s) /\ loc'[q].staging = s
<1> USE DEF TypeOK, Local, NoLocal
<1>1. CASE Builds(p)
  <2>1. ASSUME NEW s \in Stagings, BuildStage(p, s)
        PROVE  \/ Building(q) /\ loc'[q].staging = loc[q].staging
               \/ q = p /\ loc'[q].staging = s
    <3>1. CASE q = p
      BY <2>1, <3>1 DEF BuildStage
    <3>2. CASE q # p
      BY <2>1, <3>2 DEF BuildStage
    <3>3. QED BY <3>1, <3>2
  <2>2. CASE \/ BuildLease(p) \/ BuildEnter(p) \/ BuildLeave(p) \/ BuildFails(p)
             \/ BuildFailsMounted(p) \/ BuildPublish(p) \/ BuildFinds(p) \/ BuildFinally(p)
    BY <2>2 DEF BuildLease, BuildEnter, BuildLeave, BuildFails, BuildFailsMounted,
       BuildPublish, BuildFinds, BuildFinally
  <2>3. CASE \E l \in Locks, c \in Locks \cup {None} :
               BuildReuse(p, l, c) \/ BuildInstall(p, l, c)
    BY <2>3 DEF BuildReuse, BuildInstall
  <2>4. QED BY <1>1, <2>1, <2>2, <2>3 DEF Builds
<1>2. CASE Cleans(p)
  BY <1>2 DEF Cleans, CleanBegin, CleanConfirm, CleanStaging, CleanOpen, CleanEnds, CleanPick
<1>3. CASE Removes(p)
  BY <1>3 DEF Removes, DeleteLocked, RemoveSome, RemoveLast, RemoveFails
<1>4. CASE Creates(p)
  BY <1>4 DEF Creates, CreateLook, CreateFindsSeed, CreateSeed, CreatePublish,
     CreateFails, RemoveWorkspace
<1>5. CASE Dies(p)
  BY <1>5 DEF Dies, Kill, KillParent
<1>6. QED BY <1>1, <1>2, <1>3, <1>4, <1>5, StepCases

LEMMA DistinctStep ==
  ASSUME TypeOK, StagingsDistinct, NEW p \in Procs, Step(p)
  PROVE  StagingsDistinct'
<1> SUFFICES ASSUME NEW q \in Procs, Building(q)'
             PROVE  /\ loc'[q].staging \in Stagings
                    /\ \A r \in Procs \ {q} :
                         Building(r)' => loc'[r].staging # loc'[q].staging
  BY DEF StagingsDistinct
<1>1. loc'[q].staging \in Stagings
  BY BuildersStay DEF StagingsDistinct
<1>2. ASSUME NEW r \in Procs \ {q}, Building(r)'
      PROVE  loc'[r].staging # loc'[q].staging
  <2>1. CASE Building(q) /\ loc'[q].staging = loc[q].staging
    <3>1. CASE Building(r) /\ loc'[r].staging = loc[r].staging
      BY <2>1, <3>1 DEF StagingsDistinct
    <3>2. CASE \E s \in Stagings : BuildStage(p, s) /\ loc'[r].staging = s
      BY <2>1, <3>2 DEF BuildStage
    <3>3. QED BY <1>2, <3>1, <3>2, BuildersStay
  <2>2. CASE q = p /\ \E s \in Stagings : BuildStage(p, s) /\ loc'[q].staging = s
    <3>1. Building(r) /\ loc'[r].staging = loc[r].staging
      BY <1>2, <2>2, BuildersStay
    <3>2. QED BY <2>2, <3>1 DEF BuildStage
  <2>3. QED BY <2>1, <2>2, BuildersStay
<1>3. QED BY <1>1, <1>2

\* The directory of a builder is removed by the builder itself only.
LEMMA LiveStep ==
  ASSUME TypeOK, StagingsDistinct, LiveStagingKept, InspectionHolds,
         NEW p \in Procs, Step(p)
  PROVE  LiveStagingKept'
<1> SUFFICES ASSUME NEW q \in Procs, Building(q)'
             PROVE  loc'[q].staging \in stagings'
  BY DEF LiveStagingKept
<1>1. CASE \E s \in Stagings : BuildStage(p, s) /\ loc'[q].staging = s
  BY <1>1 DEF BuildStage
<1>2. CASE Building(q) /\ loc'[q].staging = loc[q].staging
  <2>1. loc[q].staging \in stagings
    BY <1>2 DEF LiveStagingKept
  <2>2. CASE Builds(p)
    <3>1. CASE \E s \in Stagings : BuildStage(p, s)
      BY <1>2, <2>1, <3>1 DEF BuildStage
    <3>2. CASE BuildFinally(p)
      <4>1. q # p
        BY <3>2 DEF BuildFinally, TypeOK
      <4>2. loc[q].staging # loc[p].staging
        BY <1>2, <3>2, <4>1 DEF StagingsDistinct, BuildFinally
      <4>3. QED BY <1>2, <2>1, <3>2, <4>2 DEF BuildFinally
    <3>3. CASE UNCHANGED stagings
      BY <1>2, <2>1, <3>3
    <3>4. QED
      BY <2>2, <3>1, <3>2, <3>3 DEF Builds, BuildLease, BuildEnter, BuildLeave, BuildFails,
         BuildFailsMounted, BuildPublish, BuildFinds, BuildReuse, BuildInstall
  <2>3. CASE Cleans(p)
    <3>1. CASE CleanStaging(p)
      <4>1. loc[q].staging # loc[p].staging
        BY <1>2, <3>1 DEF InspectionHolds, CleanStaging
      <4>2. QED BY <1>2, <2>1, <3>1, <4>1 DEF CleanStaging
    <3>2. CASE UNCHANGED stagings
      BY <1>2, <2>1, <3>2
    <3>3. QED
      BY <2>3, <3>1, <3>2 DEF Cleans, CleanBegin, CleanConfirm, CleanOpen, CleanEnds, CleanPick
  <2>4. CASE Removes(p) \/ Creates(p) \/ Dies(p)
    <3>1. UNCHANGED stagings
      BY <2>4 DEF Removes, DeleteLocked, RemoveSome, RemoveLast, RemoveFails, Creates, CreateLook,
         CreateFindsSeed, CreateSeed, CreatePublish, CreateFails, RemoveWorkspace, Dies, Kill,
         KillParent
    <3>2. QED BY <1>2, <2>1, <3>1
  <2>5. QED BY <2>2, <2>3, <2>4, StepCases
<1>3. QED BY <1>1, <1>2, BuildersStay

\* A process is at the second inspection, having seen no builder.
Confirmed(q) == (At(q, "clean_again") /\ ~loc[q].active) \/ At(q, "clean_staging")

\* It was there before, with the same entry, or has looked in this step.
LEMMA ConfirmedStays ==
  ASSUME TypeOK, NEW p \in Procs, Step(p), NEW q \in Procs, Confirmed(q)'
  PROVE  \/ Confirmed(q) /\ loc'[q].staging = loc[q].staging
         \/ q = p /\ ~ActiveBuilder /\ Cleans(p)
<1> USE DEF TypeOK, Local, NoLocal, Confirmed
<1>1. CASE Builds(p)
  BY <1>1 DEF Builds, BuildStage, BuildLease, BuildEnter, BuildLeave, BuildReuse, BuildInstall,
     BuildFails, BuildFailsMounted, BuildPublish, BuildFinds, BuildFinally
<1>2. CASE Cleans(p)
  <2>1. CASE \E s \in Stagings \cup {None}, l \in Locks \cup {None} : CleanPick(p, s, l)
    BY <1>2, <2>1 DEF CleanPick
  <2>2. CASE CleanConfirm(p)
    <3>1. CASE loc[p].staging \in StaleStagings(loc[p].active) /\ Goto(p, "clean_staging")
      BY <2>2, <3>1 DEF CleanConfirm, StaleStagings
    <3>2. CASE Goto(p, "clean_target")
      BY <2>2, <3>2 DEF CleanConfirm
    <3>3. QED BY <2>2, <3>1, <3>2 DEF CleanConfirm
  <2>3. CASE CleanBegin(p) \/ CleanStaging(p) \/ CleanOpen(p) \/ CleanEnds(p)
    BY <2>3 DEF CleanBegin, CleanStaging, CleanOpen, CleanEnds
  <2>4. QED BY <1>2, <2>1, <2>2, <2>3 DEF Cleans
<1>3. CASE Removes(p)
  BY <1>3 DEF Removes, DeleteLocked, RemoveSome, RemoveLast, RemoveFails
<1>4. CASE Creates(p)
  BY <1>4 DEF Creates, CreateLook, CreateFindsSeed, CreateSeed, CreatePublish,
     CreateFails, RemoveWorkspace
<1>5. CASE Dies(p)
  BY <1>5 DEF Dies, Kill, KillParent
<1>6. QED BY <1>1, <1>2, <1>3, <1>4, <1>5, StepCases

LEMMA InspectionStep ==
  ASSUME TypeOK, InspectionHolds, NEW p \in Procs, Step(p)
  PROVE  InspectionHolds'
<1> SUFFICES ASSUME NEW q \in Procs, Confirmed(q)', NEW r \in Procs, Building(r)'
             PROVE  loc'[r].staging # loc'[q].staging
  BY DEF InspectionHolds, Confirmed
<1>1. CASE q = p /\ ~ActiveBuilder /\ Cleans(p)
  <2>1. Building(r)
    BY <1>1, BuildersStay DEF Cleans, CleanBegin, CleanConfirm, CleanStaging, CleanOpen,
       CleanEnds, CleanPick, BuildStage, TypeOK
  <2>2. QED BY <1>1, <2>1 DEF ActiveBuilder
<1>2. CASE Confirmed(q) /\ loc'[q].staging = loc[q].staging
  <2>1. CASE Building(r) /\ loc'[r].staging = loc[r].staging
    BY <1>2, <2>1 DEF InspectionHolds, Confirmed
  <2>2. CASE \E s \in Stagings : BuildStage(p, s) /\ loc'[r].staging = s
    BY <1>2, <2>2 DEF BuildStage
  <2>3. QED BY <2>1, <2>2, BuildersStay
<1>3. QED BY <1>1, <1>2, ConfirmedStays

LEMMA MountsStep ==
  ASSUME TypeOK, MountsAccounted, NEW p \in Procs, Step(p)
  PROVE  MountsAccounted'
<1> USE DEF TypeOK, MountsAccounted, Local
<1>1. CASE Builds(p)
  <2>1. CASE BuildEnter(p)
    BY <2>1 DEF BuildEnter
  <2>2. CASE BuildLeave(p) \/ BuildFails(p)
    BY <2>2 DEF BuildLeave, BuildFails
  <2>3. CASE BuildFailsMounted(p)
    BY <2>3 DEF BuildFailsMounted
  <2>4. CASE \E l \in Locks, c \in Locks \cup {None} :
               BuildReuse(p, l, c) \/ BuildInstall(p, l, c)
    BY <2>4 DEF BuildReuse, BuildInstall
  <2>5. CASE \/ \E s \in Stagings : BuildStage(p, s)
             \/ BuildLease(p) \/ BuildPublish(p) \/ BuildFinds(p) \/ BuildFinally(p)
    BY <2>5 DEF BuildStage, BuildLease, BuildPublish, BuildFinds, BuildFinally
  <2>6. QED BY <1>1, <2>1, <2>2, <2>3, <2>4, <2>5 DEF Builds
<1>2. CASE Cleans(p)
  BY <1>2 DEF Cleans, CleanBegin, CleanConfirm, CleanStaging, CleanOpen, CleanEnds, CleanPick
<1>3. CASE Removes(p)
  BY <1>3 DEF Removes, DeleteLocked, RemoveSome, RemoveLast, RemoveFails
<1>4. CASE Creates(p)
  BY <1>4 DEF Creates, CreateLook, CreateFindsSeed, CreateSeed, CreatePublish,
     CreateFails, RemoveWorkspace
<1>5. CASE Dies(p)
  BY <1>5 DEF Dies, Kill, KillParent
<1>6. QED BY <1>1, <1>2, <1>3, <1>4, <1>5, StepCases

\* A directory that is being removed is no builder's, so that a mount in it has
\* nobody left to undo it.
LEMMA HostDevLemma ==
  ASSUME TypeOK, StagingsDistinct, InspectionHolds, MountsAccounted
  PROVE  HostDevSpared
<1> SUFFICES ASSUME NEW p \in Procs, pc[p] \in {"finally", "clean_staging"},
                    loc[p].staging \in mounts, loc[p].staging \notin abandoned
             PROVE  FALSE
  BY DEF HostDevSpared
<1>1. PICK q \in Procs : pc[q] \in ChrootSteps /\ loc[q].staging = loc[p].staging
  BY DEF MountsAccounted
<1>2. CASE At(p, "finally")
  BY <1>1, <1>2 DEF StagingsDistinct
<1>3. CASE At(p, "clean_staging")
  BY <1>1, <1>3 DEF InspectionHolds
<1>4. QED BY <1>2, <1>3

-----------------------------------------------------------------------------
(* Bases.                                                                  *)

LEMMA LockStep ==
  ASSUME TypeOK, LockKnown, NEW p \in Procs, Step(p)
  PROVE  LockKnown'
<1> USE DEF TypeOK, LockKnown, Local, NoLocal
<1>0. None \notin Procs
  BY AbsenceIsNew
<1>1. CASE Builds(p)
  <2>1. ASSUME NEW l \in Locks, NEW c \in Locks \cup {None},
               BuildReuse(p, l, c) \/ BuildInstall(p, l, c)
        PROVE  LockKnown'
    BY <2>1 DEF BuildReuse, BuildInstall
  <2>2. CASE BuildLeave(p)
    BY <2>2 DEF BuildLeave
  <2>3. CASE \/ \E s \in Stagings : BuildStage(p, s)
             \/ BuildLease(p) \/ BuildEnter(p) \/ BuildFails(p) \/ BuildFailsMounted(p)
             \/ BuildPublish(p) \/ BuildFinds(p) \/ BuildFinally(p)
    BY <2>3 DEF BuildStage, BuildLease, BuildEnter, BuildFails, BuildFailsMounted,
       BuildPublish, BuildFinds, BuildFinally
  <2>4. QED BY <1>1, <2>1, <2>2, <2>3 DEF Builds
<1>2. CASE Cleans(p)
  BY <1>2 DEF Cleans, CleanBegin, CleanConfirm, CleanStaging, CleanOpen, CleanEnds, CleanPick,
     StaleTargets
<1>3. CASE Removes(p)
  <2>1. PICK l \in Locks :
          DeleteLocked(p, l) \/ RemoveSome(p, l) \/ RemoveLast(p, l) \/ RemoveFails(p, l)
    BY <1>3 DEF Removes
  <2>2. CASE DeleteLocked(p, l)
    BY <1>0, <2>2 DEF DeleteLocked
  <2>3. CASE RemoveSome(p, l)
    BY <2>3 DEF RemoveSome
  <2>4. CASE RemoveLast(p, l)
    BY <1>0, <2>4 DEF RemoveLast
  <2>5. CASE RemoveFails(p, l)
    BY <1>0, <2>5 DEF RemoveFails
  <2>6. QED BY <2>1, <2>2, <2>3, <2>4, <2>5
<1>4. CASE Creates(p)
  BY <1>4 DEF Creates, CreateLook, CreateFindsSeed, CreateSeed, CreatePublish,
     CreateFails, RemoveWorkspace, FirstCandidate, Reusable
<1>5. CASE Dies(p)
  BY <1>0, <1>5 DEF Dies, Kill, KillParent
<1>6. QED BY <1>1, <1>2, <1>3, <1>4, <1>5, StepCases

\* The steps that change no directory below targets/.
LEMMA StoreSteps ==
  ASSUME NEW p \in Procs, Step(p)
  PROVE  \/ BuildPublish(p) \/ CreateSeed(p)
         \/ \E l \in Locks : RemoveSome(p, l) \/ RemoveLast(p, l)
         \/ UNCHANGED store
BY StepCases DEF Builds, BuildStage, BuildLease, BuildEnter, BuildLeave, BuildReuse,
   BuildInstall, BuildFails, BuildFailsMounted, BuildFinds, BuildFinally,
   Cleans, CleanBegin, CleanConfirm, CleanStaging, CleanOpen, CleanEnds, CleanPick,
   Removes, DeleteLocked, RemoveFails, Creates, CreateLook, CreateFindsSeed, CreatePublish,
   CreateFails, RemoveWorkspace, Dies, Kill, KillParent

\* Removal never leaves a directory whole, and takes the seed along at the end.
LEMMA LessIsBroken ==
  ASSUME NEW c, NEW d \in Less(c)
  PROVE  d \in {"torn", "partial", "headless"} /\ c # "absent"
BY DEF Less

LEMMA SeedsStep ==
  ASSUME TypeOK, LockKnown, SeedsInside, NEW p \in Procs, Step(p)
  PROVE  SeedsInside'
<1> USE DEF TypeOK, SeedsInside
<1>1. CASE BuildPublish(p)
  BY <1>1 DEF BuildPublish
<1>2. CASE CreateSeed(p)
  BY <1>2 DEF CreateSeed
<1>3. ASSUME NEW l \in Locks, RemoveSome(p, l) PROVE SeedsInside'
  BY <1>3, LessIsBroken DEF RemoveSome
<1>4. ASSUME NEW l \in Locks, RemoveLast(p, l) PROVE SeedsInside'
  BY <1>4 DEF RemoveLast
<1>5. CASE UNCHANGED store
  BY <1>5
<1>6. QED BY <1>1, <1>2, <1>3, <1>4, <1>5, StoreSteps

LEMMA MarredGrows ==
  ASSUME NEW p \in Procs, Step(p)
  PROVE  marred \subseteq marred'
BY StepCases DEF Builds, BuildStage, BuildLease, BuildEnter, BuildLeave, BuildReuse,
   BuildInstall, BuildFails, BuildFailsMounted, BuildPublish, BuildFinds, BuildFinally,
   Cleans, CleanBegin, CleanConfirm, CleanStaging, CleanOpen, CleanEnds, CleanPick,
   Removes, DeleteLocked, RemoveSome, RemoveLast, RemoveFails, Creates, CreateLook,
   CreateFindsSeed, CreateSeed, CreatePublish, CreateFails, RemoveWorkspace, Dies, Kill,
   KillParent

\* A deletion under the lock goes on, comes to its end, or has gone wrong.
LEMMA DeletionGoesOn ==
  ASSUME TypeOK, LockKnown, NEW p \in Procs, Step(p), NEW l \in Locks, DeletedUnderLock(l)
  PROVE  DeletedUnderLock(l)' \/ l \in marred' \/ RemoveLast(p, l)
<1> USE DEF TypeOK, DeletedUnderLock, Local
<1>0. None \notin Procs
  BY AbsenceIsNew
<1>1. CASE Builds(p)
  BY <1>1 DEF Builds, BuildStage, BuildLease, BuildEnter, BuildLeave, BuildReuse, BuildInstall,
     BuildFails, BuildFailsMounted, BuildPublish, BuildFinds, BuildFinally
<1>2. CASE Cleans(p)
  BY <1>2 DEF Cleans, CleanBegin, CleanConfirm, CleanStaging, CleanOpen, CleanEnds, CleanPick
<1>3. CASE Removes(p)
  <2>1. PICK k \in Locks :
          DeleteLocked(p, k) \/ RemoveSome(p, k) \/ RemoveLast(p, k) \/ RemoveFails(p, k)
    BY <1>3 DEF Removes
  <2>2. CASE DeleteLocked(p, k)
    BY <1>0, <2>2 DEF DeleteLocked
  <2>3. CASE RemoveSome(p, k)
    BY <2>3 DEF RemoveSome
  <2>4. CASE RemoveLast(p, k)
    BY <1>0, <2>4 DEF RemoveLast
  <2>5. CASE RemoveFails(p, k)
    BY <1>0, <2>5 DEF RemoveFails
  <2>6. QED BY <2>1, <2>2, <2>3, <2>4, <2>5
<1>4. CASE Creates(p)
  BY <1>4 DEF Creates, CreateLook, CreateFindsSeed, CreateSeed, CreatePublish,
     CreateFails, RemoveWorkspace
<1>5. CASE Dies(p)
  BY <1>0, <1>5 DEF Dies, Kill, KillParent
<1>6. QED BY <1>1, <1>2, <1>3, <1>4, <1>5, StepCases

\* A removal begins under the lock, or with a cleanup that finds a directory
\* which is no base.
LEMMA RemovalBegins ==
  ASSUME TypeOK, LockKnown, NEW p \in Procs, Step(p),
         NEW l \in Locks, NEW q \in Procs, Removing(q, l)'
  PROVE  \/ Removing(q, l) /\ ~RemoveLast(p, l)
         \/ DeletedUnderLock(l)'
         \/ CleanOpen(p) /\ loc[p].lock = l
<1> USE DEF TypeOK, DeletedUnderLock, Local, NoLocal
<1>1. CASE Builds(p)
  BY <1>1 DEF Builds, BuildStage, BuildLease, BuildEnter, BuildLeave, BuildReuse, BuildInstall,
     BuildFails, BuildFailsMounted, BuildPublish, BuildFinds, BuildFinally, RemoveLast
<1>2. CASE Cleans(p)
  BY <1>2 DEF Cleans, CleanBegin, CleanConfirm, CleanStaging, CleanOpen, CleanEnds, CleanPick,
     RemoveLast
<1>3. CASE Removes(p)
  <2>1. PICK k \in Locks :
          DeleteLocked(p, k) \/ RemoveSome(p, k) \/ RemoveLast(p, k) \/ RemoveFails(p, k)
    BY <1>3 DEF Removes
  <2>2. CASE DeleteLocked(p, k)
    BY <2>2 DEF DeleteLocked, RemoveLast
  <2>3. CASE RemoveLast(p, l)
    BY <2>3 DEF RemoveLast
  <2>4. CASE RemoveSome(p, k) \/ RemoveLast(p, k) \/ RemoveFails(p, k)
    <3>1. CASE RemoveLast(p, l)
      BY <2>3, <3>1
    <3>2. CASE ~RemoveLast(p, l)
      BY <2>4, <3>2 DEF RemoveSome, RemoveLast, RemoveFails
    <3>3. QED BY <3>1, <3>2
  <2>5. QED BY <2>1, <2>2, <2>4
<1>4. CASE Creates(p)
  BY <1>4 DEF Creates, CreateLook, CreateFindsSeed, CreateSeed, CreatePublish,
     CreateFails, RemoveWorkspace, RemoveLast
<1>5. CASE Dies(p)
  BY <1>5 DEF Dies, Kill, KillParent, RemoveLast
<1>6. QED BY <1>1, <1>2, <1>3, <1>4, <1>5, StepCases

LEMMA BrokenStep ==
  ASSUME TypeOK, LockKnown, SeedsInside, BrokenOnlyByDeletion, NEW p \in Procs, Step(p)
  PROVE  BrokenOnlyByDeletion'
<1> DEFINE Intact(l) == targets[l] \in {"absent", "whole"} /\ seeds[l] # "torn"
           Quiet(l) == \A q \in Procs : ~Removing(q, l)
<1> SUFFICES ASSUME NEW l \in Locks, ~DeletedUnderLock(l)', l \notin marred'
             PROVE  Intact(l)' /\ Quiet(l)'
  BY DEF BrokenOnlyByDeletion
<1>0. l \notin marred
  BY MarredGrows
<1>1. CASE RemoveLast(p, l)
  <2>1. targets'[l] = "absent" /\ seeds'[l] = None
    BY <1>1 DEF RemoveLast, TypeOK
  <2>2. Quiet(l)'
    BY <1>1, RemovalBegins DEF RemoveLast, CleanOpen, TypeOK
  <2>3. None # "torn"
    BY AbsenceIsNew
  <2>4. QED BY <2>1, <2>2, <2>3
<1>2. CASE ~RemoveLast(p, l)
  <2>1. ~DeletedUnderLock(l)
    BY <1>2, DeletionGoesOn
  <2>2. Intact(l) /\ Quiet(l)
    BY <1>0, <2>1 DEF BrokenOnlyByDeletion
  <2>3. ~(CleanOpen(p) /\ loc[p].lock = l)
    BY <2>2 DEF CleanOpen, Reusable
  <2>4. Quiet(l)'
    BY <2>2, <2>3, RemovalBegins
  <2>5. Intact(l)'
    <3>1. CASE BuildPublish(p)
      BY <2>2, <3>1 DEF BuildPublish, TypeOK
    <3>2. CASE CreateSeed(p)
      BY <2>2, <3>2 DEF CreateSeed, TypeOK
    <3>3. ASSUME NEW k \in Locks, RemoveSome(p, k) \/ RemoveLast(p, k) PROVE Intact(l)'
      BY <1>2, <2>2, <3>3 DEF RemoveSome, RemoveLast, TypeOK
    <3>4. CASE UNCHANGED store
      BY <2>2, <3>4
    <3>5. QED BY <3>1, <3>2, <3>3, <3>4, StoreSteps
  <2>6. QED BY <2>4, <2>5
<1>3. QED BY <1>1, <1>2

LEMMA UnusedStep ==
  ASSUME TypeOK, LockKnown, DeletedUnused, NEW p \in Procs, Step(p)
  PROVE  DeletedUnused'
<1> SUFFICES ASSUME NEW l \in Locks, DeletedUnderLock(l)', l \notin marred'
             PROVE  Dependents(l)' = {}
  BY DEF DeletedUnused
<1>0. l \notin marred
  BY MarredGrows
<1>1. CASE DeleteLocked(p, l)
  BY <1>1 DEF DeleteLocked, Dependents
<1>2. CASE ~DeleteLocked(p, l)
  <2>1. DeletedUnderLock(l)
    <3> USE DEF TypeOK, DeletedUnderLock, Local, NoLocal
    <3>0. None \notin Procs
      BY AbsenceIsNew
    <3>1. CASE Builds(p)
      BY <3>1 DEF Builds, BuildStage, BuildLease, BuildEnter, BuildLeave, BuildReuse,
         BuildInstall, BuildFails, BuildFailsMounted, BuildPublish, BuildFinds, BuildFinally
    <3>2. CASE Cleans(p)
      BY <3>2 DEF Cleans, CleanBegin, CleanConfirm, CleanStaging, CleanOpen, CleanEnds, CleanPick
    <3>3. CASE Removes(p)
      <4>1. PICK k \in Locks :
              DeleteLocked(p, k) \/ RemoveSome(p, k) \/ RemoveLast(p, k) \/ RemoveFails(p, k)
        BY <3>3 DEF Removes
      <4>2. CASE DeleteLocked(p, k)
        <5>1. k # l
          BY <1>2, <4>2
        <5>2. QED BY <3>0, <4>2, <5>1 DEF DeleteLocked, LockKnown
      <4>3. CASE RemoveSome(p, k)
        BY <4>3 DEF RemoveSome
      <4>4. CASE RemoveLast(p, k)
        BY <3>0, <4>4 DEF RemoveLast
      <4>5. CASE RemoveFails(p, k)
        BY <3>0, <4>5 DEF RemoveFails
      <4>6. QED BY <4>1, <4>2, <4>3, <4>4, <4>5
    <3>4. CASE Creates(p)
      BY <3>4 DEF Creates, CreateLook, CreateFindsSeed, CreateSeed, CreatePublish,
         CreateFails, RemoveWorkspace
    <3>5. CASE Dies(p)
      BY <3>0, <3>5 DEF Dies, Kill, KillParent
    <3>6. QED BY <3>1, <3>2, <3>3, <3>4, <3>5, StepCases
  <2>2. Dependents(l) = {}
    BY <1>0, <2>1 DEF DeletedUnused
  <2>3. lifecycle # None
    BY <2>1, AbsenceIsNew DEF DeletedUnderLock
  <2>4. workspaces' \subseteq workspaces
    BY <2>3, StepCases DEF Builds, BuildStage, BuildLease, BuildEnter, BuildLeave, BuildReuse,
       BuildInstall, BuildFails, BuildFailsMounted, BuildPublish, BuildFinds, BuildFinally,
       Cleans, CleanBegin, CleanConfirm, CleanStaging, CleanOpen, CleanEnds, CleanPick,
       Removes, DeleteLocked, RemoveSome, RemoveLast, RemoveFails, Creates, CreateLook,
       CreateFindsSeed, CreateSeed, CreatePublish, CreateFails, RemoveWorkspace, Dies, Kill,
       KillParent
  <2>5. QED BY <2>2, <2>4 DEF Dependents
<1>3. QED BY <1>1, <1>2

\* While nobody holds the lifecycle lock, a base is whole or its removal went wrong.
LEMMA UnlockedIsWhole ==
  ASSUME BrokenOnlyByDeletion, SeedsInside, lifecycle = None,
         NEW l \in Locks, l \notin marred, seeds[l] # None
  PROVE  targets[l] = "whole" /\ seeds[l] # "torn"
<1>1. ~DeletedUnderLock(l)
  BY AbsenceIsNew DEF DeletedUnderLock
<1>2. QED BY <1>1 DEF BrokenOnlyByDeletion, SeedsInside

LEMMA WorkspacesFrom ==
  ASSUME NEW p \in Procs, Step(p)
  PROVE  CreatePublish(p) \/ workspaces' \subseteq workspaces
BY StepCases DEF Builds, BuildStage, BuildLease, BuildEnter, BuildLeave, BuildReuse,
   BuildInstall, BuildFails, BuildFailsMounted, BuildPublish, BuildFinds, BuildFinally,
   Cleans, CleanBegin, CleanConfirm, CleanStaging, CleanOpen, CleanEnds, CleanPick,
   Removes, DeleteLocked, RemoveSome, RemoveLast, RemoveFails, Creates, CreateLook,
   CreateFindsSeed, CreateSeed, CreateFails, RemoveWorkspace, Dies, Kill, KillParent

LEMMA TreeWholeStep ==
  ASSUME TypeOK, LockKnown, SeedsInside, BrokenOnlyByDeletion, WorkspaceTreeWhole,
         NEW p \in Procs, Step(p)
  PROVE  WorkspaceTreeWhole'
<1> SUFFICES ASSUME NEW w \in workspaces', w.tree = "torn", w.base \notin marred'
             PROVE  FALSE
  BY DEF WorkspaceTreeWhole
<1>1. w.base \notin marred
  BY MarredGrows
<1>2. w \notin workspaces
  BY <1>1 DEF WorkspaceTreeWhole
<1>3. CreatePublish(p) /\ loc[p].lock \in Locks
  BY <1>2, WorkspacesFrom DEF CreatePublish, LockKnown
<1>4. w = [base |-> loc[p].lock, tree |-> seeds[loc[p].lock]]
  BY <1>2, <1>3 DEF CreatePublish
<1>5. QED BY <1>1, <1>3, <1>4, UnlockedIsWhole DEF CreatePublish

LEMMA BaseKeptStep ==
  ASSUME TypeOK, LockKnown, SeedsInside, BrokenOnlyByDeletion, DeletedUnused,
         WorkspaceBaseKept, NEW p \in Procs, Step(p)
  PROVE  WorkspaceBaseKept'
<1> SUFFICES ASSUME NEW w \in workspaces', w.base \notin marred'
             PROVE  targets'[w.base] = "whole"
  BY DEF WorkspaceBaseKept
<1>1. w.base \notin marred
  BY MarredGrows
<1>2. CASE w \in workspaces
  <2>1. w.base \in Locks /\ targets[w.base] = "whole"
    BY <1>1, <1>2 DEF WorkspaceBaseKept, TypeOK
  <2>2. CASE BuildPublish(p)
    BY <2>1, <2>2 DEF BuildPublish, TypeOK
  <2>3. ASSUME NEW l \in Locks, RemoveSome(p, l) \/ RemoveLast(p, l)
        PROVE  targets'[w.base] = "whole"
    <3>1. l # w.base
      <4>1. CASE l = w.base
        <5>1. Removing(p, l)
          BY <2>3 DEF RemoveSome, RemoveLast
        <5>2. DeletedUnderLock(l)
          BY <1>1, <4>1, <5>1 DEF BrokenOnlyByDeletion
        <5>3. QED BY <1>1, <1>2, <4>1, <5>2 DEF DeletedUnused, Dependents
      <4>2. QED BY <4>1
    <3>2. QED BY <2>1, <2>3, <3>1 DEF RemoveSome, RemoveLast, TypeOK
  <2>4. CASE CreateSeed(p) \/ UNCHANGED store
    BY <2>1, <2>4 DEF CreateSeed
  <2>5. QED BY <2>2, <2>3, <2>4, StoreSteps
<1>3. CASE w \notin workspaces
  <2>1. CreatePublish(p) /\ loc[p].lock \in Locks
    BY <1>3, WorkspacesFrom DEF CreatePublish, LockKnown
  <2>2. w = [base |-> loc[p].lock, tree |-> seeds[loc[p].lock]]
    BY <1>3, <2>1 DEF CreatePublish
  <2>3. QED BY <1>1, <2>1, <2>2, UnlockedIsWhole DEF CreatePublish
<1>4. QED BY <1>2, <1>3

-----------------------------------------------------------------------------
(* The theorems.                                                           *)

LEMMA InitInductive == ASSUME Init PROVE Inductive
<1> USE DEF Init, NoLocal
<1>1. TypeOK
  BY DEF TypeOK, Conditions, Trees, Local
<1>2. StagingsDistinct /\ LiveStagingKept /\ InspectionHolds /\ MountsAccounted /\ HostDevSpared
  BY DEF StagingsDistinct, LiveStagingKept, InspectionHolds, MountsAccounted, HostDevSpared
<1>3. LockKnown
  BY AbsenceIsNew DEF LockKnown
<1>4. SeedsInside /\ DeletedUnused /\ WorkspaceTreeWhole /\ WorkspaceBaseKept
  BY DEF SeedsInside, DeletedUnused, DeletedUnderLock, WorkspaceTreeWhole, WorkspaceBaseKept
<1>5. BrokenOnlyByDeletion
  BY AbsenceIsNew DEF BrokenOnlyByDeletion
<1>6. QED BY <1>1, <1>2, <1>3, <1>4, <1>5 DEF Inductive

LEMMA NextInductive == ASSUME Inductive, [Next]_vars PROVE Inductive'
<1> USE DEF Inductive
<1>1. CASE UNCHANGED vars
  BY <1>1 DEF vars, TypeOK, StagingsDistinct, LiveStagingKept, InspectionHolds,
     MountsAccounted, HostDevSpared, LockKnown, SeedsInside, BrokenOnlyByDeletion,
     DeletedUnused, DeletedUnderLock, Dependents, WorkspaceTreeWhole, WorkspaceBaseKept
<1>2. ASSUME NEW p \in Procs, Step(p) PROVE Inductive'
  <2>1. TypeOK'
    <3>1. ControlOK' /\ SharedOK'
      BY <1>2, ControlTyped, SharedTyped, TypeParts
    <3>2. QED BY <3>1 DEF TypeOK, ControlOK, SharedOK
  <2>2. StagingsDistinct' /\ LiveStagingKept' /\ InspectionHolds' /\ MountsAccounted'
    BY <1>2, DistinctStep, LiveStep, InspectionStep, MountsStep
  <2>3. HostDevSpared'
    BY <2>1, <2>2, HostDevLemma, PTL
  <2>4. LockKnown' /\ SeedsInside' /\ BrokenOnlyByDeletion'
    BY <1>2, LockStep, SeedsStep, BrokenStep
  <2>5. DeletedUnused' /\ WorkspaceTreeWhole' /\ WorkspaceBaseKept'
    BY <1>2, UnusedStep, TreeWholeStep, BaseKeptStep
  <2>6. QED BY <2>1, <2>2, <2>3, <2>4, <2>5
<1>3. QED BY <1>1, <1>2 DEF Next

\* The invariant of the directory of bases, its builders, the cleanup tool, the
\* deletion and the creation of workspaces.
THEOREM InductiveHolds == Spec => []Inductive
<1>1. Init => Inductive
  BY InitInductive
<1>2. Inductive /\ [Next]_vars => Inductive'
  BY NextInductive
<1>3. QED BY <1>1, <1>2, PTL DEF Spec

\* The cleanup tool never removes the directory of a running build.
THEOREM BuildsUndisturbed == Spec => []LiveStagingKept
<1>1. Inductive => LiveStagingKept
  BY DEF Inductive
<1>2. QED BY <1>1, InductiveHolds, PTL

\* No removal reaches the host's /dev through a mount that could be undone.
THEOREM HostUndisturbed == Spec => []HostDevSpared
<1>1. Inductive => HostDevSpared
  BY DEF Inductive
<1>2. QED BY <1>1, InductiveHolds, PTL

\* Half a base only comes from a deletion, or from a removal that broke off.
THEOREM BasesWhole == Spec => []BrokenOnlyByDeletion
<1>1. Inductive => BrokenOnlyByDeletion
  BY DEF Inductive
<1>2. QED BY <1>1, InductiveHolds, PTL

\* A workspace gets a complete tree, whatever happened to bases meanwhile.
THEOREM WorkspacesWhole == Spec => []WorkspaceTreeWhole
<1>1. Inductive => WorkspaceTreeWhole
  BY DEF Inductive
<1>2. QED BY <1>1, InductiveHolds, PTL

\* The base of a workspace stays.
THEOREM BaseOutlivesWorkspace == Spec => []WorkspaceBaseKept
<1>1. Inductive => WorkspaceBaseKept
  BY DEF Inductive
<1>2. QED BY <1>1, InductiveHolds, PTL

-----------------------------------------------------------------------------
(* Refinement.                                                             *)

LEMMA InitRefines == ASSUME Init PROVE Abstract!Init
BY DEF Init, Abstract!Init, Bases

\* Only publications and removals change a directory of bases.
LEMMA NextRefines == ASSUME Inductive, [Next]_vars PROVE [Abstract!Next]_Bases
<1> USE DEF Inductive, TypeOK
<1>1. CASE UNCHANGED targets
  BY <1>1 DEF Bases
<1>2. ASSUME NEW p \in Procs, BuildPublish(p) PROVE Abstract!Next
  <2>1. loc[p].lock \in Locks
    BY <1>2 DEF BuildPublish, LockKnown
  <2>2. Bases[loc[p].lock] = "none"
    BY <1>2, <2>1 DEF BuildPublish, Bases
  <2>3. Bases' = [Bases EXCEPT ![loc[p].lock] = "whole"]
    BY <1>2, <2>1 DEF BuildPublish, Bases
  <2>4. QED BY <2>1, <2>2, <2>3 DEF Abstract!Next, Abstract!Publish
<1>3. ASSUME NEW p \in Procs, NEW l \in Locks, RemoveSome(p, l) PROVE Abstract!Next
  <2>1. PICK c \in Less(targets[l]) : targets' = [targets EXCEPT ![l] = c]
    BY <1>3 DEF RemoveSome
  <2>2. c \in {"torn", "partial", "headless"} /\ targets[l] # "absent"
    BY <2>1, LessIsBroken
  <2>3. Bases[l] # "none" /\ Bases' = [Bases EXCEPT ![l] = "going"]
    BY <2>1, <2>2 DEF Bases
  <2>4. QED BY <2>3 DEF Abstract!Next, Abstract!Remove
<1>4. ASSUME NEW p \in Procs, NEW l \in Locks, RemoveLast(p, l)
      PROVE  [Abstract!Next]_Bases
  <2>1. Bases' = [Bases EXCEPT ![l] = "none"]
    BY <1>4 DEF RemoveLast, Bases
  <2>2. CASE targets[l] = "absent"
    BY <2>2, <1>4 DEF RemoveLast, Bases
  <2>3. CASE targets[l] # "absent"
    <3>1. Bases[l] # "none"
      BY <2>3 DEF Bases
    <3>2. QED BY <2>1, <3>1 DEF Abstract!Next, Abstract!Remove
  <2>4. QED BY <2>2, <2>3
<1>5. ASSUME NEW p \in Procs, CreateSeed(p) PROVE UNCHANGED targets
  BY <1>5 DEF CreateSeed
<1>6. CASE UNCHANGED vars
  BY <1>1, <1>6 DEF vars
<1>7. ASSUME NEW p \in Procs, Step(p) PROVE [Abstract!Next]_Bases
  BY <1>1, <1>2, <1>3, <1>4, <1>5, <1>7, StoreSteps
<1>8. QED BY <1>6, <1>7 DEF Next

\* The directory of bases may be read without a lock: a base is there as a
\* whole or not at all, until its removal begins.
THEOREM ImplementsBases == Spec => ImplementsPublishedBases
<1>1. Init => Abstract!Init
  BY InitRefines
<1>2. Inductive /\ [Next]_vars => [Abstract!Next]_Bases
  BY NextRefines
<1>3. QED BY <1>1, <1>2, InductiveHolds, PTL DEF Spec, ImplementsPublishedBases, Abstract!Spec

=============================================================================
