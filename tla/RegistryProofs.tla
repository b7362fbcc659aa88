---------------------------- MODULE RegistryProofs ----------------------------
(***************************************************************************)
(* WorkspaceLifecycle implements WorkspaceRegistry, for all values of the  *)
(* constants: every step of a command, of a container left over or of a    *)
(* recovery is a step of the registry or none.  What the operation         *)
(* receipts tell is true, and a recovery leaves no open receipt behind it. *)
(***************************************************************************)
EXTENDS WorkspaceLifecycleProofs

USE DEF CreateSteps, ResetSteps, LifecycleSteps, WorkspaceSteps, Steps

-----------------------------------------------------------------------------
(* Trees that nobody wrote to.                                             *)

\* Control points at which a process has a staging directory of its own making.
OwnSteps == {"create_extract", "create_publish", "reset_extract", "reset_exchange"}

\* What a command wrote to is there, and no staging directory that a create or
\* reset fills was written to, or can be by a container left over.
Clean ==
  /\ touched \subseteq staging \cup Published
  /\ \A p \in Procs : pc[p] \in OwnSteps => loc[p].dir \notin touched \cup orphans

\* A directory is new to a process, or was its own already.
OwnDirectory(p) ==
  pc'[p] \in OwnSteps =>
    \/ pc[p] \in OwnSteps /\ loc'[p].dir = loc[p].dir
    \/ FreshDir(loc'[p].dir)

\* A directory does not vanish with what was written to it.
NothingVanishes ==
  \A d \in staging \cup Published : d \in staging' \cup Published' \/ d \notin touched'

LEMMA SameDirectories ==
  ASSUME UNCHANGED <<wsDir, staging>>
  PROVE  NothingVanishes
BY DEF NothingVanishes, Published

LEMMA Removal ==
  ASSUME NEW d, RemoveTree(d), UNCHANGED wsDir
  PROVE  NothingVanishes /\ touched' \subseteq touched
BY DEF NothingVanishes, Published, RemoveTree

LEMMA CommandsClean ==
  ASSUME Inductive, NEW p \in Procs, Process(p)
  PROVE  orphans' = orphans /\ touched' \subseteq touched /\ OwnDirectory(p) /\ NothingVanishes
<1> USE DEF At, OwnSteps, OwnDirectory
<1>0. /\ pc \in [Procs -> Steps] /\ loc \in [Procs -> Local]
      /\ wsDir \in [Ids -> Dirs \cup {None}]
      /\ Fits(pc[p], loc[p], receipts)
  BY DEF Inductive, TypeOK, ControlOK
<1>1. CASE Create(p)
  <2>1. CASE \E n \in Names, t \in Targets : CreateRequest(p, n, t)
    BY <1>0, <2>1, SameDirectories DEF CreateRequest, Goto, shared
  <2>2. CASE (\E o \in OpIds : CreateBegin(p, o)) \/ CreateRefused(p)
    BY <1>0, <2>2, SameDirectories DEF CreateBegin, CreateRefused, Goto, Return, shared
  <2>3. ASSUME NEW d \in Dirs, CreateStage(p, d)
        PROVE orphans' = orphans /\ touched' \subseteq touched /\ OwnDirectory(p) /\ NothingVanishes
    <3>1. NothingVanishes
      BY <2>3 DEF NothingVanishes, Published, CreateStage
    <3>2. QED BY <1>0, <2>3, <3>1 DEF CreateStage, Goto, Local
  <2>4. CASE \E i \in Ids : CreateExtracted(p, i)
    BY <1>0, <2>4, SameDirectories DEF CreateExtracted, Goto, Local
  <2>5. CASE CreatePublish(p)
    <3>1. loc[p].id \in Ids /\ wsDir[loc[p].id] = None /\ wsDir'[loc[p].id] = loc[p].dir
            /\ loc[p].dir # None
      BY <1>0, <2>5, NoneIsNew DEF CreatePublish, Exists, Fits, OnWorkspace, InStaging
    <3>2. loc[p].dir \in Published'
      BY <3>1 DEF Published
    <3>3. Published \subseteq Published'
      BY <1>0, <2>5, <3>1 DEF Published, CreatePublish
    <3>4. NothingVanishes
      BY <2>5, <3>2, <3>3 DEF NothingVanishes, CreatePublish
    <3>5. QED BY <1>0, <2>5, <3>4 DEF CreatePublish, Goto
  <2>6. CASE CreateFails(p) \/ CreateFinish(p)
    BY <1>0, <2>6, SameDirectories DEF CreateFails, CreateFinish, Return
  <2>7. QED BY <1>1, <2>1, <2>2, <2>3, <2>4, <2>5, <2>6 DEF Create
<1>2. CASE Reset(p)
  <2>1. CASE (\E i \in Ids : ResetRequest(p, i)) \/ (\E o \in OpIds : ResetBegin(p, o))
             \/ ResetRefused(p)
    BY <1>0, <2>1, SameDirectories DEF ResetRequest, ResetBegin, ResetRefused, Goto, Return, shared
  <2>2. ASSUME NEW d \in Dirs, ResetStage(p, d)
        PROVE orphans' = orphans /\ touched' \subseteq touched /\ OwnDirectory(p) /\ NothingVanishes
    <3>1. NothingVanishes
      BY <2>2 DEF NothingVanishes, Published, ResetStage
    <3>2. QED BY <1>0, <2>2, <3>1 DEF ResetStage, Goto, Local
  <2>3. CASE ResetExtracted(p)
    BY <1>0, <2>3, SameDirectories DEF ResetExtracted, Goto
  <2>4. CASE ResetExchange(p)
    <3> DEFINE i == loc[p].id
    <3>1. i \in Ids /\ wsDir'[i] = loc[p].dir /\ loc[p].dir # None /\ wsDir[i] \in staging'
      BY <1>0, <2>4, NoneIsNew DEF ResetExchange, Fits, OnWorkspace, InStaging
    <3>2. loc[p].dir \in Published'
      BY <3>1 DEF Published
    <3>3. ASSUME NEW d \in Published PROVE d \in Published' \cup {wsDir[i]}
      <4>1. PICK j \in Ids : wsDir[j] = d /\ d # None
        BY DEF Published
      <4>2. j # i => wsDir'[j] = d
        BY <1>0, <2>4, <4>1 DEF ResetExchange
      <4>3. QED BY <4>1, <4>2 DEF Published
    <3>4. NothingVanishes
      BY <2>4, <3>1, <3>2, <3>3 DEF NothingVanishes, ResetExchange
    <3>5. QED BY <1>0, <2>4, <3>4 DEF ResetExchange, Goto
  <2>5. CASE ResetClean(p)
    BY <1>0, <2>5, Removal DEF ResetClean, Goto
  <2>6. CASE ResetNote(p) \/ ResetFails(p) \/ ResetBreaksOff(p)
    BY <1>0, <2>6, SameDirectories DEF ResetNote, ResetFails, ResetBreaksOff, Goto, Return
  <2>7. CASE ResetFinish(p) \/ ResetMismatch(p)
    BY <1>0, <2>7, SameDirectories DEF ResetFinish, ResetMismatch, Goto, Return, shared
  <2>8. QED BY <1>2, <2>1, <2>2, <2>3, <2>4, <2>5, <2>6, <2>7 DEF Reset
<1>3. CASE Remove(p) \/ TakeLifecycle(p) \/ NotFound(p)
  <2>1. CASE RemoveUnpublish(p)
    <3> DEFINE i == loc[p].id
    <3>1. i \in Ids
      BY <1>0, <2>1 DEF RemoveUnpublish, Fits, OnWorkspace
    <3>2. ASSUME NEW d \in Published PROVE d \in Published' \cup {wsDir[i]}
      <4>1. PICK j \in Ids : wsDir[j] = d /\ d # None
        BY DEF Published
      <4>2. j # i => wsDir'[j] = d
        BY <1>0, <2>1, <4>1 DEF RemoveUnpublish
      <4>3. QED BY <4>1, <4>2 DEF Published
    <3>3. NothingVanishes
      BY <2>1, <3>1, <3>2 DEF NothingVanishes, RemoveUnpublish
    <3>4. QED BY <1>0, <2>1, <3>3 DEF RemoveUnpublish, Goto
  <2>2. CASE RemoveFinish(p)
    <3>1. NothingVanishes /\ touched' \subseteq touched
      BY <2>2, SameDirectories, Removal DEF RemoveFinish
    <3>2. QED BY <1>0, <2>2, <3>1 DEF RemoveFinish, Return
  <2>3. CASE (\E i \in Ids : RemoveRequest(p, i)) \/ RemoveRefused(p) \/ TakeLifecycle(p)
             \/ NotFound(p)
    BY <1>0, <2>3, SameDirectories DEF RemoveRequest, RemoveRefused, TakeLifecycle, NotFound,
       Goto, Return, shared
  <2>4. QED BY <1>3, <2>1, <2>2, <2>3 DEF Remove
<1>4. CASE Session(p)
  BY <1>0, <1>4, SameDirectories DEF Session, SessionRequest, SessionStart, RunCommits,
     SessionEnds, Goto, Return, shared
<1>5. CASE Delete(p)
  BY <1>0, <1>5, SameDirectories DEF Delete, DeleteRequest, DeleteBegin, DeleteRefused,
     DeleteReturns, Goto, Return, shared
<1>6. CASE Recover(p)
  <2>1. CASE \E d \in Dirs : RecoverRemoves(p, d)
    BY <1>0, <2>1, Removal DEF RecoverRemoves
  <2>2. CASE RecoverBegin(p) \/ (\E d \in Dirs : RecoverBreaksOff(p, d)) \/ RecoverSwept(p)
    BY <1>0, <2>2, SameDirectories DEF RecoverBegin, RecoverBreaksOff, RecoverSwept,
       Goto, Return, shared
  <2>3. CASE \E o \in OpIds : RecoverCreate(p, o) \/ RecoverReset(p, o)
    BY <1>0, <2>3, SameDirectories DEF RecoverCreate, RecoverReset, NextReceipt, Settle
  <2>4. CASE (\E o \in OpIds : RecoverRaises(p, o)) \/ RecoverFinish(p)
    BY <1>0, <2>4, SameDirectories DEF RecoverRaises, RecoverFinish, Return
  <2>5. QED BY <1>6, <2>1, <2>2, <2>3, <2>4 DEF Recover
<1>7. QED BY <1>1, <1>2, <1>3, <1>4, <1>5, <1>6 DEF Process

LEMMA SessionsInPublished ==
  ASSUME Inductive, NEW p \in Procs, pc[p] \in InSession
  PROVE  loc[p].dir \in Published /\ loc[p].dir \notin staging
<1>1. loc[p].id \in Ids /\ wsDir[loc[p].id] = loc[p].dir /\ Exists(loc[p].id)
  BY SessionsPublished DEF Inductive, StepsOK, HoldsWorkspace
<1>2. QED BY <1>1, TreesApart DEF Published, Exists

LEMMA OwnInStaging ==
  ASSUME Inductive, NEW p \in Procs, pc[p] \in OwnSteps
  PROVE  loc[p].dir \in staging
BY DEF Inductive, StepsOK, HoldsStaging, InStaging, OwnSteps

LEMMA CleanStep ==
  ASSUME Inductive, Clean, [Next]_vars
  PROVE  Clean'
<1> USE DEF Clean
<1>1. ASSUME NEW p \in Procs, Process(p) PROVE Clean'
  <2>1. /\ Others(p) /\ orphans' = orphans /\ touched' \subseteq touched
        /\ OwnDirectory(p) /\ NothingVanishes
    BY <1>1, OthersStand, CommandsClean
  <2>2. touched' \subseteq staging' \cup Published'
    BY <2>1 DEF NothingVanishes
  <2>3. ASSUME NEW q \in Procs, pc'[q] \in OwnSteps PROVE loc'[q].dir \notin touched' \cup orphans'
    <3>1. CASE q # p
      BY <2>1, <2>3, <3>1 DEF Others
    <3>2. CASE q = p
      BY <2>1, <2>3, <3>2 DEF OwnDirectory, FreshDir
    <3>3. QED BY <3>1, <3>2
  <2>4. QED BY <2>2, <2>3
<1>2. ASSUME NEW p \in Procs, Crash(p) PROVE Clean'
  <2>1. /\ UNCHANGED <<wsDir, staging, touched>> /\ Others(p) /\ pc'[p] = "idle"
        /\ \/ orphans' = orphans
           \/ pc[p] \in InSession /\ orphans' = orphans \cup {loc[p].dir}
    BY <1>2 DEF Crash, Return, Others, At, InSession, Inductive, ControlOK
  <2>2. touched' \subseteq staging' \cup Published'
    BY <2>1 DEF Published
  <2>3. ASSUME NEW q \in Procs, pc'[q] \in OwnSteps PROVE loc'[q].dir \notin touched' \cup orphans'
    <3>1. pc[q] \in OwnSteps /\ pc'[q] = pc[q] /\ loc'[q] = loc[q]
      BY <2>1, <2>3 DEF Others, OwnSteps
    <3>2. loc[q].dir \in staging
      BY <3>1, OwnInStaging
    <3>3. QED BY <2>1, <3>1, <3>2, SessionsInPublished
  <2>4. QED BY <2>2, <2>3
<1>3. ASSUME NEW d \in Dirs, TargetWrites(d) PROVE Clean'
  <2>1. /\ UNCHANGED <<wsDir, staging, pc, loc, orphans>> /\ touched' = touched \cup {d}
        /\ d \in staging \cup Published
        /\ d \in orphans \/ \E q \in Procs : pc[q] \in InSession /\ loc[q].dir = d
    BY <1>3 DEF TargetWrites, At, InSession
  <2>2. touched' \subseteq staging' \cup Published'
    BY <2>1 DEF Published
  <2>3. ASSUME NEW q \in Procs, pc'[q] \in OwnSteps PROVE loc'[q].dir \notin touched' \cup orphans'
    <3>1. loc[q].dir \in staging
      BY <2>1, <2>3, OwnInStaging
    <3>2. loc[q].dir # d
      BY <2>1, <2>3, <3>1, SessionsInPublished
    <3>3. QED BY <2>1, <2>3, <3>2
  <2>4. QED BY <2>2, <2>3
<1>4. CASE (\E d \in Dirs : OrphanExits(d)) \/ (\E t \in Targets : RmtreeEnds(t) \/ EnsureTarget(t))
           \/ UNCHANGED vars
  <2>1. UNCHANGED <<wsDir, staging, touched, pc, loc>> /\ orphans' \subseteq orphans
    BY <1>4 DEF OrphanExits, RmtreeEnds, EnsureTarget, vars
  <2>2. QED BY <2>1 DEF Published
<1>5. QED BY <1>1, <1>2, <1>3, <1>4 DEF Next, Children

LEMMA CleanInit == Init => Clean
BY DEF Init, Clean, OwnSteps

-----------------------------------------------------------------------------
(* What the registry shows.                                                *)

Entry(i) ==
  [name |-> Record(i).name, target |-> Record(i).target,
   gen |-> Record(i).gen,
   tree |-> IF wsDir[i] \in touched THEN "touched" ELSE "pristine"]

LEMMA ViewIs ==
  ASSUME NEW i \in Ids
  PROVE  /\ RegistryView[i] = IF Exists(i) THEN Entry(i) ELSE None
         /\ RegistryView'[i] = IF Exists(i)' THEN Entry(i)' ELSE None
BY DEF RegistryView, Entry

\* A workspace whose directory nobody touches stays as it is.
LEMMA EntryStands ==
  ASSUME NEW i \in Ids, wsDir'[i] = wsDir[i],
         Exists(i) => /\ meta'[wsDir[i]] = meta[wsDir[i]]
                      /\ wsDir[i] \in touched' <=> wsDir[i] \in touched
  PROVE  RegistryView'[i] = RegistryView[i]
<1>1. Exists(i)' <=> Exists(i)
  BY DEF Exists
<1>2. Exists(i) => Entry(i)' = Entry(i)
  BY DEF Entry, Record
<1>3. QED BY <1>1, <1>2, ViewIs

LEMMA ViewStands ==
  ASSUME \A i \in Ids : RegistryView'[i] = RegistryView[i]
  PROVE  UNCHANGED RegistryView
BY DEF RegistryView

LEMMA ViewMoves ==
  ASSUME NEW i \in Ids, NEW e, RegistryView'[i] = e,
         \A j \in Ids \ {i} : RegistryView'[j] = RegistryView[j]
  PROVE  RegistryView' = [RegistryView EXCEPT ![i] = e]
BY DEF RegistryView

LEMMA EntryThere ==
  ASSUME Inductive, NEW i \in Ids, Exists(i)
  PROVE  RegistryView[i] = Entry(i) /\ Entry(i) \in Registry!Workspace /\ Registry!Here(i)
<1>1. RegistryView[i] = Entry(i)
  BY ViewIs
<1>2. Entry(i) \in Registry!Workspace
  BY RecordTyped DEF Entry, Registry!Workspace, Metadata
<1>3. QED BY <1>1, <1>2, AbsenceIsNoWorkspace DEF Registry!Here

LEMMA EntryMissing ==
  ASSUME NEW i \in Ids, ~Exists(i)
  PROVE  RegistryView[i] = None /\ ~Registry!Here(i)
BY ViewIs DEF Registry!Here

-----------------------------------------------------------------------------
(* The steps that the registry shows.                                      *)

LEMMA PublishRefines ==
  ASSUME Inductive, Clean, NEW p \in Procs, CreatePublish(p)
  PROVE  Registry!Next
<1>a. /\ pc[p] = "create_publish" /\ loc[p].id \in Ids /\ loc[p].name \in Names
      /\ loc[p].target \in Targets /\ loc[p].dir \in Dirs /\ wsDir \in [Ids -> Dirs \cup {None}]
  BY DEF CreatePublish, At, Inductive, TypeOK, ControlOK, Fits, OnWorkspace, InStaging,
     NamedSteps, TargetedSteps
<1>b. PICK i \in Ids, n \in Names, t \in Targets :
        i = loc[p].id /\ n = loc[p].name /\ t = loc[p].target
  BY <1>a
<1> DEFINE e == [name |-> n, target |-> t, gen |-> 0, tree |-> "pristine"]
<1>0. /\ pc[p] = "create_publish" /\ i = loc[p].id /\ n = loc[p].name /\ t = loc[p].target
      /\ loc[p].dir \in Dirs /\ wsDir \in [Ids -> Dirs \cup {None}]
  BY <1>a, <1>b
<1>1. ~Exists(i) /\ wsDir' = [wsDir EXCEPT ![i] = loc[p].dir] /\ UNCHANGED <<meta, touched>>
  BY <1>0 DEF CreatePublish
<1>2. /\ meta[loc[p].dir] = [id |-> i, name |-> n, target |-> t, gen |-> 0]
      /\ ~NameTaken(n)
  BY <1>0 DEF Inductive, StepsOK, MayPublish, At
<1>3. loc[p].dir \notin touched
  BY <1>0 DEF Clean, OwnSteps
<1>4. RegistryView'[i] = e
  <2>1. Exists(i)' /\ wsDir'[i] = loc[p].dir
    BY <1>0, <1>1, NoneIsNew DEF Exists
  <2>2. Record(i)' = [id |-> i, name |-> n, target |-> t, gen |-> 0]
    BY <1>1, <1>2, <2>1 DEF Record
  <2>3. wsDir'[i] \notin touched'
    BY <1>1, <1>3, <2>1
  <2>4. Entry(i)' = e
    <3>1. Record(i)'.name = n /\ Record(i)'.target = t /\ Record(i)'.gen = 0
      BY <2>2
    <3>2. QED BY <2>3, <3>1 DEF Entry
  <2>5. QED BY <2>1, <2>4, <1>0, ViewIs
<1>5. ASSUME NEW j \in Ids \ {i} PROVE RegistryView'[j] = RegistryView[j]
  BY <1>0, <1>1, EntryStands
<1>6. RegistryView' = [RegistryView EXCEPT ![i] = e]
  BY <1>0, <1>4, <1>5, ViewMoves
<1>7. ASSUME NEW j \in Ids, Registry!Here(j) PROVE RegistryView[j].name # n
  <2>1. Exists(j)
    BY <1>7, EntryMissing
  <2>2. RegistryView[j] = Entry(j) /\ Entry(j).name = Record(j).name
    BY <2>1, EntryThere DEF Entry
  <2>3. QED BY <1>2, <2>1, <2>2 DEF NameTaken
<1>8. Registry!Publish(i, n, t)
  BY <1>0, <1>1, <1>6, <1>7, EntryMissing DEF Registry!Publish
<1>9. QED BY <1>0, <1>8 DEF Registry!Next

\* A step that changes one entry that is there.
LEMMA OneEntryMoves ==
  ASSUME Inductive, NEW i \in Ids, Exists(i), NEW e, Exists(i)', Entry(i)' = e,
         \A j \in Ids \ {i} : RegistryView'[j] = RegistryView[j]
  PROVE  Registry!Here(i) /\ RegistryView[i] = Entry(i)
         /\ RegistryView' = [RegistryView EXCEPT ![i] = e]
BY ViewIs, ViewMoves, EntryThere

LEMMA ViewFunction == RegistryView = [i \in Ids |-> RegistryView[i]]
BY DEF RegistryView

LEMMA ExchangeRefines ==
  ASSUME Inductive, Clean, NEW p \in Procs, ResetExchange(p)
  PROVE  Registry!Next
<1>a. /\ pc[p] = "reset_exchange" /\ loc[p].id \in Ids /\ loc[p].dir \in Dirs
      /\ wsDir \in [Ids -> Dirs \cup {None}]
  BY DEF ResetExchange, At, Inductive, TypeOK, ControlOK, Fits, OnWorkspace, InStaging
<1>b. PICK i \in Ids, d \in Dirs : i = loc[p].id /\ d = loc[p].dir
  BY <1>a
<1> DEFINE e == [name |-> Record(i).name, target |-> Record(i).target,
                 gen |-> Record(i).gen + 1, tree |-> "pristine"]
<1>0. /\ pc[p] = "reset_exchange" /\ i = loc[p].id /\ d = loc[p].dir
      /\ wsDir \in [Ids -> Dirs \cup {None}]
  BY <1>a, <1>b
<1>1. Exists(i) /\ meta[d] = NextRevision(i, Record(i).gen)
  BY <1>0 DEF Inductive, StepsOK, HoldsWorkspace, MayExchange, At
<1>2. wsDir' = [wsDir EXCEPT ![i] = d] /\ UNCHANGED <<meta, touched>>
  BY <1>0 DEF ResetExchange
<1>3. d \notin touched
  BY <1>0 DEF Clean, OwnSteps
<1>4. Exists(i)' /\ wsDir'[i] = d
  BY <1>0, <1>2, NoneIsNew DEF Exists
<1>5. Entry(i)' = e
  <2>1. Record(i)' = [Record(i) EXCEPT !.gen = Record(i).gen + 1]
    BY <1>1, <1>2, <1>4 DEF Record, NextRevision
  <2>2. Record(i) \in Metadata
    BY <1>0, <1>1, RecordTyped
  <2>3. Record(i)'.name = Record(i).name /\ Record(i)'.target = Record(i).target
          /\ Record(i)'.gen = Record(i).gen + 1
    BY <2>1, <2>2 DEF Metadata
  <2>4. wsDir'[i] \notin touched'
    BY <1>2, <1>3, <1>4
  <2>5. QED BY <2>3, <2>4 DEF Entry
<1>6. ASSUME NEW j \in Ids \ {i} PROVE RegistryView'[j] = RegistryView[j]
  BY <1>0, <1>2, EntryStands
<1>7. Registry!Here(i) /\ RegistryView[i] = Entry(i) /\ RegistryView' = [RegistryView EXCEPT ![i] = e]
  BY <1>0, <1>1, <1>4, <1>5, <1>6, OneEntryMoves
<1>8. [Entry(i) EXCEPT !.gen = Entry(i).gen + 1, !.tree = "pristine"] = e
  <2> DEFINE r == Entry(i)
             q == [r EXCEPT !.gen = r.gen + 1]
  <2>1. q = [name |-> Record(i).name, target |-> Record(i).target,
             gen |-> Record(i).gen + 1, tree |-> r.tree]
    BY DEF Entry
  <2>2. [q EXCEPT !.tree = "pristine"] = e
    <3> HIDE DEF q
    <3>1. QED BY <2>1
  <2>3. [r EXCEPT !.gen = r.gen + 1, !.tree = "pristine"] = [q EXCEPT !.tree = "pristine"]
    <3> HIDE DEF r
    <3>1. QED OBVIOUS
  <2>4. QED BY <2>2, <2>3
<1>9. [RegistryView EXCEPT ![i].gen = @ + 1, ![i].tree = "pristine"] = [RegistryView EXCEPT ![i] = e]
  BY <1>0, <1>7, <1>8, ViewFunction
<1>10. Registry!Restore(i)
  BY <1>7, <1>9 DEF Registry!Restore
<1>11. QED BY <1>0, <1>10 DEF Registry!Next

LEMMA UnpublishRefines ==
  ASSUME Inductive, NEW p \in Procs, RemoveUnpublish(p)
  PROVE  Registry!Next
<1>a. pc[p] = "remove_locked" /\ loc[p].id \in Ids /\ wsDir \in [Ids -> Dirs \cup {None}]
  BY DEF RemoveUnpublish, At, Inductive, TypeOK, ControlOK, Fits, OnWorkspace
<1>b. PICK i \in Ids : i = loc[p].id
  BY <1>a
<1>0. pc[p] = "remove_locked" /\ i = loc[p].id /\ wsDir \in [Ids -> Dirs \cup {None}]
  BY <1>a, <1>b
<1>1. Exists(i)
  BY <1>0 DEF Inductive, StepsOK, HoldsWorkspace
<1>2. wsDir' = [wsDir EXCEPT ![i] = None] /\ UNCHANGED <<meta, touched>>
  BY <1>0 DEF RemoveUnpublish
<1>3. RegistryView'[i] = None
  BY <1>0, <1>2, ViewIs DEF Exists
<1>4. ASSUME NEW j \in Ids \ {i} PROVE RegistryView'[j] = RegistryView[j]
  BY <1>0, <1>2, EntryStands
<1>5. RegistryView' = [RegistryView EXCEPT ![i] = None]
  BY <1>0, <1>3, <1>4, ViewMoves
<1>6. Registry!Here(i)
  BY <1>0, <1>1, EntryThere
<1>7. QED BY <1>0, <1>5, <1>6 DEF Registry!Drop, Registry!Next

LEMMA CommitRefines ==
  ASSUME Inductive, NEW p \in Procs, RunCommits(p)
  PROVE  Registry!Next
<1>a. /\ pc[p] = "run_exec" /\ loc[p].id \in Ids /\ wsDir \in [Ids -> Dirs \cup {None}]
      /\ meta \in [Dirs -> Metadata \cup {None}] /\ Record(loc[p].id).gen = loc[p].gen
  BY DEF RunCommits, At, Inductive, TypeOK, ControlOK, Fits, OnWorkspace
<1>b. PICK i \in Ids : i = loc[p].id
  BY <1>a
<1> DEFINE e == [Entry(i) EXCEPT !.gen = Entry(i).gen + 1]
<1>0. /\ pc[p] = "run_exec" /\ i = loc[p].id /\ wsDir \in [Ids -> Dirs \cup {None}]
      /\ meta \in [Dirs -> Metadata \cup {None}] /\ Record(i).gen = loc[p].gen
  BY <1>a, <1>b
<1>1. Exists(i)
  BY <1>0, SessionsPublished DEF InSession
<1>2. /\ meta' = [meta EXCEPT ![wsDir[i]] = NextRevision(i, Record(i).gen)]
      /\ UNCHANGED <<wsDir, touched>>
  BY <1>0 DEF RunCommits
<1>3. wsDir[i] \in Dirs /\ Record(i) \in Metadata
  BY <1>0, <1>1, RecordTyped
<1>4. Exists(i)'
  BY <1>1, <1>2 DEF Exists
<1>5. Entry(i)' = e
  <2>1. Record(i)' = [Record(i) EXCEPT !.gen = Record(i).gen + 1]
    BY <1>0, <1>2, <1>3 DEF Record, NextRevision
  <2>2. Record(i)'.name = Record(i).name /\ Record(i)'.target = Record(i).target
          /\ Record(i)'.gen = Record(i).gen + 1
    BY <1>3, <2>1 DEF Metadata
  <2>3. Entry(i)' = [name |-> Record(i).name, target |-> Record(i).target,
                     gen |-> Record(i).gen + 1, tree |-> Entry(i).tree]
    BY <1>2, <2>2 DEF Entry
  <2>4. QED BY <2>3 DEF Entry
<1>6. ASSUME NEW j \in Ids \ {i} PROVE RegistryView'[j] = RegistryView[j]
  <2>1. Exists(j) => wsDir[j] # wsDir[i]
    BY <1>0, TreesApart
  <2>2. Exists(j) => meta'[wsDir[j]] = meta[wsDir[j]]
    BY <1>0, <1>2, <2>1 DEF Exists
  <2>3. QED BY <1>2, <2>2, EntryStands
<1>7. Registry!Here(i) /\ RegistryView[i] = Entry(i) /\ RegistryView' = [RegistryView EXCEPT ![i] = e]
  BY <1>0, <1>1, <1>4, <1>5, <1>6, OneEntryMoves
<1>8. [RegistryView EXCEPT ![i].gen = @ + 1] = [RegistryView EXCEPT ![i] = e]
  BY <1>0, <1>7, ViewFunction
<1>9. Registry!Commit(i)
  BY <1>7, <1>8 DEF Registry!Commit
<1>10. QED BY <1>0, <1>9 DEF Registry!Next

LEMMA WriteRefines ==
  ASSUME Inductive, NEW d \in Dirs, TargetWrites(d)
  PROVE  Registry!Next \/ UNCHANGED RegistryView
<1>1. UNCHANGED <<wsDir, meta>> /\ touched' = touched \cup {d}
  BY DEF TargetWrites
<1>2. CASE \A i \in Ids : Exists(i) => wsDir[i] # d
  BY <1>1, <1>2, EntryStands, ViewStands
<1>3. ASSUME NEW i \in Ids, Exists(i), wsDir[i] = d PROVE Registry!Next
  <2> DEFINE e == [Entry(i) EXCEPT !.tree = "touched"]
  <2>1. Exists(i)'
    BY <1>1, <1>3 DEF Exists
  <2>2. Entry(i)' = e
    <3>1. wsDir'[i] \in touched' /\ Record(i)' = Record(i)
      BY <1>1, <1>3 DEF Record
    <3>2. Entry(i)' = [name |-> Record(i).name, target |-> Record(i).target,
                       gen |-> Record(i).gen, tree |-> "touched"]
      BY <3>1 DEF Entry
    <3>3. QED BY <3>2 DEF Entry
  <2>3. ASSUME NEW j \in Ids \ {i} PROVE RegistryView'[j] = RegistryView[j]
    <3>1. Exists(j) => wsDir[j] # d
      BY <1>3, TreesApart
    <3>2. QED BY <1>1, <3>1, EntryStands
  <2>4. Registry!Here(i) /\ RegistryView[i] = Entry(i) /\ RegistryView' = [RegistryView EXCEPT ![i] = e]
    BY <1>3, <2>1, <2>2, <2>3, OneEntryMoves
  <2>5. [RegistryView EXCEPT ![i].tree = "touched"] = [RegistryView EXCEPT ![i] = e]
    BY <1>3, <2>4, ViewFunction
  <2>6. Registry!Touch(i)
    BY <2>4, <2>5 DEF Registry!Touch
  <2>7. QED BY <1>3, <2>6 DEF Registry!Next
<1>4. QED BY <1>2, <1>3

-----------------------------------------------------------------------------
(* The steps that the registry does not show.                              *)

\* What happens to directories below staging/ does not show.
LEMMA StagingQuiet ==
  ASSUME Inductive, UNCHANGED wsDir, NEW d, d \notin Published,
         \A x \in Dirs \ {d} : meta'[x] = meta[x] /\ (x \in touched' <=> x \in touched)
  PROVE  UNCHANGED RegistryView
<1>1. ASSUME NEW i \in Ids, Exists(i) PROVE wsDir[i] \in Dirs \ {d}
  BY <1>1, TreesApart DEF Published, Exists
<1>2. QED BY <1>1, EntryStands, ViewStands

LEMMA FilesQuiet ==
  ASSUME UNCHANGED <<wsDir, meta, touched>>
  PROVE  UNCHANGED RegistryView
BY EntryStands, ViewStands

LEMMA StagingUnpublished ==
  ASSUME Inductive, NEW d \in staging
  PROVE  d \notin Published
BY TreesApart DEF Published, Exists

LEMMA RemovalQuiet ==
  ASSUME Inductive, NEW d \in staging, RemoveTree(d), UNCHANGED wsDir
  PROVE  UNCHANGED RegistryView
<1>1. \A x \in Dirs \ {d} : meta'[x] = meta[x] /\ (x \in touched' <=> x \in touched)
  BY DEF RemoveTree, Inductive, TypeOK
<1>2. QED BY <1>1, StagingUnpublished, StagingQuiet

LEMMA CommandsRefine ==
  ASSUME Inductive, Clean, NEW p \in Procs, Process(p)
  PROVE  Registry!Next \/ UNCHANGED RegistryView
<1> USE DEF At
<1>0. meta \in [Dirs -> Metadata \cup {None}]
  BY DEF Inductive, TypeOK
<1>1. CASE Create(p)
  <2>1. CASE CreatePublish(p)
    BY <2>1, PublishRefines
  <2>2. CASE \E i \in Ids : CreateExtracted(p, i)
    <3>1. pc[p] = "create_extract" /\ UNCHANGED <<wsDir, touched>>
            /\ \A x \in Dirs \ {loc[p].dir} : meta'[x] = meta[x]
      BY <1>0, <2>2 DEF CreateExtracted
    <3>2. loc[p].dir \in staging
      BY <3>1, OwnInStaging DEF OwnSteps
    <3>3. QED BY <3>1, <3>2, StagingUnpublished, StagingQuiet
  <2>3. CASE (\E n \in Names, t \in Targets : CreateRequest(p, n, t))
             \/ (\E o \in OpIds : CreateBegin(p, o)) \/ CreateRefused(p)
             \/ (\E d \in Dirs : CreateStage(p, d)) \/ CreateFails(p) \/ CreateFinish(p)
    BY <2>3, FilesQuiet DEF CreateRequest, CreateBegin, CreateRefused, CreateStage, CreateFails,
       CreateFinish, shared
  <2>4. QED BY <1>1, <2>1, <2>2, <2>3 DEF Create
<1>2. CASE Reset(p)
  <2>1. CASE ResetExchange(p)
    BY <2>1, ExchangeRefines
  <2>2. CASE ResetExtracted(p)
    <3>1. pc[p] = "reset_extract" /\ UNCHANGED <<wsDir, touched>>
            /\ \A x \in Dirs \ {loc[p].dir} : meta'[x] = meta[x]
      BY <1>0, <2>2 DEF ResetExtracted
    <3>2. loc[p].dir \in staging
      BY <3>1, OwnInStaging DEF OwnSteps
    <3>3. QED BY <3>1, <3>2, StagingUnpublished, StagingQuiet
  <2>3. CASE ResetClean(p)
    <3>1. loc[p].dir \in staging /\ RemoveTree(loc[p].dir) /\ UNCHANGED wsDir
      BY <2>3 DEF ResetClean, Inductive, StepsOK, HoldsStaging, InStaging
    <3>2. QED BY <3>1, RemovalQuiet
  <2>4. CASE (\E i \in Ids : ResetRequest(p, i)) \/ (\E o \in OpIds : ResetBegin(p, o))
             \/ ResetRefused(p) \/ (\E d \in Dirs : ResetStage(p, d))
             \/ ResetNote(p) \/ ResetFails(p) \/ ResetBreaksOff(p) \/ ResetFinish(p)
             \/ ResetMismatch(p)
    BY <2>4, FilesQuiet DEF ResetRequest, ResetBegin, ResetRefused, ResetStage, ResetNote,
       ResetFails, ResetBreaksOff, ResetFinish, ResetMismatch, shared
  <2>5. QED BY <1>2, <2>1, <2>2, <2>3, <2>4 DEF Reset
<1>3. CASE Remove(p) \/ TakeLifecycle(p) \/ NotFound(p)
  <2>1. CASE RemoveUnpublish(p)
    BY <2>1, UnpublishRefines
  <2>2. CASE RemoveFinish(p)
    <3>1. loc[p].dir \in staging /\ UNCHANGED wsDir
      BY <2>2 DEF RemoveFinish, Inductive, StepsOK, HoldsStaging, InStaging
    <3>2. CASE RemoveTree(loc[p].dir)
      BY <3>1, <3>2, RemovalQuiet
    <3>3. CASE UNCHANGED <<staging, meta, touched>>
      BY <3>1, <3>3, FilesQuiet
    <3>4. QED BY <2>2, <3>2, <3>3 DEF RemoveFinish
  <2>3. CASE (\E i \in Ids : RemoveRequest(p, i)) \/ RemoveRefused(p) \/ TakeLifecycle(p)
             \/ NotFound(p)
    BY <2>3, FilesQuiet DEF RemoveRequest, RemoveRefused, TakeLifecycle, NotFound, shared
  <2>4. QED BY <1>3, <2>1, <2>2, <2>3 DEF Remove
<1>4. CASE Session(p)
  <2>1. CASE RunCommits(p)
    BY <2>1, CommitRefines
  <2>2. CASE (\E i \in Ids : SessionRequest(p, i)) \/ SessionStart(p) \/ SessionEnds(p)
    BY <2>2, FilesQuiet DEF SessionRequest, SessionStart, SessionEnds, shared
  <2>3. QED BY <1>4, <2>1, <2>2 DEF Session
<1>5. CASE Delete(p)
  BY <1>5, FilesQuiet DEF Delete, DeleteRequest, DeleteBegin, DeleteRefused, DeleteReturns, shared
<1>6. CASE Recover(p)
  <2>1. CASE \E d \in Dirs : RecoverRemoves(p, d)
    BY <2>1, RemovalQuiet DEF RecoverRemoves
  <2>2. CASE RecoverBegin(p) \/ (\E d \in Dirs : RecoverBreaksOff(p, d)) \/ RecoverSwept(p)
    BY <2>2, FilesQuiet DEF RecoverBegin, RecoverBreaksOff, RecoverSwept, shared
  <2>3. CASE \E o \in OpIds : RecoverCreate(p, o) \/ RecoverReset(p, o)
    BY <2>3, FilesQuiet DEF RecoverCreate, RecoverReset, Settle
  <2>4. CASE (\E o \in OpIds : RecoverRaises(p, o)) \/ RecoverFinish(p)
    BY <2>4, FilesQuiet DEF RecoverRaises, RecoverFinish
  <2>5. QED BY <1>6, <2>1, <2>2, <2>3, <2>4 DEF Recover
<1>7. QED BY <1>1, <1>2, <1>3, <1>4, <1>5, <1>6 DEF Process

LEMMA NextRefines ==
  ASSUME Inductive, Clean, [Next]_vars
  PROVE  [Registry!Next]_RegistryView
<1>1. CASE \E p \in Procs : Process(p)
  BY <1>1, CommandsRefine
<1>2. CASE \E p \in Procs : Crash(p)
  BY <1>2, FilesQuiet DEF Crash
<1>3. CASE \E d \in Dirs : TargetWrites(d)
  BY <1>3, WriteRefines
<1>4. CASE (\E d \in Dirs : OrphanExits(d)) \/ (\E t \in Targets : RmtreeEnds(t) \/ EnsureTarget(t))
           \/ UNCHANGED vars
  BY <1>4, FilesQuiet DEF OrphanExits, RmtreeEnds, EnsureTarget, vars
<1>5. QED BY <1>1, <1>2, <1>3, <1>4 DEF Next, Children

LEMMA InitRefines == Init => Registry!Init
BY DEF Init, Registry!Init, RegistryView, Exists

\* Every behaviour of the commands is one of the registry: publication and reset
\* are atomic, generations advance by one, and no container left over reaches a
\* tree that was reset.
THEOREM RegistryImplemented == Spec => ImplementsRegistry
<1>1. Init => Registry!Init
  BY InitRefines
<1>2. Inductive /\ Clean /\ [Next]_vars => [Registry!Next]_RegistryView
  BY NextRefines
<1>3. Inductive /\ Clean /\ [Next]_vars => Clean'
  BY CleanStep
<1>4. Init => Clean
  BY CleanInit
<1>5. QED BY <1>1, <1>2, <1>3, <1>4, InductiveHolds, PTL DEF Spec, ImplementsRegistry, Registry!Spec

-----------------------------------------------------------------------------
(* Which steps matter.                                                     *)

\* Staging directories and receipts are changed under the lifecycle lock only.
LEMMA Guarded ==
  ASSUME Inductive, NEW p \in Procs, Process(p)
  PROVE  \/ UNCHANGED <<staging, receipts, effect>>
         \/ pc[p] \in LifecycleSteps \/ lifecycle = None
<1> USE DEF At, shared, LockLifecycle
<1>1. CASE Create(p)
  BY <1>1 DEF Create, CreateRequest, CreateBegin, CreateRefused, CreateStage,
     CreateExtracted, CreatePublish, CreateFails, CreateFinish
<1>2. CASE Reset(p)
  BY <1>2 DEF Reset, ResetRequest, ResetBegin, ResetRefused, ResetStage,
     ResetExtracted, ResetFails, ResetExchange, ResetNote, ResetClean,
     ResetBreaksOff, ResetFinish, ResetMismatch
<1>3. CASE Remove(p) \/ TakeLifecycle(p) \/ NotFound(p)
  BY <1>3 DEF Remove, RemoveRequest, RemoveUnpublish, RemoveRefused, RemoveFinish,
     TakeLifecycle, NotFound
<1>4. CASE Session(p)
  BY <1>4 DEF Session, SessionRequest, SessionStart, RunCommits, SessionEnds
<1>5. CASE Delete(p)
  BY <1>5 DEF Delete, DeleteRequest, DeleteBegin, DeleteRefused, DeleteReturns
<1>6. CASE Recover(p)
  BY <1>6 DEF Recover, RecoverBegin, RecoverRemoves, RecoverBreaksOff, RecoverSwept,
     RecoverCreate, RecoverReset, RecoverRaises, RecoverFinish, NextReceipt, Settle
<1>7. QED BY <1>1, <1>2, <1>3, <1>4, <1>5, <1>6 DEF Process

\* Only the publication of a create makes a workspace.
LEMMA NewWorkspace ==
  ASSUME Inductive, NEW p \in Procs, Process(p), NEW i \in Ids, Exists(i)', ~Exists(i)
  PROVE  CreatePublish(p) /\ loc[p].id = i
<1> USE DEF Exists, shared
<1>0. wsDir \in [Ids -> Dirs \cup {None}]
  BY DEF Inductive, TypeOK
<1>1. CASE Create(p)
  BY <1>0, <1>1 DEF Create, CreateRequest, CreateBegin, CreateRefused, CreateStage,
     CreateExtracted, CreatePublish, CreateFails, CreateFinish
<1>2. CASE Reset(p)
  <2>1. CASE ResetExchange(p)
    <3>1. Exists(loc[p].id)
      BY <2>1 DEF ResetExchange, At, Inductive, StepsOK, HoldsWorkspace
    <3>2. QED BY <1>0, <2>1, <3>1 DEF ResetExchange
  <2>2. CASE ~ResetExchange(p)
    BY <1>2, <2>2 DEF Reset, ResetRequest, ResetBegin, ResetRefused, ResetStage,
       ResetExtracted, ResetFails, ResetNote, ResetClean, ResetBreaksOff, ResetFinish,
       ResetMismatch
  <2>3. QED BY <2>1, <2>2
<1>3. CASE Remove(p) \/ TakeLifecycle(p) \/ NotFound(p)
  BY <1>0, <1>3 DEF Remove, RemoveRequest, RemoveUnpublish, RemoveRefused, RemoveFinish,
     TakeLifecycle, NotFound
<1>4. CASE Session(p)
  BY <1>4 DEF Session, SessionRequest, SessionStart, RunCommits, SessionEnds
<1>5. CASE Delete(p)
  BY <1>5 DEF Delete, DeleteRequest, DeleteBegin, DeleteRefused, DeleteReturns
<1>6. CASE Recover(p)
  BY <1>6 DEF Recover, RecoverBegin, RecoverRemoves, RecoverBreaksOff, RecoverSwept,
     RecoverCreate, RecoverReset, RecoverRaises, RecoverFinish, Settle
<1>7. QED BY <1>1, <1>2, <1>3, <1>4, <1>5, <1>6 DEF Process

\* No generation goes back, and a workspace keeps its name and target: the
\* registry has no step that would change them.
LEMMA RevisionsMove ==
  ASSUME Inductive, Clean, [Next]_vars, NEW i \in Ids, Exists(i), Exists(i)'
  PROVE  /\ Record(i)'.gen \in {Record(i).gen, Record(i).gen + 1}
         /\ Record(i)'.name = Record(i).name /\ Record(i)'.target = Record(i).target
<1> DEFINE Moved(e, f) == f.gen \in {e.gen, e.gen + 1} /\ f.name = e.name /\ f.target = e.target
<1>1. RegistryView[i] = Entry(i) /\ Entry(i) \in Registry!Workspace
        /\ RegistryView'[i] = Entry(i)'
  BY EntryThere, ViewIs
<1>2. /\ Entry(i).gen = Record(i).gen /\ Entry(i)'.gen = Record(i)'.gen
      /\ Entry(i).name = Record(i).name /\ Entry(i)'.name = Record(i)'.name
      /\ Entry(i).target = Record(i).target /\ Entry(i)'.target = Record(i)'.target
  BY DEF Entry
<1>3. Moved(RegistryView[i], RegistryView'[i])
  <2>1. CASE UNCHANGED RegistryView
    BY <2>1
  <2>2. ASSUME NEW j \in Ids, NEW n \in Names, NEW t \in Targets, Registry!Publish(j, n, t)
        PROVE  RegistryView'[i] = RegistryView[i]
    <3>1. j # i
      BY <2>2, EntryThere DEF Registry!Publish
    <3>2. QED BY <2>2, <3>1, ViewFunction DEF Registry!Publish
  <2>3. ASSUME NEW j \in Ids, Registry!Touch(j) PROVE Moved(RegistryView[i], RegistryView'[i])
    <3>1. RegistryView'[i] = IF i = j THEN [Entry(i) EXCEPT !.tree = "touched"] ELSE RegistryView[i]
      BY <1>1, <2>3, ViewFunction DEF Registry!Touch
    <3>2. QED BY <1>1, <3>1 DEF Registry!Workspace
  <2>4. ASSUME NEW j \in Ids, Registry!Commit(j) \/ Registry!Restore(j)
        PROVE  Moved(RegistryView[i], RegistryView'[i])
    <3>1. CASE i # j
      BY <2>4, <3>1, ViewFunction DEF Registry!Commit, Registry!Restore
    <3>2. CASE i = j
      <4>1. RegistryView'[i] \in {[Entry(i) EXCEPT !.gen = Entry(i).gen + 1],
              [[Entry(i) EXCEPT !.gen = Entry(i).gen + 1] EXCEPT !.tree = "pristine"]}
        BY <1>1, <2>4, <3>2, ViewFunction DEF Registry!Commit, Registry!Restore
      <4>2. QED BY <1>1, <4>1 DEF Registry!Workspace
    <3>3. QED BY <3>1, <3>2
  <2>5. ASSUME NEW j \in Ids, Registry!Drop(j) PROVE RegistryView'[i] = RegistryView[i]
    <3>1. i # j
      <4>1. Record(i)' \in Metadata
        BY NextInductive DEF Inductive, TreesOK
      <4>2. Entry(i)' \in Registry!Workspace
        BY <4>1 DEF Entry, Registry!Workspace, Metadata
      <4>3. Entry(i)' # None
        BY <4>2, AbsenceIsNoWorkspace
      <4>4. QED BY <1>1, <2>5, <4>3, ViewFunction DEF Registry!Drop
    <3>2. QED BY <2>5, <3>1, ViewFunction DEF Registry!Drop
  <2>6. QED BY <2>1, <2>2, <2>3, <2>4, <2>5, NextRefines DEF Registry!Next
<1>4. QED BY <1>1, <1>2, <1>3

LEMMA GenerationsGrow ==
  ASSUME Inductive, Clean, [Next]_vars, NEW i \in Ids, Exists(i), Exists(i)'
  PROVE  Record(i)'.gen >= Record(i).gen
<1>1. Record(i).gen \in Nat
  BY DEF Inductive, TreesOK, Metadata
<1>2. QED BY <1>1, RevisionsMove

-----------------------------------------------------------------------------
(* What is true of every receipt.                                          *)

\* Control points of an operation on either side of its publication.
Before == {"create_check", "create_extract", "create_publish",
           "reset_stage", "reset_extract", "reset_exchange"}
After == {"create_finish", "reset_note", "reset_clean", "reset_finish"}

\* The receipt of o tells the truth, and while a workspace that o reset is
\* there, its generation is past the one o began with.
True(o) ==
  LET r == receipts[o] IN
  /\ o \in effect => r # None
  /\ r # None =>
       /\ r.phase = "failed" /\ (r.operation = "reset" \/ ~r.recovered) => o \notin effect
       /\ r.phase \in {"published", "completed"} /\ ~r.recovered => o \in effect
       /\ r.operation = "reset" =>
            /\ r.id \in Ids
            /\ o \in effect /\ Exists(r.id) => Record(r.id).gen > r.before

\* What an operation under way knows of its own receipt, and a create of the
\* id it is about to publish.
Mine(p) ==
  LET r == receipts[loc[p].op] IN
  /\ pc[p] \in Before => r.phase \in {"started", "staged"} /\ loc[p].op \notin effect
  /\ pc[p] \in After => loc[p].op \in effect
  /\ pc[p] \in CreateSteps => r.operation = "create"
  /\ pc[p] \in ResetSteps => r.operation = "reset" /\ r.id = loc[p].id
  /\ At(p, "create_publish") =>
       \A o \in OpIds : receipts[o] # None => receipts[o].id # loc[p].id

Told == (\A o \in OpIds : True(o)) /\ (\A p \in Procs : Mine(p))

Untouched(o) == receipts'[o] = receipts[o] /\ (o \in effect' <=> o \in effect)

\* A receipt that nobody touches stays true: generations grow, and no
\* workspace comes to be under the id of an earlier one.
LEMMA StaysTrue ==
  ASSUME Inductive, Clean, Told, [Next]_vars, NEW o \in OpIds, Untouched(o)
  PROVE  True(o)'
<1>1. True(o)
  BY DEF Told
<1>2. ASSUME receipts[o] # None, receipts[o].operation = "reset", o \in effect,
             Exists(receipts[o].id)'
      PROVE  Record(receipts[o].id)'.gen > receipts[o].before
  <2>1. PICK i \in Ids : i = receipts[o].id
    BY <1>1, <1>2 DEF True
  <2>2. Exists(i)'
    BY <1>2, <2>1 DEF Untouched
  <2>3. Exists(i)
    <3>1. SUFFICES ASSUME ~Exists(i) PROVE FALSE
      OBVIOUS
    <3>2. ASSUME NEW p \in Procs, Process(p) PROVE FALSE
      <4>1. pc[p] = "create_publish" /\ loc[p].id = i
        BY <2>2, <3>1, <3>2, NewWorkspace DEF CreatePublish, At
      <4>2. QED BY <1>2, <2>1, <4>1 DEF Told, Mine, At
    <3>3. CASE \E p \in Procs : Crash(p)
      BY <2>2, <3>1, <3>3 DEF Crash, Exists
    <3>4. CASE Children \/ (\E t \in Targets : EnsureTarget(t)) \/ UNCHANGED vars
      BY <2>2, <3>1, <3>4 DEF Children, TargetWrites, OrphanExits, RmtreeEnds, EnsureTarget,
         vars, Exists
    <3>5. QED BY <3>2, <3>3, <3>4 DEF Next
  <2>4. Record(i)'.gen >= Record(i).gen
    BY <2>2, <2>3, GenerationsGrow
  <2>5. Record(i).gen > receipts[o].before
    BY <1>1, <1>2, <2>1, <2>3 DEF True
  <2>6. Record(i).gen \in Nat /\ Record(i)'.gen \in Nat
    <3>1. Record(i) \in Metadata /\ Record(i)' \in Metadata
      BY <2>2, <2>3, NextInductive DEF Inductive, TreesOK
    <3>2. QED BY <3>1 DEF Metadata
  <2>7. receipts[o].before \in Nat
    BY <1>2 DEF Inductive, TypeOK, Receipt
  <2>8. Record(i)'.gen > receipts[o].before
    BY <2>4, <2>5, <2>6, <2>7
  <2>9. QED BY <2>1, <2>8 DEF Untouched
<1>3. QED BY <1>1, <1>2 DEF True, Untouched

\* An operation is undisturbed by the others.
LEMMA OthersKnow ==
  ASSUME Inductive, Told, NEW p \in Procs, Process(p), NEW q \in Procs, q # p
  PROVE  Mine(q)'
<1>1. pc'[q] = pc[q] /\ loc'[q] = loc[q] /\ Mine(q)
  BY OthersStand DEF Others, Told
<1>2. CASE UNCHANGED <<receipts, effect>>
  BY <1>1, <1>2 DEF Mine, At
<1>3. CASE pc[q] \notin LifecycleSteps
  BY <1>1, <1>3 DEF Mine, At, Before, After
<1>4. QED BY <1>2, <1>3, Guarded, Alone

\* What a step of p owes: its own knowledge, and the receipts it changes.
Tells(p) == Mine(p)' /\ \A o \in OpIds : Untouched(o) \/ True(o)'

LEMMA Phased ==
  ASSUME NEW o \in OpIds, receipts[o] \in Receipt, NEW phase
  PROVE  LET r == Phase(o, phase) IN
         /\ r.phase = phase /\ r.operation = receipts[o].operation
         /\ r.id = receipts[o].id /\ r.before = receipts[o].before
BY DEF Phase, Receipt

\* A process at no recorded control point knows nothing of a receipt.
LEMMA KnowsNothing ==
  ASSUME NEW p \in Procs, pc'[p] \notin RecordedSteps
  PROVE  Mine(p)'
BY DEF Mine, At, Before, After, RecordedSteps

LEMMA CreateTells ==
  ASSUME Inductive, Told, NEW p \in Procs, Create(p)
  PROVE  Tells(p)
<1> USE DEF At, Tells, Goto, Return
<1>0. /\ pc \in [Procs -> Steps] /\ loc \in [Procs -> Local] /\ Mine(p)
      /\ receipts \in [OpIds -> Receipt \cup {None}] /\ wsDir \in [Ids -> Dirs \cup {None}]
      /\ Fits(pc[p], loc[p], receipts)
      /\ \A o \in OpIds : True(o)
  BY DEF Inductive, TypeOK, ControlOK, Told
<1>1. CASE (\E n \in Names, t \in Targets : CreateRequest(p, n, t)) \/ CreateRefused(p)
  BY <1>0, <1>1, KnowsNothing DEF CreateRequest, CreateRefused, RecordedSteps, Untouched, shared
<1>2. ASSUME NEW o \in OpIds, CreateBegin(p, o) PROVE Tells(p)
  <2>1. /\ receipts[o] = None /\ UNCHANGED effect
        /\ receipts' = [receipts EXCEPT ![o] =
             Started("create", None, loc[p].name, loc[p].target, 0)]
    BY <1>2 DEF CreateBegin, StartReceipt
  <2>2. receipts'[o].operation = "create" /\ receipts'[o].phase = "started" /\ o \notin effect
    BY <1>0, <2>1 DEF Started, True
  <2>3. True(o)'
    BY <2>1, <2>2 DEF True
  <2>4. pc'[p] = "create_check" /\ loc'[p].op = o
    BY <1>0, <1>2 DEF CreateBegin, Local
  <2>5. Mine(p)'
    BY <2>1, <2>2, <2>4 DEF Mine, Before, After
  <2>6. QED BY <1>0, <2>1, <2>3, <2>5 DEF Untouched
<1>3. ASSUME NEW d \in Dirs, CreateStage(p, d) PROVE Tells(p)
  <2>1. /\ pc[p] = "create_check" /\ pc'[p] = "create_extract"
        /\ loc'[p].op = loc[p].op /\ UNCHANGED <<receipts, effect>>
    BY <1>0, <1>3 DEF CreateStage, Local
  <2>2. QED BY <1>0, <2>1 DEF Mine, Before, After, Untouched
<1>4. ASSUME NEW i \in Ids, CreateExtracted(p, i) PROVE Tells(p)
  <2>1. /\ pc[p] = "create_extract" /\ pc'[p] = "create_publish"
        /\ loc'[p].op = loc[p].op /\ loc'[p].id = i /\ UNCHANGED <<receipts, effect>>
    BY <1>0, <1>4 DEF CreateExtracted, Local
  <2>2. \A o \in OpIds : receipts[o] # None => receipts[o].id # i
    BY <1>4 DEF CreateExtracted, FreshId
  <2>3. QED BY <1>0, <2>1, <2>2 DEF Mine, Before, After, Untouched
<1>5. CASE CreatePublish(p)
  <2>1. /\ pc[p] = "create_publish" /\ pc'[p] = "create_finish"
        /\ effect' = effect \cup {loc[p].op} /\ UNCHANGED <<loc, receipts>>
    BY <1>0, <1>5 DEF CreatePublish
  <2>2. PICK o \in OpIds : o = loc[p].op /\ receipts[o] \in Receipt
    BY <1>0, <2>1 DEF Fits, RecordedSteps
  <2>3. receipts[o] # None /\ receipts[o].operation = "create"
          /\ receipts[o].phase \in {"started", "staged"}
    BY <1>0, <2>1, <2>2, NoneIsNoReceipt DEF Mine, Before
  <2>4. True(o)'
    BY <2>1, <2>3 DEF True
  <2>5. Mine(p)'
    BY <1>0, <2>1 DEF Mine, Before, After
  <2>6. QED BY <2>1, <2>2, <2>4, <2>5 DEF Untouched
<1>6. CASE CreateFails(p)
  <2>1. /\ pc[p] \in Before \cap CreateSteps /\ pc'[p] = "idle" /\ UNCHANGED effect
        /\ WriteReceipt(loc[p].op, Phase(loc[p].op, "failed"))
    BY <1>0, <1>6 DEF CreateFails, Before
  <2>2. PICK o \in OpIds : o = loc[p].op /\ receipts[o] \in Receipt
    BY <1>0, <2>1 DEF Fits, RecordedSteps
  <2>3. o \notin effect /\ receipts[o].operation = "create"
    BY <1>0, <2>1, <2>2 DEF Mine
  <2>4. CASE UNCHANGED receipts
    BY <2>1, <2>4, KnowsNothing DEF Untouched, RecordedSteps
  <2>5. CASE receipts' = [receipts EXCEPT ![o] = Phase(o, "failed")]
    <3>1. receipts'[o].phase = "failed" /\ receipts'[o].operation = "create" /\ o \notin effect'
      BY <1>0, <2>1, <2>2, <2>3, <2>5, Phased
    <3>2. True(o)'
      BY <3>1 DEF True
    <3>3. QED BY <1>0, <2>1, <2>5, <3>2, KnowsNothing DEF Untouched, RecordedSteps
  <2>6. QED BY <2>1, <2>2, <2>4, <2>5 DEF WriteReceipt
<1>7. CASE CreateFinish(p)
  <2>1. /\ pc[p] = "create_finish" /\ pc'[p] = "idle" /\ UNCHANGED effect
        /\ WriteReceipt(loc[p].op, [Phase(loc[p].op, "completed") EXCEPT !.id = loc[p].id])
    BY <1>0, <1>7 DEF CreateFinish
  <2>2. PICK o \in OpIds : o = loc[p].op /\ receipts[o] \in Receipt
    BY <1>0, <2>1 DEF Fits, RecordedSteps
  <2>3. o \in effect /\ receipts[o].operation = "create"
    BY <1>0, <2>1, <2>2 DEF Mine, After
  <2>4. CASE UNCHANGED receipts
    BY <2>1, <2>4, KnowsNothing DEF Untouched, RecordedSteps
  <2>5. CASE receipts' = [receipts EXCEPT ![o] = [Phase(o, "completed") EXCEPT !.id = loc[p].id]]
    <3>1. [Phase(o, "completed") EXCEPT !.id = loc[p].id].phase = "completed"
            /\ [Phase(o, "completed") EXCEPT !.id = loc[p].id].operation = "create"
      BY <2>2, <2>3 DEF Phase, Receipt
    <3>2. receipts'[o] = [Phase(o, "completed") EXCEPT !.id = loc[p].id] /\ receipts[o] # None
      BY <1>0, <2>2, <2>5, NoneIsNoReceipt
    <3>3. [Phase(o, "completed") EXCEPT !.id = loc[p].id] \in Receipt
      <4>1. Phase(o, "completed") \in Receipt /\ loc[p].id \in Ids
        BY <1>0, <2>1, <2>2, PhaseTyped DEF Fits, OnWorkspace
      <4>2. QED BY <4>1 DEF Receipt
    <3>4. receipts'[o].phase = "completed" /\ receipts'[o].operation = "create"
            /\ o \in effect' /\ receipts'[o] # None
      BY <2>1, <2>3, <3>1, <3>2, <3>3, NoneIsNoReceipt
    <3>5. True(o)'
      BY <3>4 DEF True
    <3>6. QED BY <1>0, <2>1, <2>5, <3>5, KnowsNothing DEF Untouched, RecordedSteps
  <2>6. QED BY <2>1, <2>2, <2>4, <2>5 DEF WriteReceipt
<1>8. QED BY <1>1, <1>2, <1>3, <1>4, <1>5, <1>6, <1>7 DEF Create

\* A reset that marks its own receipt.
LEMMA Marks ==
  ASSUME NEW o \in OpIds, receipts \in [OpIds -> Receipt \cup {None}],
         receipts[o] \in Receipt, NEW phase \in {"staged", "published", "completed", "failed"},
         receipts' = [receipts EXCEPT ![o] = Phase(o, phase)]
  PROVE  /\ receipts'[o] \in Receipt /\ receipts'[o] # None /\ receipts'[o].phase = phase
         /\ receipts'[o].operation = receipts[o].operation
         /\ receipts'[o].id = receipts[o].id /\ receipts'[o].before = receipts[o].before
         /\ \A q \in OpIds \ {o} : receipts'[q] = receipts[q]
BY Phased, PhaseTyped, NoneIsNoReceipt

\* Marking a receipt true to what happened, with the workspaces as they are.
LEMMA MarksTrue ==
  ASSUME NEW o \in OpIds, True(o), receipts \in [OpIds -> Receipt \cup {None}],
         receipts[o] \in Receipt, receipts[o].operation = "reset",
         NEW phase \in {"staged", "published", "completed", "failed"},
         receipts' = [receipts EXCEPT ![o] = Phase(o, phase)],
         UNCHANGED effect, phase = "failed" => o \notin effect,
         phase \in {"published", "completed"} => o \in effect,
         \A i \in Ids : Exists(i)' => Exists(i) /\ Record(i)'.gen = Record(i).gen
  PROVE  True(o)'
<1>1. PICK r : r = receipts'[o]
  OBVIOUS
<1>2. /\ r # None /\ r.phase = phase /\ r.operation = "reset"
      /\ r.id = receipts[o].id /\ r.before = receipts[o].before
  BY <1>1, Marks
<1>3. receipts[o] # None
  BY NoneIsNoReceipt
<1>4. PICK i \in Ids : i = r.id
  BY <1>2, <1>3 DEF True
<1>5. o \in effect /\ Exists(i) => Record(i).gen > r.before
  BY <1>2, <1>3, <1>4 DEF True
<1>6. o \in effect /\ Exists(i)' => Record(i)'.gen > r.before
  BY <1>5
<1>7. QED BY <1>1, <1>2, <1>4, <1>6 DEF True

LEMMA ResetTells ==
  ASSUME Inductive, Clean, Told, NEW p \in Procs, Reset(p)
  PROVE  Tells(p)
<1> USE DEF At, Tells, Goto, Return
<1>0. /\ pc \in [Procs -> Steps] /\ loc \in [Procs -> Local] /\ Mine(p)
      /\ receipts \in [OpIds -> Receipt \cup {None}] /\ wsDir \in [Ids -> Dirs \cup {None}]
      /\ Fits(pc[p], loc[p], receipts)
      /\ \A o \in OpIds : True(o)
  BY DEF Inductive, TypeOK, ControlOK, Told
<1>1. CASE (\E i \in Ids : ResetRequest(p, i)) \/ ResetRefused(p) \/ ResetMismatch(p)
  BY <1>0, <1>1, KnowsNothing DEF ResetRequest, ResetRefused, ResetMismatch, RecordedSteps,
     Untouched, shared
<1>2. ASSUME NEW o \in OpIds, ResetBegin(p, o) PROVE Tells(p)
  <2>1. PICK i \in Ids : i = loc[p].id
    BY <1>0, <1>2 DEF ResetBegin, Fits, OnWorkspace
  <2>2. /\ receipts[o] = None /\ UNCHANGED effect
        /\ receipts' = [receipts EXCEPT ![o] =
             Started("reset", i, Record(i).name, Record(i).target, Record(i).gen)]
    BY <1>2, <2>1 DEF ResetBegin, StartReceipt
  <2>3. /\ receipts'[o].operation = "reset" /\ receipts'[o].phase = "started"
        /\ receipts'[o].id = i /\ o \notin effect
    BY <1>0, <2>2 DEF Started, True
  <2>4. True(o)'
    BY <2>2, <2>3 DEF True
  <2>5. pc'[p] = "reset_stage" /\ loc'[p].op = o /\ loc'[p].id = i
    BY <1>0, <1>2, <2>1 DEF ResetBegin, Local
  <2>6. Mine(p)'
    BY <2>2, <2>3, <2>5 DEF Mine, Before, After
  <2>7. QED BY <1>0, <2>2, <2>4, <2>6 DEF Untouched
<1>3. ASSUME NEW d \in Dirs, ResetStage(p, d) PROVE Tells(p)
  <2>1. /\ pc[p] = "reset_stage" /\ pc'[p] = "reset_extract"
        /\ loc'[p].op = loc[p].op /\ loc'[p].id = loc[p].id /\ UNCHANGED <<receipts, effect>>
    BY <1>0, <1>3 DEF ResetStage, Local
  <2>2. QED BY <1>0, <2>1 DEF Mine, Before, After, Untouched
<1>4. ASSUME pc[p] \in ResetSteps
      PROVE  \E o \in OpIds, i \in Ids :
               /\ o = loc[p].op /\ i = loc[p].id /\ receipts[o] \in Receipt
               /\ receipts[o].operation = "reset" /\ receipts[o].id = i
               /\ pc[p] \in Before => o \notin effect /\ receipts[o].phase \in {"started", "staged"}
               /\ pc[p] \in After => o \in effect
  BY <1>0, <1>4 DEF Mine, Fits, RecordedSteps, OnWorkspace
<1>5. CASE ResetExtracted(p)
  <2>1. PICK o \in OpIds : /\ o = loc[p].op /\ receipts[o] \in Receipt
                           /\ receipts[o].operation = "reset" /\ receipts[o].id = loc[p].id
                           /\ o \notin effect
    BY <1>4, <1>5 DEF ResetExtracted, Before
  <2>2. /\ pc'[p] = "reset_exchange" /\ UNCHANGED <<wsDir, loc, effect>>
        /\ receipts' = [receipts EXCEPT ![o] = Phase(o, "staged")]
    BY <1>0, <1>5, <2>1 DEF ResetExtracted
  <2>3. /\ receipts'[o] # None /\ receipts'[o].phase = "staged"
        /\ receipts'[o].operation = "reset" /\ receipts'[o].id = loc[p].id
        /\ \A q \in OpIds \ {o} : receipts'[q] = receipts[q]
    BY <1>0, <2>1, <2>2, Marks
  <2>4. True(o)'
    <3>1. loc[p].id \in Ids
      BY <1>0, <1>5 DEF ResetExtracted, Fits, OnWorkspace
    <3>2. QED BY <2>1, <2>2, <2>3, <3>1 DEF True
  <2>5. Mine(p)'
    BY <2>1, <2>2, <2>3 DEF Mine, Before, After
  <2>6. QED BY <2>2, <2>3, <2>4, <2>5 DEF Untouched
<1>6. CASE ResetFails(p)
  <2>1. PICK o \in OpIds : /\ o = loc[p].op /\ receipts[o] \in Receipt
                           /\ receipts[o].operation = "reset" /\ o \notin effect
    BY <1>4, <1>6 DEF ResetFails, Before
  <2>2. /\ pc'[p] = "idle" /\ UNCHANGED <<wsDir, meta, effect>>
        /\ WriteReceipt(o, Phase(o, "failed"))
    BY <1>0, <1>6, <2>1 DEF ResetFails
  <2>3. Mine(p)'
    BY <2>2, KnowsNothing DEF RecordedSteps
  <2>4. CASE UNCHANGED receipts
    BY <2>2, <2>3, <2>4 DEF Untouched
  <2>5. CASE receipts' = [receipts EXCEPT ![o] = Phase(o, "failed")]
    <3>1. True(o)'
      BY <1>0, <2>1, <2>2, <2>5, MarksTrue DEF Exists, Record
    <3>2. QED BY <1>0, <2>1, <2>2, <2>3, <2>5, <3>1, Marks DEF Untouched
  <2>6. QED BY <2>2, <2>4, <2>5 DEF WriteReceipt
<1>7. CASE ResetExchange(p)
  <2>1. PICK o \in OpIds, i \in Ids :
          /\ o = loc[p].op /\ i = loc[p].id /\ receipts[o] \in Receipt
          /\ receipts[o].operation = "reset" /\ receipts[o].id = i
          /\ receipts[o].phase \in {"started", "staged"}
    BY <1>4, <1>7 DEF ResetExchange, Before
  <2>2. PICK d : d = loc[p].dir
    OBVIOUS
  <2>3. /\ pc[p] = "reset_exchange" /\ pc'[p] = "reset_note" /\ loc'[p].op = o /\ loc'[p].id = i
        /\ wsDir' = [wsDir EXCEPT ![i] = d] /\ UNCHANGED <<meta, receipts>>
        /\ effect' = effect \cup {o}
    BY <1>0, <1>7, <2>1, <2>2 DEF ResetExchange, Local
  <2>4. /\ Exists(i) /\ receipts[o].before = Record(i).gen
        /\ meta[d] = NextRevision(i, receipts[o].before)
    BY <2>1, <2>2, <2>3 DEF Inductive, StepsOK, HoldsWorkspace, MayExchange
  <2>5. Record(i) \in Metadata
    BY <2>4, RecordTyped
  <2>6. Record(i)'.gen > receipts[o].before
    <3>1. Record(i)' = NextRevision(i, receipts[o].before)
      BY <1>0, <2>3, <2>4 DEF Record
    <3>2. Record(i)' = [Record(i) EXCEPT !.gen = Record(i).gen + 1]
      BY <2>4, <3>1 DEF NextRevision
    <3>3. Record(i)'.gen = Record(i).gen + 1 /\ Record(i).gen \in Nat
      BY <2>5, <3>2 DEF Metadata
    <3>4. QED BY <2>4, <3>3
  <2>7. True(o)'
    BY <2>1, <2>3, <2>6, NoneIsNoReceipt DEF True
  <2>8. Mine(p)'
    BY <2>1, <2>3 DEF Mine, Before, After
  <2>9. QED BY <2>3, <2>7, <2>8 DEF Untouched
<1>8. CASE ResetNote(p)
  <2>1. PICK o \in OpIds : /\ o = loc[p].op /\ receipts[o] \in Receipt
                           /\ receipts[o].operation = "reset" /\ receipts[o].id = loc[p].id
                           /\ o \in effect
    BY <1>4, <1>8 DEF ResetNote, After
  <2>2. /\ pc'[p] = "reset_clean" /\ UNCHANGED <<wsDir, meta, loc, effect>>
        /\ receipts' = [receipts EXCEPT ![o] = Phase(o, "published")]
    BY <1>0, <1>8, <2>1 DEF ResetNote
  <2>3. /\ receipts'[o].operation = "reset" /\ receipts'[o].id = loc[p].id
        /\ \A q \in OpIds \ {o} : receipts'[q] = receipts[q]
    BY <1>0, <2>1, <2>2, Marks
  <2>4. True(o)'
    BY <1>0, <2>1, <2>2, MarksTrue DEF Exists, Record
  <2>5. Mine(p)'
    BY <2>1, <2>2, <2>3 DEF Mine, Before, After
  <2>6. QED BY <2>2, <2>3, <2>4, <2>5 DEF Untouched
<1>9. CASE ResetClean(p)
  <2>1. /\ pc[p] = "reset_clean" /\ pc'[p] = "reset_finish" /\ UNCHANGED <<loc, receipts, effect>>
    BY <1>0, <1>9 DEF ResetClean
  <2>2. QED BY <1>0, <2>1 DEF Mine, Before, After, Untouched
<1>10. CASE ResetBreaksOff(p)
  BY <1>0, <1>10, KnowsNothing DEF ResetBreaksOff, RecordedSteps, Untouched
<1>11. CASE ResetFinish(p)
  <2>1. PICK o \in OpIds : /\ o = loc[p].op /\ receipts[o] \in Receipt
                           /\ receipts[o].operation = "reset" /\ o \in effect
    BY <1>4, <1>11 DEF ResetFinish, After
  <2>2. /\ pc'[p] \in {"idle", "reset_mismatch"} /\ UNCHANGED <<wsDir, meta, effect>>
        /\ receipts' = [receipts EXCEPT ![o] = Phase(o, "completed")]
    BY <1>0, <1>11, <2>1 DEF ResetFinish
  <2>3. True(o)'
    BY <1>0, <2>1, <2>2, MarksTrue DEF Exists, Record
  <2>4. QED BY <1>0, <2>1, <2>2, <2>3, Marks, KnowsNothing DEF Untouched, RecordedSteps
<1>12. QED BY <1>1, <1>2, <1>3, <1>5, <1>6, <1>7, <1>8, <1>9, <1>10, <1>11 DEF Reset

\* What a recovery writes into a receipt.
LEMMA Settled ==
  ASSUME NEW p \in Procs, NEW o \in OpIds, receipts \in [OpIds -> Receipt \cup {None}],
         receipts[o] \in Receipt, NEW phase \in {"completed", "failed"},
         NEW i \in Ids \cup {None}, Settle(p, o, phase, i)
  PROVE  /\ receipts'[o] # None /\ receipts'[o].phase = phase /\ receipts'[o].id = i
         /\ receipts'[o].recovered
         /\ receipts'[o].operation = receipts[o].operation
         /\ receipts'[o].before = receipts[o].before
         /\ \A q \in OpIds \ {o} : receipts'[q] = receipts[q]
<1> DEFINE a == [receipts[o] EXCEPT !.phase = phase]
           b == [a EXCEPT !.recovered = TRUE]
           c == [b EXCEPT !.id = i]
<1>1. /\ a.phase = phase /\ a.operation = receipts[o].operation /\ a.before = receipts[o].before
      /\ a \in Receipt
  BY DEF Receipt
<1>2. /\ b.phase = phase /\ b.operation = receipts[o].operation /\ b.before = receipts[o].before
      /\ b.recovered /\ b \in Receipt
  <2> HIDE DEF a
  <2>1. QED BY <1>1 DEF Receipt
<1>3. /\ c.phase = phase /\ c.operation = receipts[o].operation /\ c.before = receipts[o].before
      /\ c.recovered /\ c.id = i /\ c \in Receipt
  <2> HIDE DEF b
  <2>1. QED BY <1>2 DEF Receipt
<1>4. receipts' = [receipts EXCEPT ![o] = c]
  BY DEF Settle
<1>5. c # None
  BY <1>3, NoneIsNoReceipt
<1> HIDE DEF c
<1>6. QED BY <1>3, <1>4, <1>5

LEMMA RecoverTells ==
  ASSUME Inductive, Told, NEW p \in Procs, Recover(p)
  PROVE  Tells(p)
<1> USE DEF At, Tells, Goto, Return
<1>0. /\ pc \in [Procs -> Steps] /\ loc \in [Procs -> Local]
      /\ receipts \in [OpIds -> Receipt \cup {None}]
      /\ \A o \in OpIds : True(o)
  BY DEF Inductive, TypeOK, ControlOK, Told
<1>1. CASE \/ RecoverBegin(p) \/ RecoverSwept(p) \/ RecoverFinish(p)
           \/ \E d \in Dirs : RecoverRemoves(p, d) \/ RecoverBreaksOff(p, d)
           \/ \E o \in OpIds : RecoverRaises(p, o)
  BY <1>0, <1>1, KnowsNothing DEF RecoverBegin, RecoverSwept, RecoverFinish, RecoverRemoves,
     RecoverBreaksOff, RecoverRaises, NextReceipt, RecordedSteps, Untouched, shared
<1>2. ASSUME NEW o \in OpIds, RecoverCreate(p, o) \/ RecoverReset(p, o) PROVE Mine(p)'
  BY <1>0, <1>2, KnowsNothing DEF RecoverCreate, RecoverReset, NextReceipt, Settle, RecordedSteps
<1>3. ASSUME NEW o \in OpIds, RecoverCreate(p, o) PROVE Tells(p)
  <2>1. receipts[o] \in Receipt /\ receipts[o].operation = "create"
    BY <1>0, <1>3 DEF RecoverCreate, NextReceipt, Open
  <2>2. PICK phase \in {"completed", "failed"}, i \in Ids \cup {None} : Settle(p, o, phase, i)
    BY <1>3 DEF RecoverCreate, CreateMatches
  <2>3. /\ receipts'[o] # None /\ receipts'[o].recovered /\ receipts'[o].operation = "create"
        /\ receipts'[o].phase \in {"completed", "failed"}
        /\ \A q \in OpIds \ {o} : receipts'[q] = receipts[q]
    BY <1>0, <2>1, <2>2, Settled
  <2>4. True(o)'
    BY <2>3 DEF True
  <2>5. QED BY <1>2, <1>3, <2>2, <2>3, <2>4 DEF Untouched, Settle
<1>4. ASSUME NEW o \in OpIds, RecoverReset(p, o) PROVE Tells(p)
  <2>1. /\ receipts[o] \in Receipt /\ receipts[o].operation = "reset" /\ receipts[o] # None
        /\ Exists(receipts[o].id)
    BY <1>0, <1>4, NoneIsNoReceipt DEF RecoverReset, NextReceipt, Open
  <2>2. PICK i \in Ids : i = receipts[o].id
    BY <1>0, <2>1 DEF True
  <2>3. PICK phase \in {"completed", "failed"} :
          /\ Settle(p, o, phase, i)
          /\ phase = "failed" => Record(i).gen = receipts[o].before
    BY <1>4, <2>2 DEF RecoverReset
  <2>4. o \in effect => Record(i).gen > receipts[o].before
    BY <1>0, <2>1, <2>2 DEF True
  <2>5. phase = "failed" => o \notin effect
    <3>1. receipts[o].before \in Nat
      BY <2>1 DEF Receipt
    <3>2. QED BY <2>3, <2>4, <3>1
  <2>6. UNCHANGED <<wsDir, meta, effect>>
    BY <2>3 DEF Settle
  <2>7. /\ receipts'[o] # None /\ receipts'[o].recovered /\ receipts'[o].operation = "reset"
        /\ receipts'[o].phase = phase /\ receipts'[o].id = i
        /\ receipts'[o].before = receipts[o].before
        /\ \A q \in OpIds \ {o} : receipts'[q] = receipts[q]
    BY <1>0, <2>1, <2>3, Settled
  <2>8. Exists(i)' => Exists(i) /\ Record(i)' = Record(i)
    BY <2>6 DEF Exists, Record
  <2>9. True(o)'
    BY <2>4, <2>5, <2>6, <2>7, <2>8 DEF True
  <2>10. QED BY <1>2, <1>4, <2>6, <2>7, <2>9 DEF Untouched
<1>5. QED BY <1>1, <1>3, <1>4 DEF Recover

\* Sessions, removals and deletions write no receipt.
LEMMA OthersTell ==
  ASSUME Inductive, NEW p \in Procs,
         Remove(p) \/ TakeLifecycle(p) \/ NotFound(p) \/ Session(p) \/ Delete(p)
  PROVE  Tells(p)
<1> USE DEF At, Tells, Goto, Return, RecordedSteps
<1>0. pc \in [Procs -> Steps]
  BY DEF Inductive, ControlOK
<1>1. UNCHANGED <<receipts, effect>>
  BY DEF Remove, RemoveRequest, RemoveUnpublish, RemoveRefused, RemoveFinish,
     TakeLifecycle, NotFound, Session, SessionRequest, SessionStart, RunCommits, SessionEnds,
     Delete, DeleteRequest, DeleteBegin, DeleteRefused, DeleteReturns, shared
<1>2. pc'[p] \notin RecordedSteps
  BY <1>0 DEF Remove, RemoveRequest, RemoveUnpublish, RemoveRefused, RemoveFinish,
     TakeLifecycle, NotFound, Session, SessionRequest, SessionStart, RunCommits, SessionEnds,
     Delete, DeleteRequest, DeleteBegin, DeleteRefused, DeleteReturns
<1>3. QED BY <1>1, <1>2, KnowsNothing DEF Untouched

LEMMA ToldStep ==
  ASSUME Inductive, Clean, Told, [Next]_vars
  PROVE  Told'
<1>1. ASSUME NEW p \in Procs, Process(p) PROVE Told'
  <2>1. Tells(p)
    BY <1>1, CreateTells, ResetTells, RecoverTells, OthersTell DEF Process
  <2>2. \A o \in OpIds : True(o)'
    BY <2>1, StaysTrue DEF Tells
  <2>3. \A q \in Procs : Mine(q)'
    BY <1>1, <2>1, OthersKnow DEF Tells
  <2>4. QED BY <2>2, <2>3 DEF Told
<1>2. ASSUME UNCHANGED <<receipts, effect>>,
             \A q \in Procs : pc'[q] = "idle" \/ (pc'[q] = pc[q] /\ loc'[q] = loc[q])
      PROVE  Told'
  <2>1. \A o \in OpIds : True(o)'
    BY <1>2, StaysTrue DEF Untouched
  <2>2. ASSUME NEW q \in Procs PROVE Mine(q)'
    <3>1. CASE pc'[q] = "idle"
      BY <3>1, KnowsNothing DEF RecordedSteps
    <3>2. CASE pc'[q] = pc[q] /\ loc'[q] = loc[q]
      BY <1>2, <3>2 DEF Told, Mine, At
    <3>3. QED BY <1>2, <3>1, <3>2
  <2>3. QED BY <2>1, <2>2 DEF Told
<1>3. ASSUME NEW p \in Procs, Crash(p) PROVE Told'
  BY <1>2, <1>3 DEF Crash, Return, Inductive, ControlOK
<1>4. CASE Children \/ (\E t \in Targets : EnsureTarget(t)) \/ UNCHANGED vars
  BY <1>2, <1>4 DEF Children, TargetWrites, OrphanExits, RmtreeEnds, EnsureTarget, vars
<1>5. QED BY <1>1, <1>3, <1>4 DEF Next

LEMMA ToldInit == Init => Told
BY DEF Init, Told, True, Mine, At, Before, After

-----------------------------------------------------------------------------
(* A recovery keeps up with the receipts.                                  *)

\* What a recovery has passed: no entry is left to sweep, and no receipt up to
\* the one it is at is open.
Passed(p) ==
  /\ pc[p] \in {"idle", "recover_sweep"} => loc[p].op = 0
  /\ At(p, "recover_receipts") =>
       staging = {} /\ \A o \in OpIds : o <= loc[p].op => ~Open(o)

LEMMA PassedOthers ==
  ASSUME Inductive, NEW p \in Procs, Process(p), NEW q \in Procs, q # p, Passed(q)
  PROVE  Passed(q)'
<1>1. pc'[q] = pc[q] /\ loc'[q] = loc[q]
  BY OthersStand DEF Others
<1>2. CASE UNCHANGED <<staging, receipts>>
  BY <1>1, <1>2 DEF Passed, At, Open
<1>3. CASE pc[q] \notin LifecycleSteps
  BY <1>1, <1>3 DEF Passed, At
<1>4. QED BY <1>2, <1>3, Guarded, Alone

LEMMA RecoverPasses ==
  ASSUME Inductive, NEW p \in Procs, Recover(p), Passed(p)
  PROVE  Passed(p)'
<1> USE DEF At, Goto, Return
<1>0. pc \in [Procs -> Steps] /\ loc \in [Procs -> Local]
      /\ receipts \in [OpIds -> Receipt \cup {None}]
  BY DEF Inductive, TypeOK, ControlOK
<1>1. CASE RecoverBegin(p) \/ RecoverFinish(p) \/ (\E o \in OpIds : RecoverRaises(p, o))
           \/ \E d \in Dirs : RecoverRemoves(p, d) \/ RecoverBreaksOff(p, d)
  BY <1>0, <1>1 DEF RecoverBegin, RecoverFinish, RecoverRaises, RecoverRemoves,
     RecoverBreaksOff, Passed, NoLocal
<1>2. CASE RecoverSwept(p)
  <2>1. pc'[p] = "recover_receipts" /\ loc'[p].op = 0 /\ staging' = {}
    BY <1>0, <1>2 DEF RecoverSwept, Passed, shared
  <2>2. \A o \in OpIds : ~(o <= 0)
    BY OpIdsPositive
  <2>3. QED BY <2>1, <2>2 DEF Passed
<1>3. ASSUME NEW o \in OpIds, RecoverCreate(p, o) \/ RecoverReset(p, o) PROVE Passed(p)'
  <2>1. /\ NextReceipt(p, o) /\ receipts[o] \in Receipt
        /\ \E phase \in {"completed", "failed"}, i \in Ids \cup {None} : Settle(p, o, phase, i)
    <3>1. NextReceipt(p, o) /\ receipts[o] \in Receipt
      BY <1>0, <1>3 DEF RecoverCreate, RecoverReset, NextReceipt, Open
    <3>2. CASE RecoverCreate(p, o)
      BY <3>1, <3>2 DEF RecoverCreate, CreateMatches
    <3>3. CASE RecoverReset(p, o)
      BY <3>1, <3>3 DEF RecoverReset, Receipt
    <3>4. QED BY <1>3, <3>1, <3>2, <3>3
  <2>2. /\ receipts'[o].phase \in {"completed", "failed"}
        /\ \A q \in OpIds \ {o} : receipts'[q] = receipts[q]
    BY <1>0, <2>1, Settled
  <2>3. pc'[p] = "recover_receipts" /\ loc'[p].op = o /\ UNCHANGED staging
    BY <1>0, <2>1 DEF Settle, NextReceipt, Local
  <2>4. ASSUME NEW q \in OpIds, q <= o PROVE ~Open(q)'
    <3>1. CASE q = o
      BY <2>2, <3>1 DEF Open
    <3>2. CASE q # o
      <4>1. ~Open(q)
        <5>1. CASE q <= loc[p].op
          BY <2>1, <5>1 DEF Passed, NextReceipt
        <5>2. CASE q > loc[p].op
          BY <2>1, <2>4, <3>2, <5>2, OpIdsPositive DEF NextReceipt
        <5>3. loc[p].op \in Nat /\ q \in Nat
          <6>1. loc[p] \in Local
            BY <1>0
          <6>2. loc[p].op \in OpIds \cup {0}
            BY <6>1 DEF Local
          <6>3. \A x \in OpIds \cup {0} : x \in Nat
            BY OpIdsPositive
          <6>4. q \in OpIds
            BY <2>4
          <6>5. QED BY <6>2, <6>3, <6>4
        <5>4. QED BY <5>1, <5>2, <5>3
      <4>2. QED BY <2>2, <3>2, <4>1 DEF Open
    <3>3. QED BY <3>1, <3>2
  <2>5. QED BY <2>1, <2>3, <2>4 DEF Passed, NextReceipt
<1>4. QED BY <1>1, <1>2, <1>3 DEF Recover

\* The other commands come back to idle with fresh local variables.
LEMMA CommandsPass ==
  ASSUME Inductive, NEW p \in Procs, Process(p), ~Recover(p)
  PROVE  Passed(p)'
<1> USE DEF At, Goto, Return, Passed, NoLocal
<1>0. pc \in [Procs -> Steps] /\ loc \in [Procs -> Local]
  BY DEF Inductive, ControlOK
<1>1. CASE Create(p)
  <2>1. CASE CreateRefused(p) \/ CreateFails(p) \/ CreateFinish(p)
    BY <1>0, <2>1 DEF CreateRefused, CreateFails, CreateFinish
  <2>2. CASE (\E n \in Names, t \in Targets : CreateRequest(p, n, t))
             \/ (\E o \in OpIds : CreateBegin(p, o)) \/ (\E d \in Dirs : CreateStage(p, d))
             \/ (\E i \in Ids : CreateExtracted(p, i)) \/ CreatePublish(p)
    BY <1>0, <2>2 DEF CreateRequest, CreateBegin, CreateStage, CreateExtracted, CreatePublish
  <2>3. QED BY <1>1, <2>1, <2>2 DEF Create
<1>2. CASE Reset(p)
  <2>1. CASE ResetRefused(p) \/ ResetFails(p) \/ ResetBreaksOff(p) \/ ResetFinish(p)
             \/ ResetMismatch(p)
    BY <1>0, <2>1 DEF ResetRefused, ResetFails, ResetBreaksOff, ResetFinish, ResetMismatch
  <2>2. CASE (\E i \in Ids : ResetRequest(p, i)) \/ (\E o \in OpIds : ResetBegin(p, o))
             \/ (\E d \in Dirs : ResetStage(p, d)) \/ ResetExtracted(p) \/ ResetExchange(p)
             \/ ResetNote(p) \/ ResetClean(p)
    BY <1>0, <2>2 DEF ResetRequest, ResetBegin, ResetStage, ResetExtracted, ResetExchange,
       ResetNote, ResetClean
  <2>3. QED BY <1>2, <2>1, <2>2 DEF Reset
<1>3. CASE Remove(p) \/ TakeLifecycle(p) \/ NotFound(p)
  BY <1>0, <1>3 DEF Remove, RemoveRequest, RemoveUnpublish, RemoveRefused, RemoveFinish,
     TakeLifecycle, NotFound
<1>4. CASE Session(p)
  BY <1>0, <1>4 DEF Session, SessionRequest, SessionStart, RunCommits, SessionEnds
<1>5. CASE Delete(p)
  BY <1>0, <1>5 DEF Delete, DeleteRequest, DeleteBegin, DeleteRefused, DeleteReturns
<1>6. QED BY <1>1, <1>2, <1>3, <1>4, <1>5 DEF Process

LEMMA PassedStep ==
  ASSUME Inductive, \A p \in Procs : Passed(p), [Next]_vars
  PROVE  \A p \in Procs : Passed(p)'
<1>1. ASSUME NEW p \in Procs, Process(p) PROVE \A q \in Procs : Passed(q)'
  <2>1. Passed(p)'
    BY <1>1, RecoverPasses, CommandsPass
  <2>2. QED BY <1>1, <2>1, PassedOthers
<1>2. ASSUME NEW p \in Procs, Crash(p) PROVE \A q \in Procs : Passed(q)'
  <2>1. UNCHANGED <<staging, receipts>> /\ Others(p) /\ pc'[p] = "idle" /\ loc'[p] = NoLocal
    BY <1>2 DEF Crash, Return, Others, Inductive, ControlOK
  <2>2. QED BY <2>1 DEF Passed, At, Open, Others, NoLocal
<1>3. CASE Children \/ (\E t \in Targets : EnsureTarget(t)) \/ UNCHANGED vars
  <2>1. UNCHANGED <<staging, receipts, pc, loc>>
    BY <1>3 DEF Children, TargetWrites, OrphanExits, RmtreeEnds, EnsureTarget, vars
  <2>2. QED BY <2>1 DEF Passed, At, Open
<1>4. QED BY <1>1, <1>2, <1>3 DEF Next

LEMMA PassedInit == Init => \A p \in Procs : Passed(p)
BY DEF Init, Passed, At, NoLocal

-----------------------------------------------------------------------------
(* The life of a receipt.                                                  *)

SameOperation(r, s) == s.operation = r.operation /\ s.name = r.name /\ s.target = r.target

Closed == {"completed", "failed"}

\* What a step of p may do to the receipt of o: open it, mark its own, or
\* settle one that was left behind.
ReceiptMoves(p, o) ==
  \/ receipts'[o] = receipts[o]
  \/ /\ receipts[o] = None /\ receipts'[o].phase = "started"
     /\ pc'[p] \in RecordedSteps /\ loc'[p].op = o
  \/ /\ receipts[o] # None /\ receipts'[o] # None
     /\ SameOperation(receipts[o], receipts'[o])
     /\ \/ /\ pc[p] \in RecordedSteps /\ loc[p].op = o
           /\ \/ /\ receipts'[o].phase \in {"staged", "published"}
                 /\ pc'[p] \in RecordedSteps /\ loc'[p].op = o
              \/ receipts'[o].phase = "failed" /\ pc[p] \in Before
              \/ receipts'[o].phase = "completed"
        \/ /\ At(p, "recover_receipts") /\ receipts'[o].phase \in Closed
           /\ receipts'[o].phase = "failed" /\ receipts[o].operation = "create"
                => CreateMatches(receipts[o]) = {}

\* An operation goes on, or closes its receipt, unless that fails.
OwnerStays(p) ==
  pc[p] \in RecordedSteps =>
    \/ pc'[p] \in RecordedSteps /\ loc'[p].op = loc[p].op
    \/ receipts'[loc[p].op].phase \in Closed
    \/ "fault" \in Enabled

ReceiptsMove(p) == (\A o \in OpIds : ReceiptMoves(p, o)) /\ OwnerStays(p)

LEMMA Marked ==
  ASSUME NEW o \in OpIds, receipts \in [OpIds -> Receipt \cup {None}],
         receipts[o] \in Receipt, NEW phase \in {"staged", "published", "completed", "failed"},
         NEW i \in Ids \cup {None}, NEW r \in {Phase(o, phase), [Phase(o, phase) EXCEPT !.id = i]},
         receipts' = [receipts EXCEPT ![o] = r]
  PROVE  /\ receipts'[o] # None /\ receipts[o] # None /\ receipts'[o].phase = phase
         /\ SameOperation(receipts[o], receipts'[o])
         /\ \A q \in OpIds \ {o} : receipts'[q] = receipts[q]
<1> DEFINE a == Phase(o, phase)
           b == [a EXCEPT !.id = i]
<1>1. a \in Receipt /\ a.phase = phase /\ SameOperation(receipts[o], a)
  BY PhaseTyped DEF Phase, Receipt, SameOperation
<1>2. r \in {a, b}
  OBVIOUS
<1> HIDE DEF a
<1>3. b \in Receipt /\ b.phase = phase /\ SameOperation(receipts[o], b)
  BY <1>1 DEF Receipt, SameOperation
<1> HIDE DEF b
<1>4. r \in Receipt /\ r.phase = phase /\ SameOperation(receipts[o], r)
  BY <1>1, <1>2, <1>3
<1>5. receipts'[o] = r /\ \A q \in OpIds \ {o} : receipts'[q] = receipts[q]
  OBVIOUS
<1>6. QED BY <1>4, <1>5, NoneIsNoReceipt

LEMMA CreateMoves ==
  ASSUME Inductive, NEW p \in Procs, Create(p)
  PROVE  ReceiptsMove(p)
<1> USE DEF At, ReceiptsMove, Goto, Return
<1>0. /\ pc \in [Procs -> Steps] /\ loc \in [Procs -> Local]
      /\ receipts \in [OpIds -> Receipt \cup {None}]
      /\ Fits(pc[p], loc[p], receipts)
  BY DEF Inductive, TypeOK, ControlOK
<1>1. CASE (\E n \in Names, t \in Targets : CreateRequest(p, n, t)) \/ CreateRefused(p)
  BY <1>0, <1>1 DEF CreateRequest, CreateRefused, RecordedSteps, ReceiptMoves, OwnerStays, shared
<1>2. ASSUME NEW o \in OpIds, CreateBegin(p, o) PROVE ReceiptsMove(p)
  <2>1. /\ receipts[o] = None /\ pc[p] = "create_wait"
        /\ receipts' = [receipts EXCEPT ![o] =
             Started("create", None, loc[p].name, loc[p].target, 0)]
    BY <1>2 DEF CreateBegin, StartReceipt
  <2>2. receipts'[o].phase = "started" /\ \A q \in OpIds \ {o} : receipts'[q] = receipts[q]
    BY <1>0, <2>1 DEF Started
  <2>3. pc'[p] = "create_check" /\ loc'[p].op = o
    BY <1>0, <1>2 DEF CreateBegin, Local
  <2>4. QED BY <2>1, <2>2, <2>3 DEF ReceiptMoves, OwnerStays, RecordedSteps
<1>3. CASE (\E d \in Dirs : CreateStage(p, d)) \/ (\E i \in Ids : CreateExtracted(p, i))
           \/ CreatePublish(p)
  <2>1. pc'[p] \in CreateSteps /\ loc'[p].op = loc[p].op /\ UNCHANGED receipts
    <3>1. CASE \E d \in Dirs : CreateStage(p, d)
      BY <1>0, <3>1 DEF CreateStage, Local
    <3>2. CASE \E i \in Ids : CreateExtracted(p, i)
      BY <1>0, <3>2 DEF CreateExtracted, Local
    <3>3. CASE CreatePublish(p)
      BY <1>0, <3>3 DEF CreatePublish, Local
    <3>4. QED BY <1>3, <3>1, <3>2, <3>3
  <2>2. QED BY <2>1 DEF ReceiptMoves, OwnerStays, RecordedSteps
<1>4. CASE CreateFails(p) \/ CreateFinish(p)
  <2>1. PICK o \in OpIds : o = loc[p].op /\ receipts[o] \in Receipt
    BY <1>0, <1>4 DEF CreateFails, CreateFinish, Fits, RecordedSteps
  <2>2. CASE UNCHANGED receipts /\ "fault" \in Enabled
    BY <2>2 DEF ReceiptMoves, OwnerStays
  <2>3. CASE CreateFails(p) /\ receipts' = [receipts EXCEPT ![o] = Phase(o, "failed")]
    <3>1. /\ receipts'[o] # None /\ receipts[o] # None /\ receipts'[o].phase = "failed"
          /\ SameOperation(receipts[o], receipts'[o])
          /\ \A q \in OpIds \ {o} : receipts'[q] = receipts[q]
      BY <1>0, <2>1, <2>3, Marked
    <3>2. pc[p] \in RecordedSteps /\ pc[p] \in Before
      BY <2>3 DEF CreateFails, RecordedSteps, Before
    <3>3. QED BY <2>1, <3>1, <3>2 DEF ReceiptMoves, OwnerStays, Closed
  <2>4. CASE CreateFinish(p)
             /\ receipts' = [receipts EXCEPT ![o] = [Phase(o, "completed") EXCEPT !.id = loc[p].id]]
    <3>1. loc[p].id \in Ids /\ pc[p] \in RecordedSteps
      BY <1>0, <2>4 DEF CreateFinish, Fits, OnWorkspace, RecordedSteps
    <3>2. /\ receipts'[o] # None /\ receipts[o] # None /\ receipts'[o].phase = "completed"
          /\ SameOperation(receipts[o], receipts'[o])
          /\ \A q \in OpIds \ {o} : receipts'[q] = receipts[q]
      BY <1>0, <2>1, <2>4, <3>1, Marked
    <3>3. QED BY <2>1, <3>1, <3>2 DEF ReceiptMoves, OwnerStays, Closed
  <2>5. QED BY <1>4, <2>1, <2>2, <2>3, <2>4 DEF CreateFails, CreateFinish, WriteReceipt
<1>5. QED BY <1>1, <1>2, <1>3, <1>4 DEF Create

LEMMA ResetMoves ==
  ASSUME Inductive, NEW p \in Procs, Reset(p)
  PROVE  ReceiptsMove(p)
<1> USE DEF At, ReceiptsMove, Goto, Return
<1>0. /\ pc \in [Procs -> Steps] /\ loc \in [Procs -> Local]
      /\ receipts \in [OpIds -> Receipt \cup {None}]
      /\ Fits(pc[p], loc[p], receipts)
  BY DEF Inductive, TypeOK, ControlOK
<1>1. CASE (\E i \in Ids : ResetRequest(p, i)) \/ ResetRefused(p) \/ ResetMismatch(p)
  BY <1>0, <1>1 DEF ResetRequest, ResetRefused, ResetMismatch, RecordedSteps, ReceiptMoves,
     OwnerStays, shared
<1>2. ASSUME NEW o \in OpIds, ResetBegin(p, o) PROVE ReceiptsMove(p)
  <2>1. PICK i : i = loc[p].id
    OBVIOUS
  <2>2. /\ receipts[o] = None /\ pc[p] = "reset_locked"
        /\ receipts' = [receipts EXCEPT ![o] =
             Started("reset", i, Record(i).name, Record(i).target, Record(i).gen)]
    BY <1>2, <2>1 DEF ResetBegin, StartReceipt
  <2>3. receipts'[o].phase = "started" /\ \A q \in OpIds \ {o} : receipts'[q] = receipts[q]
    BY <1>0, <2>2 DEF Started
  <2>4. pc'[p] = "reset_stage" /\ loc'[p].op = o
    BY <1>0, <1>2 DEF ResetBegin, Local
  <2>5. QED BY <2>2, <2>3, <2>4 DEF ReceiptMoves, OwnerStays, RecordedSteps
<1>3. CASE (\E d \in Dirs : ResetStage(p, d)) \/ ResetExchange(p) \/ ResetClean(p)
  <2>1. pc'[p] \in ResetSteps /\ loc'[p].op = loc[p].op /\ UNCHANGED receipts
    BY <1>0, <1>3 DEF ResetStage, ResetExchange, ResetClean, Local
  <2>2. QED BY <2>1 DEF ReceiptMoves, OwnerStays, RecordedSteps
<1>4. CASE ResetBreaksOff(p)
  BY <1>4 DEF ResetBreaksOff, RemovePartOf, ReceiptMoves, OwnerStays
<1>5. ASSUME pc[p] \in ResetSteps
      PROVE  \E o \in OpIds, i \in Ids : o = loc[p].op /\ i = loc[p].id /\ receipts[o] \in Receipt
  BY <1>0, <1>5 DEF Fits, RecordedSteps, OnWorkspace
<1>6. ASSUME NEW o \in OpIds, NEW i \in Ids, receipts[o] \in Receipt,
             NEW phase \in {"staged", "published", "completed", "failed"},
             receipts' = [receipts EXCEPT ![o] = Phase(o, phase)]
      PROVE  /\ receipts'[o] # None /\ receipts[o] # None /\ receipts'[o].phase = phase
             /\ SameOperation(receipts[o], receipts'[o])
             /\ \A q \in OpIds \ {o} : receipts'[q] = receipts[q]
  BY <1>0, <1>6, Marked
<1>7. CASE ResetExtracted(p) \/ ResetNote(p)
  <2>1. PICK o \in OpIds, i \in Ids : o = loc[p].op /\ receipts[o] \in Receipt
    BY <1>5, <1>7 DEF ResetExtracted, ResetNote
  <2>2. PICK phase \in {"staged", "published"} :
          receipts' = [receipts EXCEPT ![o] = Phase(o, phase)]
    BY <1>7, <2>1 DEF ResetExtracted, ResetNote
  <2>3. pc[p] \in RecordedSteps /\ pc'[p] \in RecordedSteps /\ UNCHANGED loc
    BY <1>0, <1>7 DEF ResetExtracted, ResetNote, RecordedSteps
  <2>4. QED BY <1>6, <2>1, <2>2, <2>3 DEF ReceiptMoves, OwnerStays
<1>8. CASE ResetFails(p) \/ ResetFinish(p)
  <2>1. PICK o \in OpIds, i \in Ids : o = loc[p].op /\ receipts[o] \in Receipt
    BY <1>5, <1>8 DEF ResetFails, ResetFinish
  <2>2. CASE UNCHANGED receipts /\ "fault" \in Enabled
    BY <2>2 DEF ReceiptMoves, OwnerStays
  <2>3. CASE ResetFails(p) /\ receipts' = [receipts EXCEPT ![o] = Phase(o, "failed")]
    <3>1. pc[p] \in RecordedSteps /\ pc[p] \in Before
      BY <2>3 DEF ResetFails, RecordedSteps, Before
    <3>2. QED BY <1>6, <2>1, <2>3, <3>1 DEF ReceiptMoves, OwnerStays, Closed
  <2>4. CASE ResetFinish(p) /\ receipts' = [receipts EXCEPT ![o] = Phase(o, "completed")]
    <3>1. pc[p] \in RecordedSteps
      BY <2>4 DEF ResetFinish, RecordedSteps
    <3>2. QED BY <1>6, <2>1, <2>4, <3>1 DEF ReceiptMoves, OwnerStays, Closed
  <2>5. QED BY <1>8, <2>1, <2>2, <2>3, <2>4 DEF ResetFails, ResetFinish, WriteReceipt
<1>9. QED BY <1>1, <1>2, <1>3, <1>4, <1>7, <1>8 DEF Reset

LEMMA RecoverMoves ==
  ASSUME Inductive, Told, NEW p \in Procs, Recover(p)
  PROVE  ReceiptsMove(p)
<1> USE DEF At, ReceiptsMove, Goto, Return
<1>0. /\ pc \in [Procs -> Steps] /\ receipts \in [OpIds -> Receipt \cup {None}]
      /\ \A o \in OpIds : True(o)
  BY DEF Inductive, TypeOK, ControlOK, Told
<1>1. pc[p] \notin RecordedSteps
  BY DEF Recover, RecoverBegin, RecoverRemoves, RecoverBreaksOff, RecoverSwept, RecoverCreate,
     RecoverReset, RecoverRaises, RecoverFinish, NextReceipt, RecordedSteps
<1>2. CASE UNCHANGED receipts
  BY <1>1, <1>2 DEF ReceiptMoves, OwnerStays
<1>3. ASSUME NEW o \in OpIds, RecoverCreate(p, o) \/ RecoverReset(p, o)
      PROVE  ReceiptsMove(p)
  <2>1. pc[p] = "recover_receipts" /\ receipts[o] \in Receipt /\ receipts[o] # None
    BY <1>0, <1>3 DEF RecoverCreate, RecoverReset, NextReceipt, Open
  <2>2. PICK phase \in Closed, i \in Ids \cup {None} :
          /\ Settle(p, o, phase, i)
          /\ phase = "failed" /\ receipts[o].operation = "create" => CreateMatches(receipts[o]) = {}
    <3>1. CASE RecoverCreate(p, o)
      BY <3>1 DEF RecoverCreate, CreateMatches, Closed
    <3>2. CASE RecoverReset(p, o)
      BY <1>0, <2>1, <3>2 DEF RecoverReset, True, Closed
    <3>3. QED BY <1>3, <3>1, <3>2
  <2>3. /\ receipts'[o] # None /\ receipts'[o].phase = phase
        /\ \A q \in OpIds \ {o} : receipts'[q] = receipts[q]
    BY <1>0, <2>1, <2>2, Settled DEF Closed
  <2>4. SameOperation(receipts[o], receipts'[o])
    <3>1. receipts' = [receipts EXCEPT ![o] =
            [receipts[o] EXCEPT !.phase = phase, !.recovered = TRUE, !.id = i]]
      BY <2>2 DEF Settle
    <3>2. receipts'[o] = [receipts[o] EXCEPT !.phase = phase, !.recovered = TRUE, !.id = i]
      BY <1>0, <3>1
    <3>3. QED BY <2>1, <3>2 DEF SameOperation, Receipt
  <2>5. QED BY <1>1, <2>1, <2>2, <2>3, <2>4 DEF ReceiptMoves, OwnerStays
<1>4. QED
  BY <1>2, <1>3 DEF Recover, RecoverBegin, RecoverRemoves, RecoverBreaksOff, RecoverSwept,
     RecoverRaises, RecoverFinish, shared

LEMMA ProcessMoves ==
  ASSUME Inductive, Told, NEW p \in Procs, Process(p)
  PROVE  ReceiptsMove(p)
<1>1. CASE Remove(p) \/ TakeLifecycle(p) \/ NotFound(p) \/ Session(p) \/ Delete(p)
  <2>1. UNCHANGED receipts
    BY <1>1 DEF Remove, RemoveRequest, RemoveUnpublish, RemoveRefused, RemoveFinish,
       TakeLifecycle, NotFound, Session, SessionRequest, SessionStart, RunCommits, SessionEnds,
       Delete, DeleteRequest, DeleteBegin, DeleteRefused, DeleteReturns, shared
  <2>2. pc[p] \notin RecordedSteps
    BY <1>1 DEF Remove, RemoveRequest, RemoveUnpublish, RemoveRefused, RemoveFinish,
       TakeLifecycle, NotFound, Session, SessionRequest, SessionStart, RunCommits, SessionEnds,
       Delete, DeleteRequest, DeleteBegin, DeleteRefused, DeleteReturns, At, RecordedSteps
  <2>3. QED BY <2>1, <2>2 DEF ReceiptsMove, ReceiptMoves, OwnerStays
<1>2. QED BY <1>1, CreateMoves, ResetMoves, RecoverMoves DEF Process

-----------------------------------------------------------------------------
(* Who leaves receipts open.                                               *)

\* An open receipt has a process at work on it.
Owned(o) == Open(o) => \E p \in Procs : pc[p] \in RecordedSteps /\ loc[p].op = o

\* Nothing but a command under way opens receipts, and it closes its own unless
\* it is killed or a write fails.
LEMMA OwnersStep ==
  ASSUME Inductive, Told, Enabled \cap {"crash", "fault"} = {}, [Next]_vars,
         \A o \in OpIds : Owned(o)
  PROVE  \A o \in OpIds : Owned(o)'
<1>1. ASSUME NEW p \in Procs, Process(p), NEW o \in OpIds, Open(o)'
      PROVE  \E q \in Procs : pc'[q] \in RecordedSteps /\ loc'[q].op = o
  <2>1. ReceiptMoves(p, o) /\ OwnerStays(p) /\ Others(p)
    BY <1>1, ProcessMoves, OthersStand DEF ReceiptsMove
  <2>2. receipts'[o].phase \notin Closed
    BY <1>1 DEF Open, Closed
  <2>3. CASE receipts'[o] = receipts[o]
    <3>1. PICK q \in Procs : pc[q] \in RecordedSteps /\ loc[q].op = o
      BY <1>1, <2>3 DEF Open, Owned
    <3>2. CASE q = p
      BY <2>1, <2>2, <3>1, <3>2 DEF OwnerStays
    <3>3. CASE q # p
      BY <2>1, <3>1, <3>3 DEF Others
    <3>4. QED BY <3>2, <3>3
  <2>4. CASE receipts'[o] # receipts[o]
    BY <2>1, <2>2, <2>4 DEF ReceiptMoves, Closed
  <2>5. QED BY <2>3, <2>4
<1>2. ASSUME NEW p \in Procs, Crash(p) PROVE FALSE
  BY <1>2 DEF Crash
<1>3. CASE Children \/ (\E t \in Targets : EnsureTarget(t)) \/ UNCHANGED vars
  <2>1. UNCHANGED <<receipts, pc, loc>>
    BY <1>3 DEF Children, TargetWrites, OrphanExits, RmtreeEnds, EnsureTarget, vars
  <2>2. QED BY <2>1 DEF Owned, Open
<1>4. QED BY <1>1, <1>2, <1>3 DEF Next, Owned

-----------------------------------------------------------------------------
(* What recovery infers from a name and a target.                          *)

Removing == {"remove_wait", "remove_locked", "remove_clean"}

\* Where nothing is removed: no process is removing, a create writes what its
\* receipt says, whatever was published for a create is still found by the name
\* and target of its receipt, and a failed receipt published nothing.
Named(p) ==
  pc[p] \in CreateSteps =>
    receipts[loc[p].op].name = loc[p].name /\ receipts[loc[p].op].target = loc[p].target
Standing(o) == o \in effect /\ receipts[o].operation = "create" => CreateMatches(receipts[o]) # {}
FailedLeft(o) == receipts[o] # None /\ receipts[o].phase = "failed" => o \notin effect

Found ==
  /\ \A p \in Procs : pc[p] \notin Removing /\ Named(p)
  /\ \A o \in OpIds : Standing(o) /\ FailedLeft(o)

LEMMA LostWorkspace ==
  ASSUME Inductive, NEW p \in Procs, Process(p), NEW i \in Ids, Exists(i), ~Exists(i)'
  PROVE  pc[p] \in Removing
<1> USE DEF Exists, shared, At, Removing
<1>0. wsDir \in [Ids -> Dirs \cup {None}] /\ loc \in [Procs -> Local] /\ Fits(pc[p], loc[p], receipts)
  BY DEF Inductive, TypeOK, ControlOK
<1>1. CASE Create(p)
  <2>1. CASE CreatePublish(p)
    <3>1. wsDir' = [wsDir EXCEPT ![loc[p].id] = loc[p].dir] /\ ~Exists(loc[p].id)
      BY <2>1 DEF CreatePublish
    <3>2. i # loc[p].id
      BY <3>1
    <3>3. QED BY <1>0, <3>1, <3>2
  <2>2. CASE UNCHANGED wsDir
    BY <2>2
  <2>3. QED BY <1>1, <2>1, <2>2 DEF Create, CreateRequest, CreateBegin, CreateRefused,
     CreateStage, CreateExtracted, CreateFails, CreateFinish
<1>2. CASE Reset(p)
  <2>1. CASE ResetExchange(p)
    <3>1. wsDir' = [wsDir EXCEPT ![loc[p].id] = loc[p].dir] /\ loc[p].dir \in staging
      BY <2>1 DEF ResetExchange
    <3>2. loc[p].dir # None
      BY <1>0, <2>1, NoneIsNew DEF ResetExchange, Fits, InStaging
    <3>3. QED BY <1>0, <3>1, <3>2
  <2>2. CASE UNCHANGED wsDir
    BY <2>2
  <2>3. QED BY <1>2, <2>1, <2>2 DEF Reset, ResetRequest, ResetBegin, ResetRefused, ResetStage,
       ResetExtracted, ResetFails, ResetNote, ResetClean, ResetBreaksOff, ResetFinish,
       ResetMismatch
<1>3. CASE Remove(p)
  BY <1>3 DEF Remove, RemoveRequest, RemoveUnpublish, RemoveRefused, RemoveFinish
<1>4. CASE TakeLifecycle(p) \/ NotFound(p) \/ Session(p) \/ Delete(p) \/ Recover(p)
  BY <1>4 DEF TakeLifecycle, NotFound, Session, SessionRequest, SessionStart, RunCommits,
     SessionEnds, Delete, DeleteRequest, DeleteBegin, DeleteRefused, DeleteReturns, Recover,
     RecoverBegin, RecoverRemoves, RecoverBreaksOff, RecoverSwept, RecoverCreate, RecoverReset,
     RecoverRaises, RecoverFinish, Settle
<1>5. QED BY <1>1, <1>2, <1>3, <1>4 DEF Process

LEMMA EffectMoves ==
  ASSUME NEW p \in Procs, Process(p), effect' # effect
  PROVE  /\ effect' = effect \cup {loc[p].op} /\ UNCHANGED receipts
         /\ CreatePublish(p) \/ ResetExchange(p)
<1> USE DEF shared
<1>1. CASE Create(p)
  BY <1>1 DEF Create, CreateRequest, CreateBegin, CreateRefused,
     CreateStage, CreateExtracted, CreatePublish, CreateFails, CreateFinish
<1>2. CASE Reset(p)
  BY <1>2 DEF Reset, ResetRequest, ResetBegin, ResetRefused, ResetStage, ResetExchange,
     ResetExtracted, ResetFails, ResetNote, ResetClean, ResetBreaksOff, ResetFinish, ResetMismatch
<1>3. CASE Remove(p) \/ TakeLifecycle(p) \/ NotFound(p) \/ Session(p) \/ Delete(p) \/ Recover(p)
  BY <1>3 DEF Remove, RemoveRequest, RemoveUnpublish, RemoveRefused, RemoveFinish,
     TakeLifecycle, NotFound, Session, SessionRequest, SessionStart, RunCommits,
     SessionEnds, Delete, DeleteRequest, DeleteBegin, DeleteRefused, DeleteReturns, Recover,
     RecoverBegin, RecoverRemoves, RecoverBreaksOff, RecoverSwept, RecoverCreate, RecoverReset,
     RecoverRaises, RecoverFinish, Settle
<1>4. QED BY <1>1, <1>2, <1>3 DEF Process

LEMMA NobodyRemoves ==
  ASSUME Inductive, "remove" \notin Enabled, NEW p \in Procs, Process(p), pc[p] \notin Removing
  PROVE  pc'[p] \notin Removing
<1> USE DEF Removing, At, Goto, Return
<1>0. pc \in [Procs -> Steps]
  BY DEF Inductive, ControlOK
<1>1. CASE Create(p)
  BY <1>0, <1>1 DEF Create, CreateRequest, CreateBegin, CreateRefused,
     CreateStage, CreateExtracted, CreatePublish, CreateFails, CreateFinish
<1>2. CASE Reset(p)
  BY <1>0, <1>2 DEF Reset, ResetRequest, ResetBegin, ResetRefused, ResetStage, ResetExchange,
     ResetExtracted, ResetFails, ResetNote, ResetClean, ResetBreaksOff, ResetFinish, ResetMismatch
<1>3. CASE Remove(p) \/ TakeLifecycle(p) \/ NotFound(p) \/ Session(p) \/ Delete(p)
  BY <1>0, <1>3 DEF Remove, RemoveRequest, RemoveUnpublish, RemoveRefused, RemoveFinish,
     TakeLifecycle, NotFound, Session, SessionRequest, SessionStart, RunCommits,
     SessionEnds, Delete, DeleteRequest, DeleteBegin, DeleteRefused, DeleteReturns
<1>4. CASE Recover(p)
  BY <1>0, <1>4 DEF Recover,
     RecoverBegin, RecoverRemoves, RecoverBreaksOff, RecoverSwept, RecoverCreate, RecoverReset,
     RecoverRaises, RecoverFinish, Settle, NextReceipt
<1>5. QED BY <1>1, <1>2, <1>3, <1>4 DEF Process

\* A create writes what it was asked for, from its receipt to the metadata.
LEMMA CreateGoesOn ==
  ASSUME Inductive, NEW p \in Procs, Process(p), pc'[p] \in CreateSteps
  PROVE  /\ loc'[p].name = loc[p].name /\ loc'[p].target = loc[p].target
         /\ \/ \E o \in OpIds : CreateBegin(p, o)
            \/ pc[p] \in CreateSteps /\ loc'[p].op = loc[p].op
<1> USE DEF CreateSteps, At, Goto, Return
<1>0. pc \in [Procs -> Steps] /\ loc \in [Procs -> Local]
  BY DEF Inductive, ControlOK
<1>1. CASE Create(p)
  <2>1. CASE \E o \in OpIds : CreateBegin(p, o)
    BY <1>0, <2>1 DEF CreateBegin, Local
  <2>2. CASE \E d \in Dirs : CreateStage(p, d)
    BY <1>0, <2>2 DEF CreateStage, Local
  <2>3. CASE \E i \in Ids : CreateExtracted(p, i)
    BY <1>0, <2>3 DEF CreateExtracted, Local
  <2>4. CASE CreatePublish(p)
    BY <1>0, <2>4 DEF CreatePublish, Local
  <2>5. CASE (\E n \in Names, t \in Targets : CreateRequest(p, n, t)) \/ CreateRefused(p)
             \/ CreateFails(p) \/ CreateFinish(p)
    BY <1>0, <2>5 DEF CreateRequest, CreateRefused, CreateFails, CreateFinish
  <2>6. QED BY <1>1, <2>1, <2>2, <2>3, <2>4, <2>5 DEF Create
<1>2. CASE Reset(p)
  BY <1>0, <1>2 DEF Reset, ResetRequest, ResetBegin, ResetRefused, ResetStage, ResetExchange,
     ResetExtracted, ResetFails, ResetNote, ResetClean, ResetBreaksOff, ResetFinish, ResetMismatch
<1>3. CASE Remove(p) \/ TakeLifecycle(p) \/ NotFound(p) \/ Session(p) \/ Delete(p)
  BY <1>0, <1>3 DEF Remove, RemoveRequest, RemoveUnpublish, RemoveRefused, RemoveFinish,
     TakeLifecycle, NotFound, Session, SessionRequest, SessionStart, RunCommits,
     SessionEnds, Delete, DeleteRequest, DeleteBegin, DeleteRefused, DeleteReturns
<1>4. CASE Recover(p)
  BY <1>0, <1>4 DEF Recover,
     RecoverBegin, RecoverRemoves, RecoverBreaksOff, RecoverSwept, RecoverCreate, RecoverReset,
     RecoverRaises, RecoverFinish, Settle, NextReceipt
<1>5. QED BY <1>1, <1>2, <1>3, <1>4 DEF Process

LEMMA NamedStep ==
  ASSUME Inductive, Told, NEW p \in Procs, Process(p), NEW q \in Procs, Named(q)
  PROVE  Named(q)'
<1>0. /\ pc \in [Procs -> Steps] /\ loc \in [Procs -> Local]
      /\ receipts \in [OpIds -> Receipt \cup {None}]
  BY DEF Inductive, TypeOK, ControlOK
<1>1. ASSUME pc[q] \in CreateSteps, pc'[q] \in CreateSteps, loc'[q].op = loc[q].op,
             loc'[q].name = loc[q].name, loc'[q].target = loc[q].target
      PROVE  Named(q)'
  <2>1. loc[q].op \in OpIds /\ receipts[loc[q].op] \in Receipt
    BY <1>1 DEF Inductive, ControlOK, Fits, RecordedSteps
  <2>2. ReceiptMoves(p, loc[q].op)
    BY <2>1, ProcessMoves DEF ReceiptsMove
  <2>3. SameOperation(receipts[loc[q].op], receipts'[loc[q].op])
    BY <2>1, <2>2, NoneIsNoReceipt DEF ReceiptMoves, SameOperation
  <2>4. QED BY <1>1, <2>3 DEF Named, SameOperation
<1>2. CASE q # p
  <2>1. pc'[q] = pc[q] /\ loc'[q] = loc[q]
    BY <1>2, OthersStand DEF Others
  <2>2. CASE pc[q] \in CreateSteps
    BY <1>1, <2>1, <2>2
  <2>3. CASE pc[q] \notin CreateSteps
    BY <2>1, <2>3 DEF Named
  <2>4. QED BY <2>2, <2>3
<1>3. ASSUME q = p, NEW o \in OpIds, CreateBegin(p, o) PROVE Named(q)'
  <2>1. receipts' = [receipts EXCEPT ![o] =
          Started("create", None, loc[p].name, loc[p].target, 0)]
    BY <1>3 DEF CreateBegin, StartReceipt
  <2>2. receipts'[o].name = loc[p].name /\ receipts'[o].target = loc[p].target
    BY <1>0, <2>1 DEF Started
  <2>3. loc'[p].op = o /\ loc'[p].name = loc[p].name /\ loc'[p].target = loc[p].target
    BY <1>0, <1>3 DEF CreateBegin, Local
  <2>4. QED BY <1>3, <2>2, <2>3 DEF Named
<1>4. CASE q = p /\ pc'[p] \in CreateSteps
  BY <1>1, <1>3, <1>4, CreateGoesOn
<1>5. CASE pc'[q] \notin CreateSteps
  BY <1>5 DEF Named
<1>6. QED BY <1>2, <1>4, <1>5

LEMMA StandingStep ==
  ASSUME Inductive, Clean, Told, Found, NEW p \in Procs, Process(p), NEW o \in OpIds
  PROVE  Standing(o)'
<1> SUFFICES ASSUME o \in effect', receipts'[o].operation = "create"
             PROVE  CreateMatches(receipts[o])' # {}
  BY DEF Standing
<1>0. wsDir \in [Ids -> Dirs \cup {None}] /\ Fits(pc[p], loc[p], receipts)
  BY DEF Inductive, TypeOK, ControlOK
<1>1. CASE o \in effect
  <2>1. receipts[o] # None /\ ReceiptMoves(p, o)
    BY <1>1, ProcessMoves DEF Told, True, ReceiptsMove
  <2>2. SameOperation(receipts[o], receipts'[o])
    BY <2>1 DEF ReceiptMoves, SameOperation
  <2>3. PICK i \in Ids : Exists(i) /\ Record(i).name = receipts[o].name
                         /\ Record(i).target = receipts[o].target
    BY <1>1, <2>2 DEF Found, Standing, SameOperation, CreateMatches
  <2>4. Exists(i)'
    BY <2>3, LostWorkspace DEF Found
  <2>5. Record(i)'.name = Record(i).name /\ Record(i)'.target = Record(i).target
    BY <2>3, <2>4, RevisionsMove DEF Next
  <2>6. QED BY <2>2, <2>3, <2>4, <2>5 DEF CreateMatches, SameOperation
<1>2. CASE o \notin effect
  <2>1. /\ o = loc[p].op /\ receipts'[o] = receipts[o]
        /\ CreatePublish(p) \/ ResetExchange(p)
    BY <1>2, EffectMoves
  <2>2. CreatePublish(p)
    <3>1. CASE ResetExchange(p)
      <4>1. receipts[loc[p].op].operation = "reset"
        BY <3>1 DEF ResetExchange, At, Told, Mine, ResetSteps
      <4>2. QED BY <2>1, <4>1
    <3>2. QED BY <2>1, <3>1
  <2>3. PICK i : i = loc[p].id
    OBVIOUS
  <2>4. i \in Ids /\ loc[p].dir \in Dirs /\ pc[p] = "create_publish"
    BY <1>0, <2>2, <2>3 DEF CreatePublish, At, Fits, OnWorkspace, InStaging
  <2>5. wsDir'[i] = loc[p].dir /\ meta' = meta
    BY <1>0, <2>2, <2>3, <2>4 DEF CreatePublish
  <2>6. Exists(i)' /\ Record(i)' = meta[loc[p].dir]
    BY <2>4, <2>5, NoneIsNew DEF Exists, Record
  <2>7. Record(i)'.name = loc[p].name /\ Record(i)'.target = loc[p].target
    <3>1. MayPublish(p)
      BY DEF Inductive, StepsOK
    <3>2. meta[loc[p].dir].name = loc[p].name /\ meta[loc[p].dir].target = loc[p].target
      BY <2>4, <3>1 DEF MayPublish, At
    <3>3. QED BY <2>6, <3>2
  <2>8. receipts[o].name = loc[p].name /\ receipts[o].target = loc[p].target
    BY <2>1, <2>4 DEF Found, Named, CreateSteps
  <2>9. QED BY <2>1, <2>4, <2>6, <2>7, <2>8 DEF CreateMatches
<1>3. QED BY <1>1, <1>2

LEMMA FailedStep ==
  ASSUME Inductive, Clean, Told, Found, NEW p \in Procs, Process(p), NEW o \in OpIds
  PROVE  FailedLeft(o)'
<1> SUFFICES ASSUME receipts'[o] # None, receipts'[o].phase = "failed", o \in effect'
             PROVE  FALSE
  BY DEF FailedLeft
<1>1. CASE o \notin effect
  <2>1. o = loc[p].op /\ receipts'[o] = receipts[o] /\ pc[p] \in Before
    BY <1>1, EffectMoves DEF CreatePublish, ResetExchange, At, Before
  <2>2. QED BY <2>1 DEF Told, Mine
<1>2. CASE o \in effect
  <2>1. receipts[o] # None /\ receipts[o].phase # "failed" /\ ReceiptMoves(p, o)
    BY <1>2, ProcessMoves DEF Told, True, ReceiptsMove, Found, FailedLeft
  <2>2. CASE pc[p] \in Before /\ loc[p].op = o
    BY <1>2, <2>2 DEF Told, Mine
  <2>3. CASE /\ receipts[o].operation = "create" => CreateMatches(receipts[o]) = {}
             /\ SameOperation(receipts[o], receipts'[o])
    <3>1. receipts[o].operation # "create"
      BY <1>2, <2>3 DEF Found, Standing
    <3>2. receipts[o].operation = "reset"
      BY <2>1, <3>1 DEF Inductive, TypeOK, Receipt
    <3>3. True(o)'
      BY ToldStep DEF Next, Told
    <3>4. QED BY <2>3, <3>2, <3>3 DEF True, SameOperation
  <2>4. QED BY <2>1, <2>2, <2>3 DEF ReceiptMoves
<1>3. QED BY <1>1, <1>2

LEMMA FoundStep ==
  ASSUME Inductive, Clean, Told, Found, "remove" \notin Enabled, [Next]_vars
  PROVE  Found'
<1>1. ASSUME NEW p \in Procs, Process(p) PROVE Found'
  <2>1. \A q \in Procs : pc'[q] \notin Removing
    BY <1>1, NobodyRemoves, OthersStand DEF Found, Others
  <2>2. QED BY <1>1, <2>1, NamedStep, StandingStep, FailedStep DEF Found
<1>2. ASSUME UNCHANGED <<receipts, effect, wsDir, meta>>,
             \A q \in Procs : pc'[q] = "idle" \/ (pc'[q] = pc[q] /\ loc'[q] = loc[q])
      PROVE  Found'
  BY <1>2 DEF Found, Named, Standing, FailedLeft, CreateMatches, Exists, Record, Removing,
     CreateSteps
<1>3. ASSUME NEW p \in Procs, Crash(p) PROVE Found'
  BY <1>2, <1>3 DEF Crash, Return, Inductive, ControlOK
<1>4. CASE Children \/ (\E t \in Targets : EnsureTarget(t)) \/ UNCHANGED vars
  BY <1>2, <1>4 DEF Children, TargetWrites, OrphanExits, RmtreeEnds, EnsureTarget, vars
<1>5. QED BY <1>1, <1>3, <1>4 DEF Next

-----------------------------------------------------------------------------
(* The theorems.                                                           *)

LEMMA CleanHolds == Spec => []Clean
<1>1. Inductive /\ Clean /\ [Next]_vars => Clean'
  BY CleanStep
<1>2. QED BY <1>1, CleanInit, InductiveHolds, PTL DEF Spec

\* No receipt that the operation itself closed, and no failed receipt of a
\* reset, says anything but what was published.
THEOREM ReceiptsTrue == Spec => []OwnReceiptsTrue
<1>1. Inductive /\ Clean /\ Told /\ [Next]_vars => Told'
  BY ToldStep
<1>2. Told => OwnReceiptsTrue
  BY DEF Told, True, OwnReceiptsTrue
<1>3. QED BY <1>1, <1>2, ToldInit, CleanHolds, InductiveHolds, PTL DEF Spec

\* A recovery that reads receipts swept every staging entry before, and leaves
\* no open receipt behind it.
THEOREM RecoveriesKeepUp == Spec => []RecoveryKeepsUp
<1> DEFINE AllPassed == \A p \in Procs : Passed(p)
<1>1. Inductive /\ AllPassed /\ [Next]_vars => AllPassed'
  BY PassedStep
<1>2. AllPassed => RecoveryKeepsUp
  BY DEF Passed, RecoveryKeepsUp
<1>3. Init => AllPassed
  BY PassedInit
<1> HIDE DEF AllPassed
<1>4. QED BY <1>1, <1>2, <1>3, InductiveHolds, PTL DEF Spec

LEMMA ToldHolds == Spec => []Told
<1>1. Inductive /\ Clean /\ Told /\ [Next]_vars => Told'
  BY ToldStep
<1>2. QED BY <1>1, ToldInit, CleanHolds, InductiveHolds, PTL DEF Spec

\* The generation of a workspace never goes back and never skips a value, and
\* its name and target stay.
THEOREM RevisionsOrdered == Spec => RevisionsInOrder
<1> DEFINE Kept == \A i \in Ids : Exists(i) /\ Exists(i)' =>
                     /\ Record(i)'.gen \in {Record(i).gen, Record(i).gen + 1}
                     /\ Record(i)'.name = Record(i).name /\ Record(i)'.target = Record(i).target
<1>1. Inductive /\ Clean /\ [Next]_vars => [Kept]_vars
  BY RevisionsMove
<1>2. QED BY <1>1, CleanHolds, InductiveHolds, PTL DEF Spec, RevisionsInOrder

\* As long as nothing is killed and no write fails, every open receipt belongs
\* to a create or reset under way: a recovery settles only what a crash or a
\* fault left behind.
THEOREM ReceiptsOwned == Spec => []OpenReceiptsOwned
<1> DEFINE Quiet == Enabled \cap {"crash", "fault"} = {}
           AllOwned == \A o \in OpIds : Owned(o)
<1>1. Inductive /\ Told /\ (Quiet => AllOwned) /\ [Next]_vars => (Quiet => AllOwned')
  BY OwnersStep
<1>2. Init => AllOwned
  BY DEF Init, Owned, Open
<1>3. (Quiet => AllOwned) => OpenReceiptsOwned
  BY DEF Owned, OpenReceiptsOwned, RecordedSteps
<1>4. Inductive /\ Told /\ (Quiet => AllOwned) /\ [Next]_vars => (Quiet => AllOwned)'
  BY <1>1
<1> HIDE DEF Quiet, AllOwned
<1>5. QED BY <1>2, <1>3, <1>4, ToldHolds, InductiveHolds, PTL DEF Spec

\* Where no workspace is removed, no create or reset that published is ever
\* called failed: not by itself, and not by a recovery, which goes by the name
\* and the target.
THEOREM FailedPublishesNothing == Spec => []FailedPublishedNothing
<1> DEFINE Kept == "remove" \notin Enabled
<1>1. Inductive /\ Clean /\ Told /\ (Kept => Found) /\ [Next]_vars => (Kept => Found)'
  BY FoundStep
<1>2. Init => Found
  BY DEF Init, Found, Named, Standing, FailedLeft, Removing, CreateSteps
<1>3. (Kept => Found) => FailedPublishedNothing
  BY DEF Found, FailedLeft, FailedPublishedNothing
<1> HIDE DEF Kept
<1>4. QED BY <1>1, <1>2, <1>3, ToldHolds, CleanHolds, InductiveHolds, PTL DEF Spec

=============================================================================
