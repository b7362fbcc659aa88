------------------------- MODULE WorkspaceLifecycle -------------------------
(***************************************************************************)
(* Workspace lifecycle of Orin Stage: every ostg command that publishes,   *)
(* changes, rebuilds, removes or recovers a workspace, and the deletion of *)
(* the base a workspace depends on.                                        *)
(*                                                                         *)
(*   src/src/orin_stage/workspace_manager.py   create, run, shell, build,  *)
(*                                             reset, remove, recovery     *)
(*   src/src/orin_stage/workspace_publish.py   first publication           *)
(*   src/src/orin_stage/storage.py             base deletion               *)
(*   src/src/orin_stage/cli.py                 what a command reads before *)
(*                                             it waits for a lock         *)
(*                                                                         *)
(* The actors are operating-system processes, one per ostg command.  They  *)
(* share the data root only: two kinds of flock, the directories below     *)
(* workspaces/, staging/ and targets/, and the operation receipts below    *)
(* state/operations/.  A process may die between any two steps; the kernel *)
(* then drops its locks and everything else stays on disk.                 *)
(***************************************************************************)
EXTENDS Naturals, FiniteSets

CONSTANTS
  Procs,      \* ostg commands that can be running at the same time
  Ids,        \* workspace ids (uuid4)
  Names,      \* workspace names
  Targets,    \* target lock digests: one directory targets/<digest> each
  Dirs,       \* directories that move between staging/ and workspaces/
  OpIds,      \* operation ids, in the order recovery sorts them
  MaxGen,     \* bound: no generation exceeds it
  Enabled,    \* the commands, and the kinds of failure, of this instance
  None        \* "not there"

ASSUME NoneIsNew == None \notin Procs \cup Ids \cup Names \cup Targets \cup Dirs
ASSUME OpIdsPositive == OpIds \subseteq Nat \ {0}

VARIABLES
  lifecycle,  \* holder of state/workspace-locks/lifecycle.lock
  wsLock,     \* holder of state/workspace-locks/<id>.lock
  wsDir,      \* the directory published as workspaces/<id>
  staging,    \* the directories below staging/
  meta,       \* workspace.json of a directory
  valid,      \* directories whose tree was extracted in full and validated
  touched,    \* directories a target command wrote to since extraction
  base,       \* condition of targets/<digest>
  deleters,   \* targets a privileged rmtree is removing
  receipts,   \* state/operations/<operation id>.json
  orphans,    \* directories a container writes to after its command died
  pc, loc,    \* control point and local variables of each process
  effect      \* history: the operations that published their directory

shared == <<lifecycle, wsLock, wsDir, staging, meta, valid, touched, base,
            deleters, receipts, orphans, effect>>
vars == <<lifecycle, wsLock, wsDir, staging, meta, valid, touched, base,
          deleters, receipts, orphans, pc, loc, effect>>

-----------------------------------------------------------------------------
(* Types.                                                                  *)

Metadata == [id : Ids, name : Names, target : Targets, gen : Nat]

Receipt == [operation : {"create", "reset"},
            phase     : {"started", "staged", "published", "completed", "failed"},
            recovered : BOOLEAN,
            id : Ids \cup {None}, name : Names, target : Targets, before : Nat]

ASSUME NoneIsNoReceipt == None \notin Receipt

Local == [id : Ids \cup {None}, name : Names \cup {None},
          target : Targets \cup {None}, dir : Dirs \cup {None},
          gen : Nat, op : OpIds \cup {0}]

NoLocal == [id |-> None, name |-> None, target |-> None, dir |-> None,
            gen |-> 0, op |-> 0]

CreateSteps == {"create_check", "create_extract", "create_publish", "create_finish"}
ResetSteps == {"reset_stage", "reset_extract", "reset_exchange", "reset_note",
               "reset_clean", "reset_finish"}

\* Control points at which a process holds the lifecycle lock.
LifecycleSteps ==
  CreateSteps \cup ResetSteps
    \cup {"reset_locked", "remove_locked", "remove_clean",
          "recover_sweep", "recover_receipts", "delete_exec"}

\* Control points at which a process holds the lock of workspace loc[p].id.
WorkspaceSteps == ResetSteps \cup {"remove_clean", "run_exec", "build_exec"}

Steps ==
  LifecycleSteps \cup WorkspaceSteps
    \cup {"idle", "create_wait", "reset_wait", "reset_mismatch", "remove_wait",
          "run_wait", "build_wait", "delete_wait"}

TypeOK ==
  /\ lifecycle \in Procs \cup {None}
  /\ wsLock \in [Ids -> Procs \cup {None}]
  /\ wsDir \in [Ids -> Dirs \cup {None}]
  /\ staging \subseteq Dirs
  /\ meta \in [Dirs -> Metadata \cup {None}]
  /\ valid \subseteq Dirs
  /\ touched \subseteq Dirs
  /\ base \in [Targets -> {"ready", "partial", "absent"}]
  /\ deleters \subseteq Targets
  /\ receipts \in [OpIds -> Receipt \cup {None}]
  /\ orphans \subseteq Dirs
  /\ pc \in [Procs -> Steps]
  /\ loc \in [Procs -> Local]
  /\ effect \subseteq OpIds

Init ==
  /\ lifecycle = None
  /\ wsLock = [i \in Ids |-> None]
  /\ wsDir = [i \in Ids |-> None]
  /\ staging = {}
  /\ meta = [d \in Dirs |-> None]
  /\ valid = {}
  /\ touched = {}
  /\ base = [t \in Targets |-> "ready"]
  /\ deleters = {}
  /\ receipts = [o \in OpIds |-> None]
  /\ orphans = {}
  /\ pc = [p \in Procs |-> "idle"]
  /\ loc = [p \in Procs |-> NoLocal]
  /\ effect = {}

-----------------------------------------------------------------------------
(* What the operations share.                                              *)

Exists(i) == wsDir[i] # None

Published == {wsDir[i] : i \in Ids} \ {None}

\* The record WorkspaceManager.open returns for a published workspace.
Record(i) == meta[wsDir[i]]

\* _workspace_metadata(current, current.generation + 1); the mutant forgets + 1.
SameRevision(i, gen) == [Record(i) EXCEPT !.gen = gen]
NextRevision(i, gen) == [Record(i) EXCEPT !.gen = gen + 1]

\* uuid4 names are never in use already.
FreshDir(d) == d \notin staging \cup Published \cup orphans
FreshId(i) ==
  /\ ~Exists(i)
  /\ \A p \in Procs : loc[p].id # i
  /\ \A o \in OpIds : receipts[o] # None => receipts[o].id # i

\* The rmtree of a target removes its files in no particular order, so while
\* it runs, or after it failed, the seed may or may not be readable.
SeedMayBeRead(t) == base[t] # "absent"
SeedMayBeMissing(t) == base[t] # "ready"

At(p, step) == pc[p] = step
Goto(p, step) == pc' = [pc EXCEPT ![p] = step]
Return(p) == /\ pc' = [pc EXCEPT ![p] = "idle"]
             /\ loc' = [loc EXCEPT ![p] = NoLocal]

\* Mutant: the lock is taken as a shared one.
LockLifecycleShared(p) == lifecycle' = p
LockLifecycle(p) == lifecycle = None /\ lifecycle' = p
UnlockLifecycle == lifecycle' = None

\* Mutant: the lock is taken as a shared one.
LockWorkspaceShared(p, i) == wsLock' = [wsLock EXCEPT ![i] = p]
LockWorkspace(p, i) == wsLock[i] = None /\ wsLock' = [wsLock EXCEPT ![i] = p]
UnlockWorkspace(p) == wsLock' = [wsLock EXCEPT ![loc[p].id] = None]

\* Mutant: the inner lock is kept.
UnlockOuter(p) == UnlockLifecycle /\ UNCHANGED wsLock
UnlockBoth(p) == UnlockLifecycle /\ UnlockWorkspace(p)

\* Writing a receipt replaces it atomically, or fails and leaves the old one.
WriteReceipt(o, r) ==
  \/ receipts' = [receipts EXCEPT ![o] = r]
  \/ "fault" \in Enabled /\ UNCHANGED receipts

\* Mutant: every later phase is recorded as the last one.
PhaseCompleted(o, phase) == [receipts[o] EXCEPT !.phase = "completed"]
Phase(o, phase) == [receipts[o] EXCEPT !.phase = phase]

\* Mutant: the generation is recorded one too low.
StartedOffByOne(operation, i, n, t, gen) ==
  [operation |-> operation, phase |-> "started", recovered |-> FALSE,
   id |-> i, name |-> n, target |-> t, before |-> gen - 1]
Started(operation, i, n, t, gen) ==
  [operation |-> operation, phase |-> "started", recovered |-> FALSE,
   id |-> i, name |-> n, target |-> t, before |-> gen]

StartReceipt(o, r) == /\ receipts[o] = None
                      /\ receipts' = [receipts EXCEPT ![o] = r]

\* _remove_tree_in_namespace: podman unshare rm -rf of a staging entry, in
\* full or, when it fails, of part of the tree.
RemoveTree(d) ==
  /\ staging' = staging \ {d}
  /\ meta' = [meta EXCEPT ![d] = None]
  /\ valid' = valid \ {d}
  /\ touched' = touched \ {d}

RemovePartOf(d) == /\ "fault" \in Enabled
                   /\ valid' = valid \ {d}

\* Bounds of the instance: a command is asked for while the finite sets have a
\* new operation id, directory and workspace id for it and for every command
\* under way, and a workspace is asked to advance while MaxGen allows it.
UnderWay == Cardinality({p \in Procs : pc[p] \in
              {"create_wait", "create_check", "create_extract",
               "reset_wait", "reset_locked", "reset_stage"}})
OpAvailable == /\ Cardinality({o \in OpIds : receipts[o] = None}) > UnderWay
               /\ Cardinality({d \in Dirs : FreshDir(d)}) > UnderWay
IdAvailable == Cardinality({i \in Ids : FreshId(i)}) > UnderWay
GenAvailable(i) ==
  Record(i).gen + Cardinality({p \in Procs : loc[p].id = i}) < MaxGen

-----------------------------------------------------------------------------
(* ostg workspace create: the command looks for a complete target without  *)
(* any lock, then WorkspaceManager.create runs under the lifecycle lock.   *)

CreateRequest(p, n, t) ==
  /\ "create" \in Enabled
  /\ At(p, "idle")
  /\ base[t] = "ready"
  /\ OpAvailable /\ IdAvailable
  /\ Goto(p, "create_wait")
  /\ loc' = [loc EXCEPT ![p].name = n, ![p].target = t]
  /\ UNCHANGED shared

CreateBegin(p, o) ==
  /\ At(p, "create_wait")
  /\ SeedMayBeRead(loc[p].target)
  /\ StartReceipt(o, Started("create", None, loc[p].name, loc[p].target, 0))
  /\ LockLifecycle(p)
  /\ Goto(p, "create_check")
  /\ loc' = [loc EXCEPT ![p].op = o]
  /\ UNCHANGED <<wsLock, wsDir, staging, meta, valid, touched, base, deleters,
                 orphans, effect>>

\* _target_identity raises, or the receipt cannot be created.
CreateRefused(p) ==
  /\ At(p, "create_wait")
  /\ lifecycle = None
  /\ SeedMayBeMissing(loc[p].target) \/ "fault" \in Enabled
  /\ Return(p)
  /\ UNCHANGED shared

\* Mutant: the names of other workspaces are not looked at.
NameNeverTaken(n) == FALSE
NameTaken(n) == \E i \in Ids : Exists(i) /\ Record(i).name = n

CreateStage(p, d) ==
  /\ At(p, "create_check")
  /\ ~NameTaken(loc[p].name)
  /\ SeedMayBeRead(loc[p].target)
  /\ FreshDir(d)
  /\ staging' = staging \cup {d}
  /\ Goto(p, "create_extract")
  /\ loc' = [loc EXCEPT ![p].dir = d]
  /\ UNCHANGED <<lifecycle, wsLock, wsDir, meta, valid, touched, base, deleters,
                 receipts, orphans, effect>>

\* Extraction and parity validation succeeded and workspace.json is written.
CreateExtracted(p, i) ==
  /\ At(p, "create_extract")
  /\ FreshId(i)
  /\ valid' = valid \cup {loc[p].dir}
  /\ meta' = [meta EXCEPT ![loc[p].dir] =
       [id |-> i, name |-> loc[p].name, target |-> loc[p].target, gen |-> 0]]
  /\ Goto(p, "create_publish")
  /\ loc' = [loc EXCEPT ![p].id = i]
  /\ UNCHANGED <<lifecycle, wsLock, wsDir, staging, touched, base, deleters,
                 receipts, orphans, effect>>

\* RENAME_NOREPLACE of the staging directory to workspaces/<id>.
CreatePublish(p) ==
  /\ At(p, "create_publish")
  /\ ~Exists(loc[p].id) /\ loc[p].dir \in staging
  /\ wsDir' = [wsDir EXCEPT ![loc[p].id] = loc[p].dir]
  /\ staging' = staging \ {loc[p].dir}
  /\ effect' = effect \cup {loc[p].op}
  /\ Goto(p, "create_finish")
  /\ UNCHANGED <<lifecycle, wsLock, meta, valid, touched, base, deleters,
                 receipts, orphans, loc>>

\* Failing before publication closes the receipt and leaves the staging tree.
CreateFails(p) ==
  /\ \/ At(p, "create_check") /\ NameTaken(loc[p].name)
     \/ /\ pc[p] \in {"create_check", "create_extract"}
        /\ SeedMayBeMissing(loc[p].target)
     \/ /\ pc[p] \in {"create_check", "create_extract", "create_publish"}
        /\ "fault" \in Enabled
  /\ WriteReceipt(loc[p].op, Phase(loc[p].op, "failed"))
  /\ UnlockLifecycle
  /\ Return(p)
  /\ UNCHANGED <<wsLock, wsDir, staging, meta, valid, touched, base, deleters,
                 orphans, effect>>

\* The workspace stays published even when its receipt cannot be completed.
CreateFinish(p) ==
  /\ At(p, "create_finish")
  /\ WriteReceipt(loc[p].op, [Phase(loc[p].op, "completed") EXCEPT !.id = loc[p].id])
  /\ UnlockLifecycle
  /\ Return(p)
  /\ UNCHANGED <<wsLock, wsDir, staging, meta, valid, touched, base, deleters,
                 orphans, effect>>

-----------------------------------------------------------------------------
(* ostg workspace reset and remove.  The command opens the workspace first,*)
(* then waits for the lifecycle lock and, holding it, for the workspace's  *)
(* own lock.                                                               *)

ResetRequest(p, i) ==
  /\ "reset" \in Enabled
  /\ At(p, "idle")
  /\ Exists(i)
  /\ OpAvailable /\ GenAvailable(i)
  /\ Goto(p, "reset_wait")
  /\ loc' = [loc EXCEPT ![p].id = i, ![p].gen = Record(i).gen]
  /\ UNCHANGED shared

RemoveRequest(p, i) ==
  /\ "remove" \in Enabled
  /\ At(p, "idle")
  /\ Exists(i)
  /\ Goto(p, "remove_wait")
  /\ loc' = [loc EXCEPT ![p].id = i]
  /\ UNCHANGED shared

TakeLifecycle(p) ==
  /\ \/ At(p, "reset_wait") /\ Goto(p, "reset_locked")
     \/ At(p, "remove_wait") /\ Goto(p, "remove_locked")
  /\ Exists(loc[p].id)
  /\ LockLifecycle(p)
  /\ UNCHANGED <<wsLock, wsDir, staging, meta, valid, touched, base, deleters,
                 receipts, orphans, loc, effect>>

\* WorkspaceNotFoundError: the workspace went away while the command waited.
NotFound(p) ==
  /\ \/ pc[p] \in {"reset_wait", "remove_wait"} /\ lifecycle = None
     \/ pc[p] \in {"run_wait", "build_wait"} /\ wsLock[loc[p].id] = None
  /\ ~Exists(loc[p].id)
  /\ Return(p)
  /\ UNCHANGED shared

ResetBegin(p, o) ==
  LET i == loc[p].id IN
  /\ At(p, "reset_locked")
  /\ SeedMayBeRead(Record(i).target)
  /\ StartReceipt(o, Started("reset", i, Record(i).name, Record(i).target, Record(i).gen))
  /\ LockWorkspace(p, i)
  /\ Goto(p, "reset_stage")
  /\ loc' = [loc EXCEPT ![p].op = o]
  /\ UNCHANGED <<lifecycle, wsDir, staging, meta, valid, touched, base,
                 deleters, orphans, effect>>

\* _validate_target_binding raises, or the receipt cannot be created.
ResetRefused(p) ==
  /\ At(p, "reset_locked")
  /\ wsLock[loc[p].id] = None
  /\ SeedMayBeMissing(Record(loc[p].id).target) \/ "fault" \in Enabled
  /\ UnlockLifecycle
  /\ Return(p)
  /\ UNCHANGED <<wsLock, wsDir, staging, meta, valid, touched, base, deleters,
                 receipts, orphans, effect>>

ResetStage(p, d) ==
  /\ At(p, "reset_stage")
  /\ SeedMayBeRead(Record(loc[p].id).target)
  /\ FreshDir(d)
  /\ staging' = staging \cup {d}
  /\ Goto(p, "reset_extract")
  /\ loc' = [loc EXCEPT ![p].dir = d]
  /\ UNCHANGED <<lifecycle, wsLock, wsDir, meta, valid, touched, base,
                 deleters, receipts, orphans, effect>>

\* Extracted and validated; the receipt says so and the staging directory has
\* the workspace's metadata one generation on.
ResetExtracted(p) ==
  /\ At(p, "reset_extract")
  /\ receipts' = [receipts EXCEPT ![loc[p].op] = Phase(loc[p].op, "staged")]
  /\ valid' = valid \cup {loc[p].dir}
  /\ meta' = [meta EXCEPT ![loc[p].dir] =
       NextRevision(loc[p].id, receipts[loc[p].op].before)]
  /\ Goto(p, "reset_exchange")
  /\ UNCHANGED <<lifecycle, wsLock, wsDir, staging, touched, base, deleters,
                 orphans, loc, effect>>

ResetFails(p) ==
  /\ \/ /\ pc[p] \in {"reset_stage", "reset_extract"}
        /\ SeedMayBeMissing(Record(loc[p].id).target)
     \/ /\ pc[p] \in {"reset_stage", "reset_extract", "reset_exchange"}
        /\ "fault" \in Enabled
  /\ WriteReceipt(loc[p].op, Phase(loc[p].op, "failed"))
  /\ UnlockBoth(p)
  /\ Return(p)
  /\ UNCHANGED <<wsDir, staging, meta, valid, touched, base, deleters, orphans,
                 effect>>

\* RENAME_EXCHANGE: the staging path now holds the previous directory.
ResetExchange(p) ==
  LET i == loc[p].id IN
  /\ At(p, "reset_exchange")
  /\ loc[p].dir \in staging
  /\ wsDir' = [wsDir EXCEPT ![i] = loc[p].dir]
  /\ staging' = (staging \ {loc[p].dir}) \cup {wsDir[i]}
  /\ effect' = effect \cup {loc[p].op}
  /\ Goto(p, "reset_note")
  /\ loc' = [loc EXCEPT ![p].dir = wsDir[i]]
  /\ UNCHANGED <<lifecycle, wsLock, meta, valid, touched, base, deleters,
                 receipts, orphans>>

ResetNote(p) ==
  /\ At(p, "reset_note")
  /\ receipts' = [receipts EXCEPT ![loc[p].op] = Phase(loc[p].op, "published")]
  /\ Goto(p, "reset_clean")
  /\ UNCHANGED <<lifecycle, wsLock, wsDir, staging, meta, valid, touched, base,
                 deleters, orphans, loc, effect>>

ResetClean(p) ==
  /\ At(p, "reset_clean")
  /\ RemoveTree(loc[p].dir)
  /\ Goto(p, "reset_finish")
  /\ UNCHANGED <<lifecycle, wsLock, wsDir, base, deleters, receipts, orphans,
                 loc, effect>>

\* Published, but the receipt or the cleanup failed: the command reports an
\* error and leaves the receipt at the phase it had.
ResetBreaksOff(p) ==
  /\ \/ /\ pc[p] \in {"reset_note", "reset_finish"}
        /\ "fault" \in Enabled
        /\ UNCHANGED valid
     \/ /\ At(p, "reset_clean")
        /\ RemovePartOf(loc[p].dir)
  /\ UnlockBoth(p)
  /\ Return(p)
  /\ UNCHANGED <<wsDir, staging, meta, touched, base, deleters, receipts,
                 orphans, effect>>

\* The command checks the generation it is given back against the one it read
\* before it waited for the locks.
ResetFinish(p) ==
  /\ At(p, "reset_finish")
  /\ receipts' = [receipts EXCEPT ![loc[p].op] = Phase(loc[p].op, "completed")]
  /\ UnlockBoth(p)
  /\ IF Record(loc[p].id).gen = loc[p].gen + 1
     THEN Return(p)
     ELSE Goto(p, "reset_mismatch") /\ UNCHANGED loc
  /\ UNCHANGED <<wsDir, staging, meta, valid, touched, base, deleters, orphans,
                 effect>>

ResetMismatch(p) ==
  /\ At(p, "reset_mismatch")
  /\ Return(p)
  /\ UNCHANGED shared

\* The directory leaves workspaces/ in one rename before it is deleted.
RemoveUnpublish(p) ==
  LET i == loc[p].id IN
  /\ At(p, "remove_locked")
  /\ LockWorkspace(p, i)
  /\ wsDir' = [wsDir EXCEPT ![i] = None]
  /\ staging' = staging \cup {wsDir[i]}
  /\ Goto(p, "remove_clean")
  /\ loc' = [loc EXCEPT ![p].dir = wsDir[i]]
  /\ UNCHANGED <<lifecycle, meta, valid, touched, base, deleters, receipts,
                 orphans, effect>>

\* The rename fails.
RemoveRefused(p) ==
  /\ At(p, "remove_locked")
  /\ wsLock[loc[p].id] = None
  /\ "fault" \in Enabled
  /\ UnlockLifecycle
  /\ Return(p)
  /\ UNCHANGED <<wsLock, wsDir, staging, meta, valid, touched, base, deleters,
                 receipts, orphans, effect>>

RemoveFinish(p) ==
  /\ At(p, "remove_clean")
  /\ \/ RemoveTree(loc[p].dir)
     \/ RemovePartOf(loc[p].dir) /\ UNCHANGED <<staging, meta, touched>>
  /\ UnlockBoth(p)
  /\ Return(p)
  /\ UNCHANGED <<wsDir, base, deleters, receipts, orphans, effect>>

-----------------------------------------------------------------------------
(* ostg shell, run and build take the workspace's own lock only.  A shell  *)
(* or run is a container on the writable tree of the directory published   *)
(* when it started; a build mounts that tree read-only.                    *)

SessionRequest(p, i) ==
  /\ At(p, "idle")
  /\ Exists(i)
  /\ \/ "run" \in Enabled /\ GenAvailable(i) /\ Goto(p, "run_wait")
     \/ "build" \in Enabled /\ Goto(p, "build_wait")
  /\ loc' = [loc EXCEPT ![p].id = i]
  /\ UNCHANGED shared

SessionStart(p) ==
  LET i == loc[p].id IN
  /\ \/ At(p, "run_wait") /\ Goto(p, "run_exec")
     \/ At(p, "build_wait") /\ Goto(p, "build_exec")
  /\ Exists(i)
  /\ LockWorkspace(p, i)
  /\ loc' = [loc EXCEPT ![p].dir = wsDir[i], ![p].gen = Record(i).gen]
  /\ UNCHANGED <<lifecycle, wsDir, staging, meta, valid, touched, base,
                 deleters, receipts, orphans, effect>>

\* A target command writes to the directory its container was started on, as
\* long as that directory is still somewhere.
TargetWrites(d) ==
  /\ \/ \E p \in Procs : At(p, "run_exec") /\ loc[p].dir = d
     \/ d \in orphans
  /\ d \in staging \cup Published
  /\ touched' = touched \cup {d}
  /\ UNCHANGED <<lifecycle, wsLock, wsDir, staging, meta, valid, base, deleters,
                 receipts, orphans, pc, loc, effect>>

\* Exit status 0: _advance_generation rewrites workspace.json of the path,
\* after it found the generation the command started from.
RunCommits(p) ==
  LET i == loc[p].id IN
  /\ At(p, "run_exec")
  /\ Record(i).gen = loc[p].gen
  /\ meta' = [meta EXCEPT ![wsDir[i]] = NextRevision(i, loc[p].gen)]
  /\ UnlockWorkspace(p)
  /\ Return(p)
  /\ UNCHANGED <<lifecycle, wsDir, staging, valid, touched, base, deleters,
                 receipts, orphans, effect>>

\* A non-zero exit status of either, or the end of a build, changes nothing.
SessionEnds(p) ==
  /\ pc[p] \in {"run_exec", "build_exec"}
  /\ UnlockWorkspace(p)
  /\ Return(p)
  /\ UNCHANGED <<lifecycle, wsDir, staging, meta, valid, touched, base,
                 deleters, receipts, orphans, effect>>

OrphanExits(d) ==
  /\ d \in orphans
  /\ orphans' = orphans \ {d}
  /\ UNCHANGED <<lifecycle, wsLock, wsDir, staging, meta, valid, touched, base,
                 deleters, receipts, pc, loc, effect>>

-----------------------------------------------------------------------------
(* ostg storage delete base: a privileged child removes targets/<digest>   *)
(* while the command holds the lifecycle lock.  Reuse and construction of  *)
(* a target happen outside that lock.                                      *)

Dependents(t) == {i \in Ids : Exists(i) /\ Record(i).target = t}

DeleteRequest(p, t) ==
  /\ "delete" \in Enabled
  /\ At(p, "idle")
  /\ base[t] # "absent"
  /\ Goto(p, "delete_wait")
  /\ loc' = [loc EXCEPT ![p].target = t]
  /\ UNCHANGED shared

\* The plan is made again under the lock before the child is started.
DeleteBegin(p) ==
  LET t == loc[p].target IN
  /\ At(p, "delete_wait")
  /\ base[t] # "absent"
  /\ Dependents(t) = {}
  /\ LockLifecycle(p)
  /\ deleters' = deleters \cup {t}
  /\ base' = [base EXCEPT ![t] = "partial"]
  /\ Goto(p, "delete_exec")
  /\ UNCHANGED <<wsLock, wsDir, staging, meta, valid, touched, receipts,
                 orphans, loc, effect>>

\* DeletionBlockedError, or the target is not there any more.
DeleteRefused(p) ==
  /\ At(p, "delete_wait")
  /\ lifecycle = None
  /\ base[loc[p].target] = "absent" \/ Dependents(loc[p].target) # {}
  /\ Return(p)
  /\ UNCHANGED shared

\* The child ends: everything is gone or, when it failed or was killed, what
\* it had not reached is left, which may be all.
RmtreeEnds(t) ==
  /\ t \in deleters
  /\ deleters' = deleters \ {t}
  /\ \/ base' = [base EXCEPT ![t] = "absent"]
     \/ /\ "fault" \in Enabled
        /\ \E left \in {"partial", "ready"} : base' = [base EXCEPT ![t] = left]
  /\ UNCHANGED <<lifecycle, wsLock, wsDir, staging, meta, valid, touched,
                 receipts, orphans, pc, loc, effect>>

DeleteReturns(p) ==
  /\ At(p, "delete_exec")
  /\ loc[p].target \notin deleters
  /\ UnlockLifecycle
  /\ Return(p)
  /\ UNCHANGED <<wsLock, wsDir, staging, meta, valid, touched, base, deleters,
                 receipts, orphans, effect>>

\* ostg target ensure publishes a base and its seed where there is none.
EnsureTarget(t) ==
  /\ "ensure" \in Enabled
  /\ base[t] = "absent"
  /\ base' = [base EXCEPT ![t] = "ready"]
  /\ UNCHANGED <<lifecycle, wsLock, wsDir, staging, meta, valid, touched,
                 deleters, receipts, orphans, pc, loc, effect>>

-----------------------------------------------------------------------------
(* WorkspaceManager.recover_staging: under the lifecycle lock it deletes   *)
(* every staging entry, then settles the open receipts in sorted order.    *)

RecoverBegin(p) ==
  /\ "recover" \in Enabled
  /\ At(p, "idle")
  /\ LockLifecycle(p)
  /\ Goto(p, "recover_sweep")
  /\ UNCHANGED <<wsLock, wsDir, staging, meta, valid, touched, base, deleters,
                 receipts, orphans, loc, effect>>

\* Mutant: any directory is taken for an abandoned one.
RecoverRemovesAny(p, d) ==
  /\ At(p, "recover_sweep")
  /\ RemoveTree(d)
  /\ UNCHANGED <<lifecycle, wsLock, wsDir, base, deleters, receipts, orphans,
                 pc, loc, effect>>

RecoverRemoves(p, d) ==
  /\ At(p, "recover_sweep")
  /\ d \in staging
  /\ RemoveTree(d)
  /\ UNCHANGED <<lifecycle, wsLock, wsDir, base, deleters, receipts, orphans,
                 pc, loc, effect>>

\* A tree that cannot be removed ends the recovery before any receipt is read.
RecoverBreaksOff(p, d) ==
  /\ At(p, "recover_sweep")
  /\ d \in staging
  /\ RemovePartOf(d)
  /\ UnlockLifecycle
  /\ Return(p)
  /\ UNCHANGED <<wsLock, wsDir, staging, meta, touched, base, deleters,
                 receipts, orphans, effect>>

\* Mutant: the receipts are settled although entries are left.
RecoverSkips(p) ==
  /\ At(p, "recover_sweep")
  /\ Goto(p, "recover_receipts")
  /\ UNCHANGED <<shared, loc>>

RecoverSwept(p) ==
  /\ At(p, "recover_sweep")
  /\ staging = {}
  /\ Goto(p, "recover_receipts")
  /\ UNCHANGED <<shared, loc>>

Open(o) == receipts[o] # None /\ receipts[o].phase \notin {"completed", "failed"}

\* o is the next receipt of p's pass over the sorted receipts.
NextReceipt(p, o) ==
  /\ At(p, "recover_receipts")
  /\ o > loc[p].op /\ Open(o)
  /\ \A q \in OpIds : q > loc[p].op /\ Open(q) => o <= q

Settle(p, o, phase, i) ==
  /\ receipts' = [receipts EXCEPT ![o] =
       [@ EXCEPT !.phase = phase, !.recovered = TRUE, !.id = i]]
  /\ loc' = [loc EXCEPT ![p].op = o]
  /\ UNCHANGED <<lifecycle, wsLock, wsDir, staging, meta, valid, touched, base,
                 deleters, orphans, pc, effect>>

\* A create is matched by name and target, not by workspace id.
CreateMatches(r) ==
  {i \in Ids : Exists(i) /\ Record(i).name = r.name /\ Record(i).target = r.target}

RecoverCreate(p, o) ==
  /\ NextReceipt(p, o)
  /\ receipts[o].operation = "create"
  /\ \/ /\ CreateMatches(receipts[o]) = {}
        /\ Settle(p, o, "failed", None)
     \/ \E i \in CreateMatches(receipts[o]) : Settle(p, o, "completed", i)

\* Mutant: the two generations are mixed up.
RecoverResetSwapped(p, o) ==
  LET r == receipts[o] IN
  /\ NextReceipt(p, o)
  /\ r.operation = "reset"
  /\ Exists(r.id)
  /\ \/ Record(r.id).gen = r.before /\ Settle(p, o, "completed", r.id)
     \/ Record(r.id).gen = r.before + 1 /\ Settle(p, o, "failed", r.id)

\* A reset is judged by the generation the workspace has now.
RecoverReset(p, o) ==
  LET r == receipts[o] IN
  /\ NextReceipt(p, o)
  /\ r.operation = "reset"
  /\ Exists(r.id)
  /\ \/ Record(r.id).gen = r.before + 1 /\ Settle(p, o, "completed", r.id)
     \/ Record(r.id).gen = r.before /\ Settle(p, o, "failed", r.id)

\* The workspace is gone, its generation is neither of the two expected, or the
\* receipt cannot be rewritten: the recovery raises, and no later receipt is
\* looked at.
RecoverRaises(p, o) ==
  LET r == receipts[o] IN
  /\ NextReceipt(p, o)
  /\ \/ /\ r.operation = "reset"
        /\ Exists(r.id) => Record(r.id).gen \notin {r.before, r.before + 1}
     \/ "fault" \in Enabled
  /\ UnlockLifecycle
  /\ Return(p)
  /\ UNCHANGED <<wsLock, wsDir, staging, meta, valid, touched, base, deleters,
                 receipts, orphans, effect>>

RecoverFinish(p) ==
  /\ At(p, "recover_receipts")
  /\ \A o \in OpIds : o > loc[p].op => ~Open(o)
  /\ UnlockLifecycle
  /\ Return(p)
  /\ UNCHANGED <<wsLock, wsDir, staging, meta, valid, touched, base, deleters,
                 receipts, orphans, effect>>

-----------------------------------------------------------------------------
(* A command is killed (or interrupted: KeyboardInterrupt is no Exception, *)
(* so no handler runs).  Its locks are dropped; a container or a           *)
(* privileged rmtree it started goes on without it.                        *)

Crash(p) ==
  /\ "crash" \in Enabled
  /\ ~At(p, "idle")
  /\ lifecycle' = IF lifecycle = p THEN None ELSE lifecycle
  /\ wsLock' = [i \in Ids |-> IF wsLock[i] = p THEN None ELSE wsLock[i]]
  /\ orphans' = IF At(p, "run_exec") THEN orphans \cup {loc[p].dir} ELSE orphans
  /\ Return(p)
  /\ UNCHANGED <<wsDir, staging, meta, valid, touched, base, deleters, receipts,
                 effect>>

-----------------------------------------------------------------------------

Create(p) ==
  \/ \E n \in Names, t \in Targets : CreateRequest(p, n, t)
  \/ \E o \in OpIds : CreateBegin(p, o)
  \/ CreateRefused(p)
  \/ \E d \in Dirs : CreateStage(p, d)
  \/ \E i \in Ids : CreateExtracted(p, i)
  \/ CreatePublish(p) \/ CreateFails(p) \/ CreateFinish(p)

Reset(p) ==
  \/ \E i \in Ids : ResetRequest(p, i)
  \/ \E o \in OpIds : ResetBegin(p, o)
  \/ ResetRefused(p)
  \/ \E d \in Dirs : ResetStage(p, d)
  \/ ResetExtracted(p) \/ ResetExchange(p) \/ ResetNote(p) \/ ResetClean(p)
  \/ ResetFails(p) \/ ResetBreaksOff(p) \/ ResetFinish(p) \/ ResetMismatch(p)

Remove(p) ==
  \/ \E i \in Ids : RemoveRequest(p, i)
  \/ RemoveUnpublish(p) \/ RemoveRefused(p) \/ RemoveFinish(p)

Session(p) ==
  \/ \E i \in Ids : SessionRequest(p, i)
  \/ SessionStart(p) \/ RunCommits(p) \/ SessionEnds(p)

Delete(p) ==
  \/ \E t \in Targets : DeleteRequest(p, t)
  \/ DeleteBegin(p) \/ DeleteRefused(p) \/ DeleteReturns(p)

Recover(p) ==
  \/ RecoverBegin(p)
  \/ \E d \in Dirs : RecoverRemoves(p, d) \/ RecoverBreaksOff(p, d)
  \/ RecoverSwept(p)
  \/ \E o \in OpIds : RecoverCreate(p, o) \/ RecoverReset(p, o) \/ RecoverRaises(p, o)
  \/ RecoverFinish(p)

Process(p) ==
  \/ Create(p) \/ Reset(p) \/ Remove(p) \/ TakeLifecycle(p) \/ NotFound(p)
  \/ Session(p) \/ Delete(p) \/ Recover(p)

Children ==
  \/ \E d \in Dirs : TargetWrites(d) \/ OrphanExits(d)
  \/ \E t \in Targets : RmtreeEnds(t)

Next ==
  \/ \E p \in Procs : Process(p) \/ Crash(p)
  \/ Children
  \/ \E t \in Targets : EnsureTarget(t)

Spec == Init /\ [][Next]_vars

=============================================================================
