------------------------- MODULE WorkspaceProperties -------------------------
(***************************************************************************)
(* What is claimed of WorkspaceLifecycle: invariants, the refinement of    *)
(* the abstract registry, and progress.                                    *)
(***************************************************************************)
EXTENDS WorkspaceLifecycle

-----------------------------------------------------------------------------
(* Published workspaces.                                                   *)

\* No two published workspaces have the same name, however creates, removes
\* and recoveries interleave: the check of workspace_publish.py:72 and the
\* rename at its end are two steps, made one by the lifecycle lock.
UniqueNames ==
  \A i, j \in Ids :
    Exists(i) /\ Exists(j) /\ Record(i).name = Record(j).name => i = j

\* What is below workspaces/ is a tree that was extracted in full and passed
\* validation, with its own metadata, and is no staging entry that a cleanup
\* or a recovery will delete.
PublishedTreesWhole ==
  \A i \in Ids : Exists(i) =>
    /\ wsDir[i] \in valid \ staging
    /\ Record(i) \in Metadata /\ Record(i).id = i

\* A shell, run or build that has started works on the directory that is
\* published under its id for as long as it runs, and nobody moves the
\* generation under it: the check in _advance_generation never fails.
SessionSeesItsGeneration ==
  \A p \in Procs : pc[p] \in {"run_exec", "build_exec"} =>
    /\ wsDir[loc[p].id] = loc[p].dir
    /\ Record(loc[p].id).gen = loc[p].gen

\* While a live command deletes a base, no workspace refers to it, and none
\* can be published on it (storage.py:283-297).
LiveDeletionUnreferenced ==
  \A p \in Procs : At(p, "delete_exec") => Dependents(loc[p].target) = {}

-----------------------------------------------------------------------------
(* Locks.                                                                  *)

\* p waits for a lock that q holds.
WaitsFor(p, q) ==
  \/ /\ pc[p] \in {"create_wait", "reset_wait", "remove_wait", "delete_wait"}
     /\ lifecycle = q
  \/ /\ pc[p] \in {"reset_locked", "remove_locked", "run_wait", "build_wait"}
     /\ wsLock[loc[p].id] = q

\* Whoever is waited for either works, or waits for a session or another
\* command that works: no order of lock requests closes a circle
\* (workspace_manager.py:280, 401, 513).
NoCircularWait ==
  \A p, q, r, s \in Procs : ~(WaitsFor(p, q) /\ WaitsFor(q, r) /\ WaitsFor(r, s))

-----------------------------------------------------------------------------
(* Operations, their staging directories and their receipts.               *)

\* A staging directory that a running create, reset or remove still needs is
\* not taken from it by a recovery.
LiveStagingKept ==
  \A p \in Procs :
    pc[p] \in {"create_extract", "create_publish", "reset_extract",
               "reset_exchange", "reset_note", "reset_clean", "remove_clean"}
      => loc[p].dir \in staging

\* A receipt tells what was published, as long as the operation itself closed
\* it, or the recovery of a reset closed it as failed: an operation that is
\* reported as failed published nothing, one that is reported as published or
\* completed did (README.md:477).
OwnReceiptsTrue ==
  \A o \in OpIds : receipts[o] # None =>
    /\ /\ receipts[o].phase = "failed"
       /\ receipts[o].operation = "reset" \/ ~receipts[o].recovered
       => o \notin effect
    /\ receipts[o].phase \in {"published", "completed"} /\ ~receipts[o].recovered
       => o \in effect

\* Recovery judges a create by name and target (workspace_manager.py:627-665).
\* As long as no workspace is removed, no create that published one is ever
\* called failed, whatever was killed and whatever was reset meanwhile.
FailedPublishedNothing ==
  "remove" \notin Enabled =>
    \A o \in OpIds : receipts[o] # None /\ receipts[o].phase = "failed" => o \notin effect

\* Every open receipt belongs to an operation under way, unless something was
\* killed or failed: recovery finds work only after that.
OpenReceiptsOwned ==
  Enabled \cap {"crash", "fault"} = {} =>
    \A o \in OpIds : Open(o) =>
      \E p \in Procs : pc[p] \in CreateSteps \cup ResetSteps /\ loc[p].op = o

\* A recovery that is reading receipts has no staging entry left and leaves no
\* open receipt behind it, whatever sessions run meanwhile.
RecoveryKeepsUp ==
  \A p \in Procs : At(p, "recover_receipts") =>
    /\ staging = {}
    /\ \A o \in OpIds : o <= loc[p].op => ~Open(o)

-----------------------------------------------------------------------------
(* The abstract registry.                                                  *)

RegistryView ==
  [i \in Ids |-> IF Exists(i)
                 THEN [name |-> Record(i).name, target |-> Record(i).target,
                       gen |-> Record(i).gen,
                       tree |-> IF wsDir[i] \in touched THEN "touched" ELSE "pristine"]
                 ELSE None]

Registry == INSTANCE WorkspaceRegistry WITH registry <- RegistryView

ASSUME AbsenceIsNoWorkspace == None \notin Registry!Workspace

\* Every command, failure, crash and recovery is a step of the registry or
\* none: publication and reset are atomic, generations advance by one, and a
\* container left over from a killed command cannot reach a reset tree.
ImplementsRegistry == Registry!Spec

\* The generation of a workspace never goes back and never skips a value, and
\* its name and target stay (workspace_manager.py:567-575, 433).
RevisionsInOrder ==
  [][\A i \in Ids : Exists(i) /\ Exists(i)' =>
       /\ Record(i)'.gen \in {Record(i).gen, Record(i).gen + 1}
       /\ Record(i)'.name = Record(i).name /\ Record(i)'.target = Record(i).target]_vars

-----------------------------------------------------------------------------
(* An assertion of the code that does not hold of every behaviour.         *)

\* cli.py:944-950: a reset that succeeded hands back the generation after the
\* one the command read when it started.
ResetEvidenceConsistent == \A p \in Procs : ~At(p, "reset_mismatch")

-----------------------------------------------------------------------------
(* Progress.                                                               *)

\* Steps a process takes by itself once its command is running.  flock wakes
\* its waiters in turn, so a lock that is free again and again is granted.
Waits(p) ==
  \/ \E o \in OpIds : CreateBegin(p, o) \/ ResetBegin(p, o)
  \/ TakeLifecycle(p) \/ SessionStart(p) \/ NotFound(p)
  \/ RemoveUnpublish(p) \/ RemoveRefused(p) \/ DeleteBegin(p) \/ DeleteRefused(p)
  \/ CreateRefused(p) \/ ResetRefused(p)

Works(p) ==
  \/ \E d \in Dirs : CreateStage(p, d) \/ ResetStage(p, d) \/ RecoverRemoves(p, d)
  \/ \E i \in Ids : CreateExtracted(p, i)
  \/ CreatePublish(p) \/ CreateFinish(p) \/ CreateFails(p)
  \/ ResetExtracted(p) \/ ResetExchange(p) \/ ResetNote(p) \/ ResetClean(p)
  \/ ResetFinish(p) \/ ResetMismatch(p) \/ ResetFails(p) \/ RemoveFinish(p)
  \/ SessionEnds(p) \/ DeleteReturns(p)
  \/ RecoverSwept(p) \/ RecoverFinish(p)
  \/ \E o \in OpIds : RecoverCreate(p, o) \/ RecoverReset(p, o) \/ RecoverRaises(p, o)

\* Sessions and children are assumed to end.
FairSpec ==
  /\ Spec
  /\ \A p \in Procs : SF_vars(Waits(p)) /\ WF_vars(Works(p))
  /\ \A t \in Targets : WF_vars(RmtreeEnds(t))

\* Every command comes to an end: no order of lock requests leaves two of them
\* waiting for each other, and no failure keeps a lock.
CommandsEnd == \A p \in Procs : ~At(p, "idle") ~> At(p, "idle")

=============================================================================
