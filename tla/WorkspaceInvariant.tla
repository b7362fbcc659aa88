------------------------- MODULE WorkspaceInvariant -------------------------
(***************************************************************************)
(* The inductive invariant behind the safety properties of                 *)
(* WorkspaceLifecycle: what each control point guarantees about the local  *)
(* variables, the locks and the directories.  TLC checks that it holds,    *)
(* WorkspaceLifecycleProofs that it is inductive.                          *)
(***************************************************************************)
EXTENDS WorkspaceProperties

\* Control points at which a local variable is in use.
NamedSteps == CreateSteps \cup {"create_wait"}
TargetedSteps == NamedSteps \cup {"delete_wait", "delete_exec"}
RecordedSteps == CreateSteps \cup ResetSteps
OnWorkspace ==
  ResetSteps \cup {"create_publish", "create_finish", "reset_wait", "reset_locked",
                   "remove_wait", "remove_locked", "remove_clean",
                   "run_wait", "run_exec", "build_wait", "build_exec"}
InStaging == {"create_extract", "create_publish", "reset_extract", "reset_exchange",
              "reset_note", "reset_clean", "remove_clean"}
InSession == {"run_exec", "build_exec"}

\* The local variables r of a process at step s, with receipts rs on disk.
Fits(s, r, rs) ==
  /\ s \in NamedSteps => r.name \in Names
  /\ s \in TargetedSteps => r.target \in Targets
  /\ s \in RecordedSteps => r.op \in OpIds /\ rs[r.op] \in Receipt
  /\ s \in OnWorkspace => r.id \in Ids
  /\ s \in InStaging \cup InSession => r.dir \in Dirs

ControlOK == /\ pc \in [Procs -> Steps]
             /\ loc \in [Procs -> Local]
             /\ \A p \in Procs : Fits(pc[p], loc[p], receipts)

LocksOK ==
  \A p \in Procs :
    /\ pc[p] \in LifecycleSteps => lifecycle = p
    /\ pc[p] \in WorkspaceSteps => wsLock[loc[p].id] = p

\* And the other way round: nobody holds a lock at any other step, so that no
\* failure or refusal keeps one.
LocksReleased ==
  /\ lifecycle # None => pc[lifecycle] \in LifecycleSteps
  /\ \A i \in Ids : wsLock[i] # None =>
       pc[wsLock[i]] \in WorkspaceSteps /\ loc[wsLock[i]].id = i

\* A published directory is whole, no staging entry, and published once.
TreesOK ==
  /\ \A i \in Ids : Exists(i) =>
       /\ wsDir[i] \in valid \ staging
       /\ Record(i) \in Metadata /\ Record(i).id = i
  /\ \A i, j \in Ids : Exists(i) /\ wsDir[i] = wsDir[j] => i = j

\* What a process relies on between two of its steps.
HoldsStaging(p) == pc[p] \in InStaging => loc[p].dir \in staging

HoldsWorkspace(p) ==
  /\ pc[p] \in ResetSteps \cup {"reset_locked", "remove_locked"} \cup InSession
       => Exists(loc[p].id)
  /\ pc[p] \in InSession =>
       wsDir[loc[p].id] = loc[p].dir /\ Record(loc[p].id).gen = loc[p].gen

MayPublish(p) ==
  /\ pc[p] \in {"create_extract", "create_publish"} => ~NameTaken(loc[p].name)
  /\ At(p, "create_publish") =>
       /\ loc[p].dir \in valid
       /\ meta[loc[p].dir] = [id |-> loc[p].id, name |-> loc[p].name,
                              target |-> loc[p].target, gen |-> 0]

MayExchange(p) ==
  /\ pc[p] \in {"reset_stage", "reset_extract", "reset_exchange"} =>
       receipts[loc[p].op].before = Record(loc[p].id).gen
  /\ At(p, "reset_exchange") =>
       /\ loc[p].dir \in valid
       /\ meta[loc[p].dir] = NextRevision(loc[p].id, receipts[loc[p].op].before)

StepsOK ==
  \A p \in Procs :
    HoldsStaging(p) /\ HoldsWorkspace(p) /\ MayPublish(p) /\ MayExchange(p)

\* The whole: types, lock ownership, the published trees and their names, and
\* what every running command still finds as it left it.
Inductive ==
  /\ TypeOK /\ ControlOK /\ LocksOK /\ LocksReleased
  /\ TreesOK /\ UniqueNames /\ StepsOK

=============================================================================
