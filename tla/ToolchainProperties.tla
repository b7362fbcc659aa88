-------------------------- MODULE ToolchainProperties --------------------------
(***************************************************************************)
(* What is claimed of BuildToolchain.                                      *)
(***************************************************************************)
EXTENDS BuildToolchain

-----------------------------------------------------------------------------
(* Safety.                                                                 *)

\* What is published is Bootlin's toolchain, and a build that mounts it keeps
\* it, whoever acquires, fails or dies meanwhile: a wrong one would be an error
\* to every later build (build_toolchain.py:376-383).
BuildsUseToolchain ==
  /\ toolchain # "other"
  /\ \A p \in Procs : At(p, "build") => toolchain = "good"

\* It is downloaded by one process at a time, and never again once it is there,
\* although the first look takes no lock (build_toolchain.py:360-368).
OneAcquisition ==
  \A p \in Procs : pc[p] \in AcquireSteps \ {"tidy"} =>
    /\ toolchain = None
    /\ \A q \in Procs \ {p} : pc[q] \notin AcquireSteps

\* The inductive invariant: the lock is held exactly in the steps that need it,
\* the bytes unpacked are the verified ones, and each acquisition has a staging
\* directory of its own.
Inductive ==
  /\ TypeOK
  /\ \A p \in Procs :
       /\ pc[p] \in LockedSteps <=> holder = p
       /\ pc[p] \in AcquireSteps \ {"stage"} <=> place[p] # None
       /\ pc[p] \in {"extract", "publish"} => Archive(p) = "good"
       /\ pc[p] \in AcquireSteps \ {"tidy"} => toolchain = None
       /\ At(p, "build") => toolchain = "good"
  /\ toolchain # "other"

-----------------------------------------------------------------------------
(* Progress.                                                               *)

\* What an acquisition cannot help.  Steps of a process at work that change the
\* same are not meant.
Trouble(p) ==
  \/ (Fails(p) \/ Kill(p)) /\ ~(Verify(p) \/ Publish(p) \/ Unlock(p) \/ BuildEnds(p))
  \/ Download(p) /\ stagings'[place[p]] # "good"
  \/ Unlock(p) /\ toolchain = "good" /\ pc'[p] = "idle"

\* A free lock is granted, and one day nothing fails or is killed any more.
RepeatedBuild ==
  /\ Spec
  /\ \A p \in Procs :
       /\ WF_vars(LoadReuses(p) \/ LoadMisses(p))
       /\ SF_vars(Locked(p))
       /\ WF_vars(Works(p))
  /\ <>[][\A p \in Procs : ~Trouble(p)]_vars

\* Every build gets its toolchain again and again, whatever went wrong before.
BuildsSucceed == \A p \in Procs : []<>At(p, "build")

=============================================================================
