------------------------------ MODULE SeedProofs ------------------------------
(***************************************************************************)
(* Theorems about MaterializationSeed for every set of processes and       *)
(* versions, and every set of enabled commands and failures.               *)
(***************************************************************************)
EXTENDS SeedProperties, TLAPS

USE DEF At, Goto, Forget, Return, Steps, ChildSteps, Contents, seed, tar, history

\* What a creation looks at, and the steps of the root child.
Looks(p) ==
  LookComplete(p) \/ LookMissing(p) \/ Recheck(p) \/ Verify(p) \/ Unpack(p) \/ UnpackFails(p)

Writes(p) ==
  \/ SeedCheck(p) \/ TarOpens(p) \/ TarWrites(p) \/ TarEnds(p) \/ TarFails(p)
  \/ Hash(p) \/ JsonOpens(p) \/ JsonEnds(p) \/ ChildFails(p)

LEMMA StepCases ==
  ASSUME NEW p \in Procs, Step(p)
  PROVE  Looks(p) \/ Writes(p) \/ Kill(p)
BY DEF Step, Looks, Writes

LEMMA Names ==
  /\ None # "whole" /\ None # "broken" /\ None \notin Versions
  /\ "whole" \notin Versions /\ "broken" \notin Versions
BY AbsenceIsNew, VersionsIncomplete

LEMMA TypeStep ==
  ASSUME TypeOK, Next
  PROVE  TypeOK'
<1> USE DEF TypeOK
<1>1. ASSUME NEW p \in Procs, Looks(p) PROVE TypeOK'
  <2>1. CASE LookComplete(p) \/ LookMissing(p) \/ Recheck(p) \/ Verify(p)
    BY <2>1 DEF LookComplete, LookMissing, Recheck, Verify
  <2>2. CASE Unpack(p) \/ UnpackFails(p)
    BY <2>2 DEF Unpack, UnpackFails
  <2>3. QED BY <1>1, <2>1, <2>2 DEF Looks
<1>2. ASSUME NEW p \in Procs, Writes(p) PROVE TypeOK'
  <2>1. CASE TarOpens(p) \/ TarWrites(p) \/ TarEnds(p) \/ TarFails(p)
    BY <2>1 DEF TarOpens, TarWrites, TarEnds, TarFails
  <2>2. CASE SeedCheck(p) \/ Hash(p) \/ JsonOpens(p) \/ JsonEnds(p) \/ ChildFails(p)
    BY <2>2 DEF SeedCheck, Hash, JsonOpens, JsonEnds, ChildFails
  <2>3. QED BY <1>2, <2>1, <2>2 DEF Writes
<1>3. ASSUME NEW p \in Procs, Kill(p) PROVE TypeOK'
  BY <1>3 DEF Kill
<1>4. CASE Rebuild
  BY <1>4 DEF Rebuild
<1>5. QED BY <1>1, <1>2, <1>3, <1>4, StepCases DEF Next

\* As long as no two creations have written at a time, the one that writes is on
\* its own: the others are not at the archive.
LEMMA AloneStep ==
  ASSUME TypeOK, Alone, Next
  PROVE  Alone'
<1> SUFFICES ASSUME ~overlapped' PROVE Alone'
  BY DEF Alone
<1> USE Names DEF TypeOK, Alone
<1>0. ~overlapped
  BY DEF Next, Step, LookComplete, LookMissing, SeedCheck, TarOpens, TarWrites, TarEnds, TarFails,
     Hash, JsonOpens, JsonEnds, ChildFails, Recheck, Verify, Unpack, UnpackFails, Kill, Rebuild
<1>1. ASSUME NEW p \in Procs, Looks(p) PROVE Alone'
  <2>1. CASE LookComplete(p) \/ LookMissing(p)
    BY <1>0, <2>1 DEF LookComplete, LookMissing
  <2>2. CASE Recheck(p)
    BY <1>0, <2>2 DEF Recheck, Complete
  <2>3. CASE Verify(p)
    BY <1>0, <2>3 DEF Verify
  <2>4. CASE Unpack(p) \/ UnpackFails(p)
    BY <1>0, <2>4 DEF Unpack, UnpackFails
  <2>5. QED BY <1>1, <2>1, <2>2, <2>3, <2>4 DEF Looks
<1>2. ASSUME NEW p \in Procs, Writes(p) PROVE Alone'
  <2>1. CASE SeedCheck(p) \/ ChildFails(p)
    BY <1>0, <2>1 DEF SeedCheck, ChildFails
  <2>2. CASE TarOpens(p)
    <3>1. archive = None /\ metadata = None
      BY <1>0, <2>2 DEF TarOpens
    <3>2. QED BY <1>0, <2>2, <3>1 DEF TarOpens
  <2>3. CASE TarWrites(p)
    BY <1>0, <2>3 DEF TarWrites
  <2>4. CASE TarEnds(p)
    BY <1>0, <2>4 DEF TarEnds
  <2>5. CASE TarFails(p)
    BY <1>0, <2>5 DEF TarFails
  <2>6. CASE Hash(p)
    BY <1>0, <2>6 DEF Hash
  <2>7. CASE JsonOpens(p)
    BY <1>0, <2>7 DEF JsonOpens
  <2>8. CASE JsonEnds(p)
    BY <1>0, <2>8 DEF JsonEnds
  <2>9. QED BY <1>2, <2>1, <2>2, <2>3, <2>4, <2>5, <2>6, <2>7, <2>8 DEF Writes
<1>3. ASSUME NEW p \in Procs, Kill(p) PROVE Alone'
  BY <1>0, <1>3 DEF Kill
<1>4. CASE Rebuild
  BY <1>0, <1>4 DEF Rebuild
<1>5. QED BY <1>1, <1>2, <1>3, <1>4, StepCases DEF Next

LEMMA AloneIsTrue ==
  ASSUME TypeOK, Alone
  PROVE  SeedTrue
BY DEF TypeOK, Alone, SeedTrue, Complete

LEMMA UnpackedStep ==
  ASSUME TypeOK, Alone, UnpackedWhole, Next
  PROVE  UnpackedWhole'
<1> USE DEF UnpackedWhole
<1>1. ASSUME NEW p \in Procs, Unpack(p) PROVE UnpackedWhole'
  BY <1>1 DEF Unpack, Alone
<1>2. CASE UNCHANGED given /\ (overlapped => overlapped')
  BY <1>2
<1>3. QED
  BY <1>1, <1>2 DEF Next, Step, LookComplete, LookMissing, SeedCheck, TarOpens, TarWrites,
     TarEnds, TarFails, Hash, JsonOpens, JsonEnds, ChildFails, Recheck, Verify, UnpackFails,
     Kill, Rebuild

LEMMA InitInductive == ASSUME Init PROVE Inductive
BY Names DEF Init, Inductive, TypeOK, Alone, SeedTrue, Complete, UnpackedWhole

LEMMA NextInductive == ASSUME Inductive, [Next]_vars PROVE Inductive'
<1>1. CASE UNCHANGED vars
  BY <1>1 DEF vars, Inductive, TypeOK, Alone, SeedTrue, Complete, UnpackedWhole
<1>2. CASE Next
  <2>1. TypeOK' /\ Alone' /\ UnpackedWhole'
    BY <1>2, TypeStep, AloneStep, UnpackedStep DEF Inductive
  <2>2. SeedTrue'
    BY <2>1, AloneIsTrue, PTL
  <2>3. QED BY <2>1, <2>2 DEF Inductive
<1>3. QED BY <1>1, <1>2

\* The invariant of the two files of the seed and of those who write and read them.
THEOREM SeedInductive == Spec => []Inductive
<1>1. Init => Inductive
  BY InitInductive
<1>2. Inductive /\ [Next]_vars => Inductive'
  BY NextInductive
<1>3. QED BY <1>1, <1>2, PTL DEF Spec

\* Unless two creations write at a time, a seed that passes for complete is one.
THEOREM SeedsWhole == Spec => []SeedTrue
<1>1. Inductive => SeedTrue
  BY DEF Inductive
<1>2. QED BY <1>1, SeedInductive, PTL

\* Unless two creations write at a time, workspaces are unpacked from nothing but
\* complete archives, however creations fail and die.
THEOREM UnpackedTrue == Spec => []UnpackedWhole
<1>1. Inductive => UnpackedWhole
  BY DEF Inductive
<1>2. QED BY <1>1, SeedInductive, PTL

=============================================================================
