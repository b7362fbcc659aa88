-------------------------- MODULE InstallationProofs --------------------------
(***************************************************************************)
(* Theorems about BaseInstallation for all packages and versions, every    *)
(* tree to begin with and every set of enabled failures.                   *)
(***************************************************************************)
EXTENDS InstallationProperties, SequenceTheorems, TLAPS

-----------------------------------------------------------------------------
(* The mounts in order.                                                    *)

MountNames == {"proc", "sys", "dev", "pts"}

LEMMA MountsAre ==
  /\ Mounts \in Seq(MountNames) /\ Len(Mounts) = 4
  /\ Mounts[1] = "proc" /\ Mounts[2] = "sys" /\ Mounts[3] = "dev" /\ Mounts[4] = "pts"
  /\ \A i \in 1..4 : Mounts[i] \in MountNames
<1>1. Len(Mounts) = 4
  BY DEF Mounts
<1>2. Mounts[1] = "proc" /\ Mounts[2] = "sys" /\ Mounts[3] = "dev" /\ Mounts[4] = "pts"
  BY DEF Mounts
<1>3. Mounts \in Seq(MountNames)
  <2>1. "proc" \in MountNames /\ "sys" \in MountNames /\ "dev" \in MountNames /\ "pts" \in MountNames
    BY DEF MountNames
  <2>2. QED BY <2>1 DEF Mounts
<1>4. \A i \in 1..4 : Mounts[i] \in MountNames
  <2>1. \A i \in 1..4 : i = 1 \/ i = 2 \/ i = 3 \/ i = 4
    OBVIOUS
  <2>2. QED BY <1>2, <2>1 DEF MountNames
<1>5. QED BY <1>1, <1>2, <1>3, <1>4

\* The first n mounts, one more and one fewer.
LEMMA FirstMounts ==
  ASSUME NEW n \in 0..Len(Mounts)
  PROVE  LET first == SubSeq(Mounts, 1, n) IN
         /\ first \in Seq(MountNames) /\ Len(first) = n
         /\ \A i \in 1..n : first[i] = Mounts[i]
         /\ first = <<>> <=> n = 0
<1>1. \A i \in 1..n : Mounts[i] \in MountNames
  BY MountsAre
<1>2. n \in Nat /\ n \in Int /\ 1 \in Int
  BY MountsAre
<1>3. /\ SubSeq(Mounts, 1, n) \in Seq(MountNames)
      /\ Len(SubSeq(Mounts, 1, n)) = IF 1 <= n THEN n - 1 + 1 ELSE 0
      /\ \A i \in 1..n - 1 + 1 : SubSeq(Mounts, 1, n)[i] = Mounts[1 + i - 1]
  BY <1>1, <1>2, SubSeqProperties
<1>4. Len(SubSeq(Mounts, 1, n)) = n
  BY <1>2, <1>3
<1>5. SubSeq(Mounts, 1, n) = <<>> <=> n = 0
  BY <1>3, <1>4, EmptySeq, <1>2
<1>6. QED BY <1>2, <1>3, <1>4, <1>5

LEMMA OneMore ==
  ASSUME NEW n \in 0..Len(Mounts), n < Len(Mounts)
  PROVE  Append(SubSeq(Mounts, 1, n), Mounts[n + 1]) = SubSeq(Mounts, 1, n + 1)
<1> DEFINE s == SubSeq(Mounts, 1, n)
           t == SubSeq(Mounts, 1, n + 1)
<1>1. n + 1 \in 0..Len(Mounts) /\ Mounts[n + 1] \in MountNames
  BY MountsAre
<1>2. /\ s \in Seq(MountNames) /\ Len(s) = n /\ \A i \in 1..n : s[i] = Mounts[i]
      /\ t \in Seq(MountNames) /\ Len(t) = n + 1 /\ \A i \in 1..n + 1 : t[i] = Mounts[i]
  BY <1>1, FirstMounts
<1> HIDE DEF s, t
<1>3. /\ Append(s, Mounts[n + 1]) \in Seq(MountNames) /\ Len(Append(s, Mounts[n + 1])) = n + 1
      /\ \A i \in 1..n + 1 : Append(s, Mounts[n + 1])[i] = Mounts[i]
  BY <1>1, <1>2, AppendProperties
<1>4. Append(s, Mounts[n + 1]) = t
  BY <1>2, <1>3, SeqEqual
<1>5. QED BY <1>4 DEF s, t

\* The mount that close() takes next is the last one.
LEMMA OneFewer ==
  ASSUME NEW n \in 1..Len(Mounts), mounted = SubSeq(Mounts, 1, n)
  PROVE  /\ WithoutNext = SubSeq(Mounts, 1, n - 1)
         /\ mounted[NextUmount] = Mounts[n]
<1>1. /\ mounted \in Seq(MountNames) /\ Len(mounted) = n /\ mounted[n] = Mounts[n]
      /\ \A i \in 1..n : mounted[i] = Mounts[i]
  BY FirstMounts, MountsAre
<1>2. SubSeq(mounted, n + 1, n) = <<>>
  BY SubSeqEmpty, MountsAre
<1>3. /\ SubSeq(mounted, 1, n - 1) \in Seq(MountNames) /\ Len(SubSeq(mounted, 1, n - 1)) = n - 1
      /\ \A i \in 1..n - 1 : SubSeq(mounted, 1, n - 1)[i] = Mounts[i]
  <2>1. \A i \in 1..n - 1 : mounted[i] \in MountNames
    BY <1>1, MountsAre
  <2>2. 1 \in Int /\ n - 1 \in Int /\ n \in Nat
    BY MountsAre
  <2>3. /\ SubSeq(mounted, 1, n - 1) \in Seq(MountNames)
        /\ Len(SubSeq(mounted, 1, n - 1)) = IF 1 <= n - 1 THEN n - 1 - 1 + 1 ELSE 0
        /\ \A i \in 1..n - 1 - 1 + 1 : SubSeq(mounted, 1, n - 1)[i] = mounted[1 + i - 1]
    BY <2>1, <2>2, SubSeqProperties
  <2>4. n >= 1
    BY MountsAre
  <2>5. QED BY <1>1, <2>2, <2>3, <2>4
<1>4. n - 1 \in 0..Len(Mounts)
  BY MountsAre
<1>5. /\ SubSeq(Mounts, 1, n - 1) \in Seq(MountNames) /\ Len(SubSeq(Mounts, 1, n - 1)) = n - 1
      /\ \A i \in 1..n - 1 : SubSeq(Mounts, 1, n - 1)[i] = Mounts[i]
  BY <1>4, FirstMounts
<1>6. SubSeq(mounted, 1, n - 1) = SubSeq(Mounts, 1, n - 1)
  BY <1>3, <1>5, SeqEqual
<1>7. WithoutNext = SubSeq(mounted, 1, n - 1) \o <<>>
  BY <1>1, <1>2 DEF WithoutNext, NextUmount
<1>8. WithoutNext = SubSeq(Mounts, 1, n - 1)
  BY <1>5, <1>6, <1>7, ConcatEmptySeq
<1>9. QED BY <1>1, <1>8 DEF NextUmount

-----------------------------------------------------------------------------
(* The files of the tree.                                                  *)

FilesTyped ==
  /\ original \in [Paths -> Kinds \ {"ours"}] /\ files \in [Paths -> Kinds]
  /\ created \subseteq Added /\ resolved \in {"unset", "symlink", "file", "missing"}

\* What is still to come of the files, of each control point.
FilesAt ==
  /\ step \in {"qemu", "policy", "marker", "resolv", "closed"} => resolved = "unset"
  /\ step \in {"copy", "mount", "inside"} => resolved # "unset"
  /\ step \in {"restore", "closed"} => created = {}

LEMMA AddStep ==
  ASSUME FilesTyped, FilesAccounted, FilesAt,
         NEW path \in Added, files[path] = "none", Write(path),
         created' = created \cup {path}, UNCHANGED <<original, resolved>>
  PROVE  FilesTyped' /\ FilesAccounted'
<1> USE DEF FilesTyped, FilesAccounted, Added, Paths, Kinds, Write
<1>1. original[path] = "none" /\ path \in Paths
  OBVIOUS
<1>2. files' = [files EXCEPT ![path] = "ours"]
  OBVIOUS
<1>3. FilesTyped'
  BY <1>2
<1>4. \A q \in Added : IF q \in created' THEN original'[q] = "none" /\ files'[q] = "ours"
                                        ELSE files'[q] = original'[q]
  BY <1>1, <1>2
<1>5. files'["resolv"] = files["resolv"] /\ files'["backup"] = files["backup"]
  BY <1>2
<1>6. QED BY <1>3, <1>4, <1>5

LEMMA EnterFiles ==
  ASSUME FilesTyped, FilesAccounted, FilesAt, Enter
  PROVE  FilesTyped' /\ FilesAccounted' /\ FilesAt'
<1> USE DEF FilesTyped, FilesAccounted, FilesAt, Added, Paths, Kinds
<1>1. CASE PrepareQemu
  <2>1. CASE files["qemu"] = "none"
    BY <1>1, <2>1, AddStep DEF PrepareQemu, Add, Tree, Mounting
  <2>2. CASE files["qemu"] # "none"
    BY <1>1, <2>2 DEF PrepareQemu, Add, Tree, Mounting
  <2>3. QED BY <2>1, <2>2
<1>2. CASE PreparePolicy
  <2>1. CASE files["policy"] = "none"
    BY <1>2, <2>1, AddStep DEF PreparePolicy, Add, Tree, Mounting
  <2>2. CASE files["policy"] # "none"
    BY <1>2, <2>2 DEF PreparePolicy, Add, Tree, Mounting
  <2>3. QED BY <2>1, <2>2
<1>3. CASE PrepareMarker
  <2>1. CASE files["marker"] = "none"
    BY <1>3, <2>1, AddStep DEF PrepareMarker, Add, Tree, Mounting
  <2>2. CASE files["marker"] # "none"
    BY <1>3, <2>2 DEF PrepareMarker, Add, Tree, Mounting
  <2>3. QED BY <2>1, <2>2
<1>4. CASE SkipMarker
  BY <1>4 DEF SkipMarker, Tree
<1>5. CASE PrepareResolv
  <2> USE <1>5 DEF PrepareResolv
  <2>1. step = "resolv" /\ resolved = "unset" /\ files["resolv"] = original["resolv"]
        /\ original["resolv"] \in {"none", "file", "symlink"} /\ files["backup"] = original["backup"]
        /\ UNCHANGED <<original, created>>
    OBVIOUS
  <2>2. CASE files["resolv"] = "symlink"
    BY <2>1, <2>2
  <2>3. CASE files["resolv"] = "file" /\ files["backup"] = "none"
    BY <2>1, <2>3
  <2>4. CASE files["resolv"] = "file" /\ files["backup"] # "none"
    BY <2>1, <2>4
  <2>5. CASE files["resolv"] = "none"
    BY <2>1, <2>5
  <2>6. QED BY <2>1, <2>2, <2>3, <2>4, <2>5
<1>6. CASE CopyResolv
  BY <1>6 DEF CopyResolv, Write
<1>7. CASE Mount
  BY <1>7 DEF Mount, Tree
<1>8. CASE EnterFails
  <2> USE <1>8 DEF EnterFails
  <2>1. CASE UNCHANGED <<files, created>>
    BY <2>1
  <2>2. CASE /\ step \in {"qemu", "policy"} /\ files[step] = "none"
             /\ Write(step) /\ created' = created \cup {step}
    BY <2>2, AddStep
  <2>3. CASE step = "copy" /\ Write("resolv") /\ UNCHANGED created
    BY <2>3 DEF Write
  <2>4. QED BY <2>1, <2>2, <2>3
<1>9. QED BY <1>1, <1>2, <1>3, <1>4, <1>5, <1>6, <1>7, <1>8 DEF Enter

LEMMA CloseFiles ==
  ASSUME FilesTyped, FilesAccounted, FilesAt, Exit \/ Interrupted \/ Close
  PROVE  FilesTyped' /\ FilesAccounted' /\ FilesAt'
<1> USE DEF FilesTyped, FilesAccounted, FilesAt, Added, Paths, Kinds
<1>1. CASE Exit \/ Interrupted \/ Umounted
  BY <1>1 DEF Exit, Interrupted, Umounted, Tree
<1>2. CASE Umount \/ UmountFails
  BY <1>2 DEF Umount, UmountFails, Tree
<1>3. CASE RemoveCreated
  BY <1>3 DEF RemoveCreated
<1>4. CASE RestoreResolv
  <2> USE <1>4 DEF RestoreResolv
  <2>1. CASE resolved = "unset"
    BY <2>1
  <2>2. CASE resolved = "symlink"
    BY <2>2
  <2>3. CASE resolved = "file"
    BY <2>3
  <2>4. CASE resolved = "missing"
    BY <2>4
  <2>5. QED BY <2>1, <2>2, <2>3, <2>4
<1>5. QED BY <1>1, <1>2, <1>3, <1>4 DEF Close

\* The packages' scripts write resolv.conf while the context has its own there.
LEMMA ScriptsFiles ==
  ASSUME FilesTyped, FilesAccounted, FilesAt, step = "inside", ScriptsWrite
  PROVE  FilesTyped' /\ FilesAccounted' /\ FilesAt'
<1> USE DEF FilesTyped, FilesAccounted, FilesAt, Added, Paths, Kinds
<1>1. PICK r \in {files["resolv"], "symlink"} : files' = [files EXCEPT !["resolv"] = r]
  BY DEF ScriptsWrite
<1>2. UNCHANGED <<original, created, resolved, step>> /\ resolved # "unset" /\ r \in Kinds
  BY DEF ScriptsWrite
<1>3. QED BY <1>1, <1>2

-----------------------------------------------------------------------------
(* The mounts of the context.                                              *)

First(n) == {Mounts[i] : i \in 1..n}

LEMMA FirstSets ==
  ASSUME NEW n \in 0..Len(Mounts)
  PROVE  /\ First(n) \subseteq MountSet
         /\ First(0) = {}
         /\ n < Len(Mounts) => First(n) \cup {Mounts[n + 1]} = First(n + 1)
         /\ n > 0 => First(n) \ {Mounts[n]} = First(n - 1)
         /\ n > 0 /\ mounts = First(n) => ~Busy(Mounts[n])
<1>1. n \in {0, 1, 2, 3, 4} /\ Len(Mounts) = 4
  BY MountsAre
<1>2. /\ First(0) = {} /\ First(1) = {"proc"} /\ First(2) = {"proc", "sys"}
      /\ First(3) = {"proc", "sys", "dev"} /\ First(4) = MountNames
  BY MountsAre DEF First, MountNames
<1>3. MountSet = MountNames
  BY <1>1, <1>2 DEF MountSet, First
<1>4. QED BY <1>1, <1>2, <1>3, MountsAre DEF Busy, MountNames

MountsAt(n) ==
  /\ mounted = SubSeq(Mounts, 1, n)
  /\ ~mishap => mounts = First(n)
  /\ step \in EnterSteps \ {"mount"} => n = 0
  /\ step = "mount" => n < Len(Mounts)
  /\ step \in {"remove", "restore", "closed"} => n = 0

MountsTyped == mounts \subseteq MountSet /\ mishap \in BOOLEAN /\ step \in ChrootSteps

LEMMA MountsStep ==
  ASSUME MountsTyped, MountsAccounted, Enter \/ Exit \/ Interrupted \/ Close
  PROVE  MountsTyped' /\ MountsAccounted'
<1>1. PICK n \in 0..Len(Mounts) : MountsAt(n)
  BY DEF MountsAccounted, MountsAt, First
<1>2. ASSUME NEW m \in 0..Len(Mounts), MountsAt(m)'
      PROVE  MountsAccounted'
  BY <1>2 DEF MountsAccounted, MountsAt, First
<1>3. n \in Nat /\ Len(Mounts) = 4 /\ n <= 4
  BY MountsAre
<1>4. Len(mounted) = n /\ (mounted = <<>> <=> n = 0)
  BY <1>1, FirstMounts DEF MountsAt
<1> USE DEF MountsTyped, ChrootSteps, EnterSteps, CloseSteps
<1>5. ASSUME UNCHANGED <<mounts, mounted, mishap>>, step' \in ChrootSteps,
             step' \in EnterSteps => n = 0,
             step' \in {"remove", "restore", "closed"} => n = 0
      PROVE  MountsTyped' /\ MountsAccounted'
  <2>1. MountsAt(n)'
    BY <1>1, <1>3, <1>5 DEF MountsAt
  <2>2. QED BY <1>2, <1>5, <2>1
<1>6. CASE PrepareQemu \/ PreparePolicy \/ PrepareMarker
  <2>1. n = 0
    BY <1>1, <1>6 DEF MountsAt, PrepareQemu, PreparePolicy, PrepareMarker, Add
  <2>2. UNCHANGED <<mounts, mounted, mishap>> /\ step' \in ChrootSteps
    BY <1>6 DEF PrepareQemu, PreparePolicy, PrepareMarker, Add, Mounting
  <2>3. QED BY <1>5, <2>1, <2>2
<1>7. CASE SkipMarker \/ PrepareResolv \/ CopyResolv
  <2>1. n = 0
    BY <1>1, <1>7 DEF MountsAt, SkipMarker, PrepareResolv, CopyResolv
  <2>2. UNCHANGED <<mounts, mounted, mishap>> /\ step' \in ChrootSteps
    BY <1>7 DEF SkipMarker, PrepareResolv, CopyResolv, Mounting
  <2>3. QED BY <1>5, <2>1, <2>2
<1>8. CASE Mount
  <2> DEFINE next == Mounts[n + 1]
  <2>1. /\ n < Len(Mounts) /\ mounts' = mounts \cup {next} /\ mounted' = Append(mounted, next)
        /\ step' = (IF n + 1 = 4 THEN "inside" ELSE "mount") /\ UNCHANGED mishap
    BY <1>1, <1>3, <1>4, <1>8 DEF Mount, MountsAt
  <2>2. mounted' = SubSeq(Mounts, 1, n + 1)
    BY <1>1, <2>1, OneMore DEF MountsAt
  <2>3. n + 1 \in 0..Len(Mounts) /\ next \in MountSet
    BY <1>3, <2>1 DEF MountSet
  <2>4. mounts' \subseteq MountSet
    BY <2>1, <2>3
  <2>5. ~mishap' => mounts' = First(n + 1)
    BY <1>1, <2>1, FirstSets DEF MountsAt
  <2> HIDE DEF next
  <2>6. MountsAt(n + 1)'
    BY <1>3, <2>1, <2>2, <2>5 DEF MountsAt
  <2>7. QED BY <1>2, <2>1, <2>3, <2>4, <2>6
<1>9. CASE EnterFails
  BY <1>5, <1>9 DEF EnterFails, Mounting
<1>10. CASE Interrupted
  <2>1. mishap' = TRUE /\ UNCHANGED <<mounts, mounted>> /\ step' = "left"
    BY <1>10 DEF Interrupted, Mounting
  <2>2. MountsAt(n)'
    BY <1>1, <2>1 DEF MountsAt
  <2>3. QED BY <1>2, <2>1, <2>2
<1>11. CASE Exit
  BY <1>5, <1>11 DEF Exit, Mounting
<1>12. CASE Umount \/ UmountFails
  <2>1. step = "umount" /\ mounted # <<>> /\ mounted' = WithoutNext /\ UNCHANGED step
    BY <1>12 DEF Umount, UmountFails
  <2>2. n \in 1..Len(Mounts) /\ n - 1 \in 0..Len(Mounts)
    BY <1>3, <1>4, <2>1
  <2>3. mounted' = SubSeq(Mounts, 1, n - 1) /\ mounted[NextUmount] = Mounts[n]
    BY <1>1, <2>1, <2>2, OneFewer DEF MountsAt
  <2>4. mounts' \subseteq MountSet /\ mishap' \in BOOLEAN
    BY <1>12 DEF Umount, UmountFails
  <2>5. ~mishap' => mounts' = First(n - 1)
    <3>1. CASE Umount
      <4>1. mounts' = mounts \ {Mounts[n]} /\ mishap' = mishap
        BY <3>1, <2>3 DEF Umount
      <4>2. ~mishap => mounts = First(n)
        BY <1>1 DEF MountsAt
      <4>3. First(n) \ {Mounts[n]} = First(n - 1)
        BY <2>2, FirstSets
      <4>4. QED BY <4>1, <4>2, <4>3
    <3>2. CASE UmountFails
      <4>1. mishap' = (mishap \/ ~Busy(Mounts[n]))
        BY <3>2, <2>3 DEF UmountFails
      <4>2. ~mishap => mounts = First(n)
        BY <1>1 DEF MountsAt
      <4>3. mounts = First(n) => ~Busy(Mounts[n])
        BY <2>2, FirstSets
      <4>4. mishap'
        BY <4>1, <4>2, <4>3
      <4>5. QED BY <4>4
    <3>3. QED BY <1>12, <3>1, <3>2
  <2>6. MountsAt(n - 1)'
    BY <2>1, <2>3, <2>5 DEF MountsAt
  <2>7. QED BY <1>2, <2>1, <2>2, <2>4, <2>6
<1>13. CASE Umounted
  BY <1>4, <1>5, <1>13 DEF Umounted, Mounting
<1>14. CASE RemoveCreated \/ RestoreResolv
  <2>1. n = 0
    BY <1>1, <1>14 DEF MountsAt, RemoveCreated, RestoreResolv
  <2>2. QED BY <1>5, <1>14, <2>1 DEF RemoveCreated, RestoreResolv, Mounting
<1>15. QED
  BY <1>6, <1>7, <1>8, <1>9, <1>10, <1>11, <1>12, <1>13, <1>14 DEF Enter, Close

-----------------------------------------------------------------------------
(* Every step keeps every part of the invariant.                           *)

ContextKnown ==
  /\ FilesTyped /\ FilesAccounted /\ FilesAt
  /\ MountsTyped /\ MountsAccounted

LEMMA ContextOf == Inductive => ContextKnown
BY DEF Inductive, TypeOK, ChrootTypeOK, StepsKnown, ContextKnown, FilesTyped, FilesAt, MountsTyped

LEMMA ContextTyped == ContextKnown => ChrootTypeOK
BY DEF ContextKnown, ChrootTypeOK, FilesTyped, MountsTyped, MountsAccounted

\* The steps inside that leave the context alone.
Quiet ==
  \/ SourcesRefuse \/ SourcesEnter \/ SourcesFail \/ SourcesInterrupted \/ SourcesLeave
  \/ Resolve \/ Download \/ LockArchives \/ Reuse \/ SimulateAgain \/ VerifyArchives
  \/ CheckRemovals \/ Validate \/ Clean \/ InsideRaises

LEMMA QuietKeepsContext == Quiet => UNCHANGED chrootVars
BY DEF Quiet, SourcesRefuse, SourcesEnter, SourcesFail, SourcesInterrupted, SourcesLeave, KeepContext,
       Resolve, Download, LockArchives, Reuse, SimulateAgain, VerifyArchives,
       CheckRemovals, Validate, Clean, InsideRaises

LEMMA ContextUnchanged ==
  ASSUME ContextKnown, UNCHANGED chrootVars
  PROVE  ContextKnown'
<1>1. FilesTyped' /\ FilesAccounted' /\ FilesAt' /\ MountsTyped'
  BY DEF ContextKnown, chrootVars, FilesTyped, FilesAccounted, FilesAt, MountsTyped
<1>2. MountsAccounted'
  BY DEF ContextKnown, chrootVars, MountsAccounted
<1>3. QED BY <1>1, <1>2 DEF ContextKnown

LEMMA ContextStep ==
  ASSUME ContextKnown, Next
  PROVE  ContextKnown'
<1> USE DEF ContextKnown
<1>1. CASE Quiet
  BY <1>1, QuietKeepsContext, ContextUnchanged
<1>2. CASE ChrootEnter
  BY <1>2, EnterFiles, MountsStep DEF ChrootEnter
<1>3. CASE ChrootLeave
  BY <1>3, CloseFiles, MountsStep DEF ChrootLeave
<1>4. CASE ChrootInterrupted
  BY <1>4, CloseFiles, MountsStep DEF ChrootInterrupted
<1>5. CASE Install
  <2>1. step = "inside" /\ ScriptsWrite
    BY <1>5 DEF Install, Inside
  <2>2. FilesTyped' /\ FilesAccounted' /\ FilesAt'
    BY <2>1, ScriptsFiles
  <2>3. UNCHANGED <<mounts, mounted, mishap, step>>
    BY <2>1 DEF ScriptsWrite
  <2>4. MountsTyped' /\ MountsAccounted'
    BY <2>3 DEF MountsTyped, MountsAccounted
  <2>5. QED BY <2>2, <2>4
<1>6. QED
  BY <1>1, <1>2, <1>3, <1>4, <1>5 DEF Next, Quiet

-----------------------------------------------------------------------------
(* The types of the rest.                                                  *)

SourcesTyped == stage \in Stages /\ work \in WorkSteps /\ ending \in BOOLEAN /\ sources \in Sources

PackagesTyped ==
  /\ policy \in (SUBSET Packages) \cup {None}
  /\ found \in Status /\ installed \in Status
  /\ transaction \in Transactions \cup {None}
  /\ before \subseteq Packages
  /\ evidence \in (SUBSET Packages) \cup {None}

\* The sources of every way out of their rewriting.
LEMMA BegunSources ==
  ASSUME sources \in Sources
  PROVE  Begun \subseteq Sources
BY DEF Begun, Sources, Official

LEMMA CanonicalSources ==
  ASSUME NEW s \in Sources
  PROVE  /\ Canonical(s) \in Sources /\ Canonical(s).official = "canonical"
         /\ Canonical(s).disabled = FALSE /\ Canonical(s).construction = FALSE
         /\ Canonical(s).other = s.other
BY DEF Canonical, Sources, Official

LEMMA BrokenSources ==
  ASSUME NEW s \in Sources
  PROVE  Broken(s) \subseteq Sources
BY DEF Broken, Canonical, Sources, Official

LEMMA SourcesTypeStep ==
  ASSUME SourcesTyped, Next
  PROVE  SourcesTyped'
<1> USE DEF SourcesTyped, Stages, WorkSteps
<1>1. CASE SourcesRefuse
  BY <1>1 DEF SourcesRefuse
<1>2. CASE SourcesEnter
  <2>1. sources' \in Sources
    BY <1>2 DEF SourcesEnter, Sources, Official
  <2>2. QED BY <1>2, <2>1 DEF SourcesEnter
<1>3. CASE SourcesFail
  <2>1. PICK s \in Begun : sources' = Canonical(s) \/ sources' \in Broken(s)
    BY <1>3 DEF SourcesFail
  <2>2. sources' \in Sources
    BY <2>1, BegunSources, CanonicalSources, BrokenSources
  <2>3. QED BY <1>3, <2>2 DEF SourcesFail
<1>4. CASE SourcesInterrupted \/ SourcesLeave
  <2>1. sources' \in Sources
    BY <1>4, BegunSources, CanonicalSources, BrokenSources DEF SourcesInterrupted, SourcesLeave
  <2>2. QED BY <1>4, <2>1 DEF SourcesInterrupted, SourcesLeave
<1>5. CASE ChrootEnter
  BY <1>5 DEF ChrootEnter
<1>6. CASE ChrootLeave \/ ChrootInterrupted
  BY <1>6 DEF ChrootLeave, ChrootInterrupted
<1>7. CASE Install
  <2>1. PICK f \in {sources.official, "tree"}, o \in {"clean", "nvidia"} :
          sources' = [sources EXCEPT !.official = f, !.other = o]
    BY <1>7 DEF Install, ScriptsWrite
  <2>2. sources' \in Sources
    BY <2>1 DEF Sources, Official
  <2>3. QED BY <1>7, <2>2 DEF Install, Then, Raise
<1>8. CASE Resolve \/ Download \/ LockArchives \/ SimulateAgain \/ VerifyArchives
  BY <1>8 DEF Resolve, Download, LockArchives, SimulateAgain, VerifyArchives, Then, KeepContext
<1>9. CASE CheckRemovals \/ Validate \/ Clean
  BY <1>9 DEF CheckRemovals, Validate, Clean, Then, KeepContext
<1>10. CASE Reuse \/ InsideRaises
  BY <1>10 DEF Reuse, InsideRaises, Raise, KeepContext
<1>11. QED
  BY <1>1, <1>2, <1>3, <1>4, <1>5, <1>6, <1>7, <1>8, <1>9, <1>10 DEF Next

LEMMA PackagesTypeStep ==
  ASSUME PackagesTyped, Next
  PROVE  PackagesTyped'
<1> USE DEF PackagesTyped
<1>1. CASE SourcesRefuse \/ SourcesEnter \/ SourcesFail \/ SourcesInterrupted \/ SourcesLeave
  BY <1>1 DEF SourcesRefuse, SourcesEnter, SourcesFail, SourcesInterrupted, SourcesLeave, given, apt, locals
<1>2. CASE ChrootEnter \/ ChrootLeave \/ ChrootInterrupted
  BY <1>2 DEF ChrootEnter, ChrootLeave, ChrootInterrupted, given, apt, locals
<1>3. CASE Resolve
  BY <1>3 DEF Resolve, KeepContext, given, Simulated
<1>4. CASE Download \/ LockArchives \/ SimulateAgain \/ Validate \/ Clean
  BY <1>4 DEF Download, LockArchives, SimulateAgain, Validate, Clean, KeepContext, given, apt, locals
<1>5. CASE Reuse \/ InsideRaises
  BY <1>5 DEF Reuse, InsideRaises, Raise, KeepContext, given
<1>6. CASE VerifyArchives
  BY <1>6 DEF VerifyArchives, KeepContext, given, Names
<1>7. CASE Install
  BY <1>7 DEF Install, Outcomes, Raise, given, locals
<1>8. CASE CheckRemovals
  BY <1>8 DEF CheckRemovals, KeepContext, given
<1>9. QED
  BY <1>1, <1>2, <1>3, <1>4, <1>5, <1>6, <1>7, <1>8 DEF Next

-----------------------------------------------------------------------------
(* The control points.                                                     *)

LEMMA EnterSteppings ==
  ASSUME Enter, StepsKnown, MountsTyped
  PROVE  /\ step \in EnterSteps /\ step' \in EnterSteps \cup {"umount", "inside"}
<1> USE DEF EnterSteps
<1>1. CASE PrepareQemu \/ PreparePolicy \/ PrepareMarker
  BY <1>1 DEF PrepareQemu, PreparePolicy, PrepareMarker, Add
<1>2. CASE SkipMarker \/ CopyResolv \/ Mount \/ EnterFails
  BY <1>2 DEF SkipMarker, CopyResolv, Mount, EnterFails
<1>3. CASE PrepareResolv
  BY <1>3 DEF PrepareResolv
<1>4. QED BY <1>1, <1>2, <1>3 DEF Enter

LEMMA CloseSteppings ==
  ASSUME Close
  PROVE  step \in CloseSteps /\ step' \in CloseSteps \cup {"closed"}
BY DEF Close, Umount, UmountFails, Umounted, RemoveCreated, RestoreResolv, CloseSteps

StepsOfWork ==
  /\ step = "left" => mishap
  /\ step \in EnterSteps => work = "resolve" /\ ~ending
  /\ step = "inside" => work = "over" \/ ~ending
  /\ step \in CloseSteps \cup {"closed"} => work = "over" \/ ending
  /\ stage = "open" => step = "qemu" /\ created = {} /\ mounts = {}
  /\ stage = "built" => step = "closed" /\ ~mishap /\ ~ending

LEMMA StepsParts == StepsKnown <=> FilesAt /\ StepsOfWork
BY DEF StepsKnown, FilesAt, StepsOfWork

LEMMA StepsStep ==
  ASSUME StepsKnown, MountsTyped, SourcesTyped, Next
  PROVE  StepsOfWork'
<1>1. StepsOfWork
  BY StepsParts
<1> USE DEF StepsOfWork
<1>2. CASE SourcesRefuse \/ SourcesEnter \/ SourcesFail \/ SourcesInterrupted
  BY <1>1, <1>2 DEF SourcesRefuse, SourcesEnter, SourcesFail, SourcesInterrupted, chrootVars
<1>3. CASE SourcesLeave
  BY <1>1, <1>3 DEF SourcesLeave, chrootVars
<1>4. CASE ChrootEnter
  <2>1. step \in EnterSteps /\ step' \in EnterSteps \cup {"umount", "inside"}
    BY <1>4, EnterSteppings DEF ChrootEnter
  <2>2. stage' = "chroot" /\ work' = work /\ ending' = (step' = "umount")
    BY <1>4 DEF ChrootEnter
  <2>3. CASE step' = "umount"
    BY <2>2, <2>3 DEF EnterSteps, CloseSteps
  <2>4. CASE step' # "umount"
    <3>1. ~ending'
      BY <2>2, <2>4
    <3>2. QED BY <1>1, <2>1, <2>2, <2>4, <3>1 DEF EnterSteps, CloseSteps
  <2>5. QED BY <2>3, <2>4
<1>5. CASE ChrootLeave
  <2>1. stage' = "chroot" /\ UNCHANGED <<work, ending>>
    BY <1>5 DEF ChrootLeave
  <2>2. CASE Exit /\ work = "over"
    BY <2>1, <2>2 DEF Exit, EnterSteps, CloseSteps
  <2>3. CASE Close
    BY <1>1, <2>1, <2>3, CloseSteppings DEF EnterSteps, CloseSteps
  <2>4. QED BY <1>5, <2>2, <2>3 DEF ChrootLeave
<1>6. CASE ChrootInterrupted
  BY <1>6 DEF ChrootInterrupted, Interrupted, EnterSteps, CloseSteps
<1>7. CASE Install
  <2>1. stage' = "chroot" /\ step' = "inside" /\ step = "inside" /\ work = "install"
    BY <1>7 DEF Install, Inside, ScriptsWrite
  <2>2. UNCHANGED ending \/ work' = "over"
    BY <1>7 DEF Install, Then, Raise
  <2>3. QED BY <1>1, <2>1, <2>2 DEF EnterSteps, CloseSteps
<1>8. CASE Resolve \/ Download \/ LockArchives \/ SimulateAgain \/ VerifyArchives
  <2>1. stage' = "chroot" /\ step' = "inside" /\ step = "inside" /\ work # "over" /\ UNCHANGED ending
    BY <1>8 DEF Resolve, Download, LockArchives, SimulateAgain, VerifyArchives, Then, Inside,
                KeepContext, chrootVars
  <2>2. QED BY <1>1, <2>1 DEF EnterSteps, CloseSteps
<1>9. CASE CheckRemovals \/ Validate \/ Clean
  <2>1. stage' = "chroot" /\ step' = "inside" /\ step = "inside" /\ work # "over" /\ UNCHANGED ending
    BY <1>9 DEF CheckRemovals, Validate, Clean, Then, Inside, KeepContext, chrootVars
  <2>2. QED BY <1>1, <2>1 DEF EnterSteps, CloseSteps
<1>10. CASE Reuse \/ InsideRaises
  <2>1. stage' = "chroot" /\ step' = "inside" /\ work' = "over"
    BY <1>10 DEF Reuse, InsideRaises, Raise, Inside, KeepContext, chrootVars
  <2>2. QED BY <2>1 DEF EnterSteps, CloseSteps
<1>11. QED
  BY <1>2, <1>3, <1>4, <1>5, <1>6, <1>7, <1>8, <1>9, <1>10 DEF Next

-----------------------------------------------------------------------------
(* The packages.                                                           *)

\* What a step that leaves the packages alone needs to say of the work.
LEMMA WorkUnchanged ==
  ASSUME WorkKnown, UNCHANGED <<given, apt, work>>, ~ending' => ~ending \/ work = "resolve"
  PROVE  WorkKnown'
BY DEF WorkKnown, given, apt, locals, Outcome, Names, RemovalAllowed

\* An exception, after which nothing is known but the tree's packages.
LEMMA WorkRaised ==
  ASSUME Raise
  PROVE  WorkKnown'
BY DEF Raise, WorkKnown

LEMMA AdvanceStep ==
  ASSUME WorkKnown, StepsOfWork, PackagesTyped, UNCHANGED <<given, apt>>,
         Download \/ LockArchives \/ SimulateAgain \/ Clean
  PROVE  WorkKnown'
<1>1. ~ending' /\ ~ending
  BY DEF StepsOfWork, Download, LockArchives, SimulateAgain, Clean, Inside, Then
<1>2. CASE Download \/ LockArchives \/ SimulateAgain
  <2>1. work \in {"download", "lock", "again"} /\ work' \in {"lock", "again", "verify"}
    BY <1>2 DEF Download, LockArchives, SimulateAgain, Inside, Then
  <2>2. QED BY <1>1, <2>1 DEF WorkKnown, given, apt, locals, RemovalAllowed
<1>3. CASE Clean
  <2>1. work = "clean" /\ work' = "over"
    BY <1>3 DEF Clean, Inside, Then
  <2>2. QED BY <1>1, <2>1 DEF WorkKnown, given, apt, locals, RemovalAllowed, Outcome, Names
<1>4. QED BY <1>2, <1>3

LEMMA InstallStep ==
  ASSUME WorkKnown, StepsOfWork, PackagesTyped, Install, Then("removals"), UNCHANGED locals
  PROVE  WorkKnown'
<1>1. work = "install" /\ work' = "removals" /\ ~ending /\ ~ending' /\ installed = found
  BY DEF Install, Inside, Then, StepsOfWork, WorkKnown
<1>2. UNCHANGED <<found, policy, transaction, before, evidence>>
  BY DEF Install, given, locals
<1>3. Outcome(transaction)'
  <2>1. installed' \in Outcomes
    BY DEF Install
  <2>2. QED BY <1>1, <1>2, <2>1 DEF Outcome, Outcomes, NoRemove
<1>4. QED BY <1>1, <1>2, <1>3 DEF WorkKnown, RemovalAllowed

LEMMA WorkStep ==
  ASSUME WorkKnown, StepsKnown, PackagesTyped, MountsTyped, Next
  PROVE  WorkKnown'
<1>0. StepsOfWork
  BY StepsParts
<1>1. CASE SourcesRefuse \/ SourcesEnter \/ SourcesFail \/ SourcesInterrupted \/ SourcesLeave
  BY <1>1, WorkUnchanged DEF SourcesRefuse, SourcesEnter, SourcesFail, SourcesInterrupted, SourcesLeave
<1>2. CASE ChrootEnter
  <2>1. work = "resolve"
    BY <1>0, <1>2, EnterSteppings DEF ChrootEnter, StepsOfWork
  <2>2. QED BY <1>2, <2>1, WorkUnchanged DEF ChrootEnter
<1>3. CASE ChrootLeave \/ ChrootInterrupted
  BY <1>3, WorkUnchanged DEF ChrootLeave, ChrootInterrupted
<1>4. CASE Resolve
  <2>1. /\ work = "resolve" /\ work' = "download" /\ UNCHANGED <<policy, found, installed>>
        /\ transaction' \in Transactions /\ RemovalAllowed(transaction')
    BY <1>4 DEF Resolve, Inside, Then, KeepContext, given, Simulated
  <2>2. QED BY <2>1 DEF WorkKnown, RemovalAllowed
<1>5. CASE Download \/ LockArchives \/ SimulateAgain \/ Clean
  <2>1. UNCHANGED <<given, apt>>
    BY <1>5 DEF Download, LockArchives, SimulateAgain, Clean, KeepContext
  <2>2. QED BY <1>0, <1>5, <2>1, AdvanceStep
<1>6. CASE Reuse \/ InsideRaises
  BY <1>6, WorkRaised DEF Reuse, InsideRaises
<1>7. CASE VerifyArchives
  <2>1. /\ work = "verify" /\ work' = "install" /\ before' = Names(installed) /\ UNCHANGED ending
        /\ UNCHANGED <<policy, found, installed, transaction, evidence>>
    BY <1>7 DEF VerifyArchives, Inside, Then, KeepContext, given
  <2>2. installed = found
    BY <2>1 DEF WorkKnown
  <2>3. Outcome(transaction)'
    BY <2>1, <2>2 DEF Outcome
  <2>4. QED BY <2>1, <2>2, <2>3 DEF WorkKnown, RemovalAllowed, Names
<1>8. CASE Install
  <2>1. CASE Then("removals") /\ UNCHANGED locals
    BY <1>0, <1>8, <2>1, InstallStep
  <2>2. CASE Raise
    BY <2>2, WorkRaised
  <2>3. QED BY <1>8, <2>1, <2>2 DEF Install
<1>9. CASE CheckRemovals
  <2>1. /\ work = "removals" /\ work' = "validate" /\ UNCHANGED ending
        /\ before \ Names(installed) = transaction.remove
        /\ evidence' = before \ Names(installed)
        /\ UNCHANGED <<policy, found, installed, transaction, before>>
    BY <1>9 DEF CheckRemovals, Inside, Then, KeepContext, given
  <2>2. before = Names(found) /\ Outcome(transaction)
    BY <2>1 DEF WorkKnown
  <2>3. Outcome(transaction)'
    BY <2>1, <2>2 DEF Outcome
  <2>4. QED BY <2>1, <2>2, <2>3 DEF WorkKnown, RemovalAllowed, Names
<1>10. CASE Validate
  <2>1. /\ work = "validate" /\ work' = "clean" /\ UNCHANGED <<ending, given, apt>>
        /\ \A k \in Names(transaction.install) : installed[k] = transaction.install[k]
    BY <1>10 DEF Validate, Inside, Then, KeepContext
  <2>2. QED BY <2>1 DEF WorkKnown, RemovalAllowed, Names, Outcome, given, apt, locals
<1>11. QED
  BY <1>1, <1>2, <1>3, <1>4, <1>5, <1>6, <1>7, <1>8, <1>9, <1>10 DEF Next

LEMMA RemovedStep ==
  ASSUME WorkKnown, StepsKnown, PackagesTyped, NothingRemovedWithoutPolicy, Next
  PROVE  NothingRemovedWithoutPolicy'
<1> USE DEF NothingRemovedWithoutPolicy
<1>1. CASE SourcesRefuse \/ SourcesEnter \/ SourcesFail \/ SourcesInterrupted \/ SourcesLeave
  BY <1>1 DEF SourcesRefuse, SourcesEnter, SourcesFail, SourcesInterrupted, SourcesLeave, given, apt, Names
<1>2. CASE ChrootEnter \/ ChrootLeave \/ ChrootInterrupted
  BY <1>2 DEF ChrootEnter, ChrootLeave, ChrootInterrupted, given, apt, Names
<1>3. CASE Download \/ LockArchives \/ SimulateAgain \/ Validate \/ Clean
  BY <1>3 DEF Download, LockArchives, SimulateAgain, Validate, Clean, KeepContext, given, apt, Names
<1>4. CASE Resolve \/ Reuse \/ InsideRaises \/ VerifyArchives \/ CheckRemovals
  BY <1>4 DEF Resolve, Reuse, InsideRaises, VerifyArchives, CheckRemovals, KeepContext, given, Names
<1>5. CASE Install
  <2>1. work = "install" /\ ~ending /\ UNCHANGED <<policy, found>> /\ installed' \in Outcomes
    BY <1>5, StepsParts DEF Install, Inside, given, StepsOfWork
  <2>2. installed = found /\ RemovalAllowed(transaction)
    BY <2>1 DEF WorkKnown
  <2>3. ASSUME policy = None
        PROVE  \A k \in Names(found) : k \in Names(installed')
    <3>1. NoRemove
      BY <2>2, <2>3 DEF RemovalAllowed, NoRemove
    <3>2. QED BY <2>1, <2>2, <3>1 DEF Outcomes, Names
  <2>4. QED BY <2>1, <2>3 DEF Names
<1>6. QED BY <1>1, <1>2, <1>3, <1>4, <1>5 DEF Next

-----------------------------------------------------------------------------
(* What the construction leaves behind.                                    *)

LEMMA ClosedFiles ==
  ASSUME ContextKnown, step = "closed"
  PROVE  files = original
<1>1. created = {} /\ resolved = "unset"
  BY DEF ContextKnown, FilesAt
<1>2. \A path \in Paths : files[path] = original[path]
  BY <1>1 DEF ContextKnown, FilesAccounted, Paths
<1>3. QED BY <1>2 DEF ContextKnown, FilesTyped

LEMMA OpenFiles ==
  ASSUME ContextKnown, step = "qemu", created = {}
  PROVE  files = original
<1>1. resolved = "unset"
  BY DEF ContextKnown, FilesAt
<1>2. \A path \in Paths : files[path] = original[path]
  BY <1>1 DEF ContextKnown, FilesAccounted, Paths
<1>3. QED BY <1>2 DEF ContextKnown, FilesTyped

LEMMA ClosedMounts ==
  ASSUME ContextKnown, step = "closed", ~mishap
  PROVE  mounts = {}
<1>1. mounts = {Mounts[i] : i \in 1..0}
  BY DEF ContextKnown, MountsAccounted
<1>2. QED BY <1>1

LEMMA UndoneStep ==
  ASSUME Inductive, Next
  PROVE  ConstructionUndone'
<1>1. ContextKnown /\ SourcesTyped /\ StepsOfWork /\ WorkKnown
  BY ContextOf, StepsParts DEF Inductive, TypeOK, SourcesTyped
<1> USE DEF ConstructionUndone
<1>2. CASE SourcesRefuse
  <2>1. step = "qemu" /\ created = {} /\ mounts = {} /\ work = "resolve"
    BY <1>1, <1>2 DEF SourcesRefuse, StepsOfWork, EnterSteps
  <2>2. installed = found
    BY <1>1, <2>1 DEF WorkKnown
  <2>3. files = original
    BY <1>1, <2>1, OpenFiles
  <2>4. /\ stage' = "ended"
        /\ sources.disabled \/ sources.construction
        /\ UNCHANGED <<files, original, mounts, sources, installed, found>>
    BY <1>2 DEF SourcesRefuse, chrootVars, given, apt
  <2>5. QED BY <2>1, <2>2, <2>3, <2>4
<1>3. CASE SourcesFail \/ SourcesInterrupted
  <2>1. CASE stage' = "torn"
    BY <2>1
  <2>2. CASE stage' # "torn"
    <3>1. PICK s \in Begun : stage' = "ended" /\ sources' = Canonical(s)
      BY <1>3, <2>2 DEF SourcesFail, SourcesInterrupted
    <3>2. s \in Sources
      BY <1>1, <3>1, BegunSources DEF SourcesTyped
    <3>3. QED BY <3>1, <3>2, CanonicalSources
  <2>3. QED BY <2>1, <2>2
<1>4. CASE SourcesLeave
  <2>1. CASE stage' = "torn"
    BY <2>1
  <2>2. CASE stage' = "ended"
    <3>1. sources' = Canonical(sources)
      BY <1>4, <2>2 DEF SourcesLeave
    <3>2. QED BY <1>1, <2>2, <3>1, CanonicalSources DEF SourcesTyped
  <2>3. CASE stage' = "built"
    <3>1. ~mishap /\ sources.other = "clean" /\ sources' = Canonical(sources) /\ step = "closed"
      BY <1>1, <1>4, <2>3 DEF SourcesLeave, StepsOfWork
    <3>2. mounts = {} /\ files = original
      BY <1>1, <3>1, ClosedFiles, ClosedMounts
    <3>3. UNCHANGED <<mounts, files, original>>
      BY <1>4 DEF SourcesLeave, chrootVars
    <3>4. sources' = [official |-> "canonical", disabled |-> FALSE,
                      construction |-> FALSE, other |-> "clean"]
      <4>1. /\ sources' \in Sources /\ sources'.other = "clean" /\ sources'.disabled = FALSE
            /\ sources'.construction = FALSE /\ sources'.official = "canonical"
        BY <1>1, <3>1, CanonicalSources DEF SourcesTyped
      <4>2. PICK a \in Official, d \in BOOLEAN, c \in BOOLEAN, x \in {"clean", "nvidia"} :
              sources' = [official |-> a, disabled |-> d, construction |-> c, other |-> x]
        BY <4>1 DEF Sources
      <4>3. QED BY <4>1, <4>2
    <3>5. QED BY <2>3, <3>2, <3>3, <3>4
  <2>4. QED BY <1>4, <2>1, <2>2, <2>3 DEF SourcesLeave
<1>5. CASE SourcesEnter \/ ChrootEnter \/ ChrootLeave \/ ChrootInterrupted
  BY <1>5 DEF SourcesEnter, ChrootEnter, ChrootLeave, ChrootInterrupted
<1>6. CASE Resolve \/ Download \/ LockArchives \/ Reuse \/ SimulateAgain \/ VerifyArchives
  BY <1>6 DEF Resolve, Download, LockArchives, Reuse, SimulateAgain, VerifyArchives, Inside, KeepContext
<1>7. CASE CheckRemovals \/ Validate \/ Clean \/ InsideRaises \/ Install
  BY <1>7 DEF CheckRemovals, Validate, Clean, InsideRaises, Install, Inside, KeepContext
<1>8. QED
  BY <1>2, <1>3, <1>4, <1>5, <1>6, <1>7 DEF Next

-----------------------------------------------------------------------------
(* The theorems.                                                           *)

LEMMA InductiveInit == Init => Inductive
<1> SUFFICES ASSUME Init PROVE Inductive
  OBVIOUS
<1>1. /\ original \in [Paths -> Kinds \ {"ours"}] /\ files \in [Paths -> Kinds] /\ files = original
      /\ created = {} /\ resolved = "unset" /\ step = "qemu" /\ mounts = {} /\ mounted = <<>>
      /\ mishap = FALSE
  BY DEF Init, ChrootInit, Kinds
<1>2. MountsAccounted
  <2>1. 0 \in 0..Len(Mounts)
    BY MountsAre
  <2>2. mounted = SubSeq(Mounts, 1, 0) /\ First(0) = {}
    BY <1>1, <2>1, FirstMounts, FirstSets
  <2>3. QED BY <1>1, <2>1, <2>2 DEF MountsAccounted, First
<1>3. FilesTyped /\ FilesAccounted /\ FilesAt /\ MountsTyped
  BY <1>1 DEF FilesTyped, FilesAccounted, FilesAt, MountsTyped, ChrootSteps, EnterSteps
<1>4. ChrootTypeOK
  BY <1>2, <1>3, ContextTyped DEF ContextKnown
<1>5. /\ stage = "open" /\ work = "resolve" /\ ending = FALSE /\ transaction = None
      /\ sources \in Sources /\ policy \in (SUBSET Packages) \cup {None}
      /\ found \in Status /\ installed = found /\ before = {} /\ evidence = None
  BY DEF Init
<1>6. TypeOK
  BY <1>4, <1>5 DEF TypeOK, Stages, WorkSteps
<1>7. StepsKnown
  BY <1>1, <1>3, <1>5, StepsParts DEF StepsOfWork, CloseSteps
<1>8. WorkKnown /\ NothingRemovedWithoutPolicy /\ ConstructionUndone
  BY <1>5 DEF WorkKnown, NothingRemovedWithoutPolicy, ConstructionUndone
<1>9. QED BY <1>2, <1>3, <1>6, <1>7, <1>8 DEF Inductive

LEMMA PartsLater ==
  /\ ContextKnown' => ChrootTypeOK'
  /\ FilesAt' /\ StepsOfWork' => StepsKnown'
<1>1. (FilesAt /\ StepsOfWork => StepsKnown)
  BY StepsParts
<1>2. QED BY ContextTyped, <1>1, PTL

LEMMA InductiveStep ==
  ASSUME Inductive, [Next]_vars
  PROVE  Inductive'
<1>1. CASE UNCHANGED vars
  <2>1. ContextKnown'
    BY <1>1, ContextOf, ContextUnchanged DEF vars, chrootVars
  <2>2. UNCHANGED <<stage, work, ending, sources, policy, found, installed, transaction, before, evidence>>
    BY <1>1 DEF vars
  <2>3. UNCHANGED chrootVars
    BY <1>1 DEF vars
  <2>4. TypeOK'
    BY <2>1, <2>2, PartsLater DEF Inductive, TypeOK
  <2>5. StepsKnown'
    BY <2>2, <2>3 DEF Inductive, StepsKnown, chrootVars
  <2>6. WorkKnown'
    BY <2>2, WorkUnchanged DEF Inductive, given, apt, locals
  <2>7. NothingRemovedWithoutPolicy' /\ ConstructionUndone'
    BY <2>2, <2>3 DEF Inductive, NothingRemovedWithoutPolicy, ConstructionUndone, Names, chrootVars
  <2>8. QED BY <2>1, <2>4, <2>5, <2>6, <2>7 DEF Inductive, ContextKnown
<1>2. CASE Next
  <2>1. ContextKnown /\ SourcesTyped /\ PackagesTyped /\ MountsTyped
    BY ContextOf DEF Inductive, TypeOK, SourcesTyped, PackagesTyped, ContextKnown
  <2>2. ContextKnown' /\ SourcesTyped' /\ PackagesTyped'
    BY <1>2, <2>1, ContextStep, SourcesTypeStep, PackagesTypeStep
  <2>3. ChrootTypeOK'
    BY <2>2, PartsLater
  <2>4. TypeOK'
    BY <2>2, <2>3 DEF TypeOK, SourcesTyped, PackagesTyped
  <2>5. StepsOfWork'
    BY <1>2, <2>1, StepsStep DEF Inductive
  <2>6. StepsKnown'
    BY <2>2, <2>5, PartsLater DEF ContextKnown
  <2>7. WorkKnown'
    BY <1>2, <2>1, WorkStep DEF Inductive
  <2>8. NothingRemovedWithoutPolicy'
    BY <1>2, <2>1, RemovedStep DEF Inductive
  <2>9. ConstructionUndone'
    BY <1>2, UndoneStep
  <2>10. QED BY <2>2, <2>4, <2>6, <2>7, <2>8, <2>9 DEF Inductive, ContextKnown
<1>3. QED BY <1>1, <1>2

\* The invariant that the others rest on holds of every construction: the files
\* of the tree and what is mounted follow from what the context remembers, and
\* each control point tells how far the work has come (base/chroot.py:90-279,
\* base/packages.py:611-880).
THEOREM ConstructionInvariant == Spec => []Inductive
<1>1. Init => Inductive
  BY InductiveInit
<1>2. Inductive /\ [Next]_vars => Inductive'
  BY InductiveStep
<1>3. QED BY <1>1, <1>2, PTL DEF Spec

\* Each variable keeps its type.
THEOREM ConstructionTyped == Spec => []TypeOK
<1>1. Inductive => TypeOK
  BY DEF Inductive
<1>2. QED BY <1>1, ConstructionInvariant, PTL

\* Closing leaves exactly the files that were found (base/chroot.py:239-279).
THEOREM TreeRestored == Spec => []FilesRestored
<1>1. Inductive => FilesRestored
  BY ContextOf, ClosedFiles DEF FilesRestored
<1>2. QED BY <1>1, ConstructionInvariant, PTL

\* Closing undoes every mount, unless an umount fails (base/chroot.py:241-253).
THEOREM ClosingUnmounts == Spec => []MountsUndone
<1>1. Inductive => MountsUndone
  BY ContextOf, ClosedMounts DEF MountsUndone
<1>2. QED BY <1>1, ConstructionInvariant, PTL

\* No file of the tree is lost, also when SIGINT leaves the context half
\* entered or half closed (base/chroot.py:90-122).
THEOREM TreeNeverLost == Spec => []NothingLost
<1>1. ASSUME Inductive PROVE NothingLost
  <2>1. FilesTyped /\ FilesAccounted
    BY <1>1, ContextOf DEF ContextKnown
  <2>2. CASE resolved = "unset"
    BY <2>1, <2>2 DEF FilesAccounted, NothingLost
  <2>3. CASE resolved = "file"
    BY <2>1, <2>3 DEF FilesAccounted, NothingLost
  <2>4. CASE resolved \in {"symlink", "missing"}
    BY <2>1, <2>4 DEF FilesAccounted, NothingLost
  <2>5. QED BY <2>1, <2>2, <2>3, <2>4 DEF FilesTyped
<1>2. QED BY <1>1, ConstructionInvariant, PTL

\* A base that gets published consists of what its lock and receipt record
\* (base/packages.py:660-880, base/validation.py:69-115).
THEOREM PublishedAsRecorded == Spec => []BuiltAsRecorded
<1>1. ASSUME Inductive, stage = "built"
      PROVE  /\ \A k \in Names(transaction.install) : installed[k] = transaction.install[k]
             /\ \A k \in Packages \ Names(transaction.install) :
                  installed[k] = found[k] \/ k \in evidence
             /\ Names(found) \ Names(installed) = evidence
             /\ evidence \subseteq IF policy = None THEN {} ELSE policy
  <2>1. work = "over" /\ ~ending
    BY <1>1 DEF Inductive, StepsKnown
  <2>2. /\ RemovalAllowed(transaction) /\ Outcome(transaction)
        /\ evidence = transaction.remove /\ Names(found) \ Names(installed) = evidence
        /\ \A k \in Names(transaction.install) : installed[k] = transaction.install[k]
    BY <1>1, <2>1 DEF Inductive, WorkKnown
  <2>3. \A k \in Packages \ Names(transaction.install) :
          installed[k] = found[k] \/ k \in evidence
    BY <2>2 DEF Outcome, Names
  <2>4. evidence \subseteq IF policy = None THEN {} ELSE policy
    BY <2>2 DEF RemovalAllowed
  <2>5. QED BY <2>2, <2>3, <2>4
<1>2. Inductive => BuiltAsRecorded
  BY <1>1 DEF BuiltAsRecorded
<1>3. QED BY <1>2, ConstructionInvariant, PTL

\* Without a policy no package is ever removed, not even by an installation
\* that fails (base/packages.py:342-357, 836-849).
THEOREM NoPolicyNoRemoval == Spec => []NothingRemovedWithoutPolicy
<1>1. Inductive => NothingRemovedWithoutPolicy
  BY DEF Inductive
<1>2. QED BY <1>1, ConstructionInvariant, PTL

\* A published base has no trace of its construction; one that failed leaves the
\* canonical list and neither the construction's nor the backup, unless it refused
\* what it found, or SIGINT or a failing removal broke off the rewriting of the
\* sources (base/packages.py:603-700).
THEOREM NoTraceLeft == Spec => []ConstructionUndone
<1>1. Inductive => ConstructionUndone
  BY DEF Inductive
<1>2. QED BY <1>1, ConstructionInvariant, PTL

=============================================================================
