--------------------------- MODULE BaseInstallation ---------------------------
(***************************************************************************)
(* The installation of the packages of a target into the root file system  *)
(* of a base under construction.                                           *)
(*                                                                         *)
(*   base/packages.py      apt sources, resolution, lock, installation     *)
(*   base/validation.py    the state of the packages afterwards            *)
(*   base/chroot.py        the context of all that: ConstructionChroot     *)
(*   base/construction.py  the order of the steps                          *)
(*                                                                         *)
(* apt and the packages' own scripts are not the program's: a simulation   *)
(* may come out in any way, and so may the installation, as far as apt's   *)
(* option --no-remove allows.                                              *)
(***************************************************************************)
EXTENDS ConstructionChroot

CONSTANTS
  Packages,  \* names of packages
  Versions,  \* versions of packages
  None       \* "not there"

ASSUME AbsenceIsNew == None \notin Versions

VARIABLES
  stage,      \* control point of ensure_jp6_base
  work,       \* control point inside the chroot
  ending,     \* an exception, or a reused base, is on its way out
  sources,    \* the apt sources of the tree
  policy,     \* the packages whose removal is allowed, if there is a policy
  found,      \* the packages installed before
  installed,  \* the packages installed now
  transaction,  \* ConstructionPackageSet: what is installed and removed
  before,     \* _installed_package_names before the installation
  evidence    \* PackageTransactionEvidence: the packages removed

locals == <<transaction, before, evidence>>
apt == <<installed, locals>>
given == <<policy, found>>
vars == <<chrootVars, stage, work, ending, sources, policy, found, installed,
          transaction, before, evidence>>

-----------------------------------------------------------------------------
(* Types.                                                                  *)

\* "torn"      the rewriting of the apt sources was broken off
Stages == {"open", "chroot", "built", "ended", "torn"}

WorkSteps ==
  {"resolve", "download", "lock", "again", "verify", "install", "removals",
   "validate", "clean", "over"}

\* nvidia-l4t-apt-source.list: the file of the tree, which names NVIDIA's
\* repositories with placeholders, or the one made from the catalog.
Official == {"none", "tree", "symlink", "canonical"}

\* The backup of the former, the list used meanwhile, and what any other list
\* of the tree names.
Sources == [official : Official, disabled : BOOLEAN, construction : BOOLEAN,
            other : {"clean", "nvidia"}]

Status == [Packages -> Versions \cup {None}]
Names(status) == {k \in Packages : status[k] # None}

Transactions == [install : Status, remove : SUBSET Packages]

TypeOK ==
  /\ ChrootTypeOK
  /\ stage \in Stages
  /\ work \in WorkSteps
  /\ ending \in BOOLEAN
  /\ sources \in Sources
  /\ policy \in (SUBSET Packages) \cup {None}
  /\ found \in Status /\ installed \in Status
  /\ transaction \in Transactions \cup {None}
  /\ before \subseteq Packages
  /\ evidence \in (SUBSET Packages) \cup {None}

\* The root file system has just been unpacked.
Init ==
  /\ ChrootInit
  /\ stage = "open"
  /\ work = "resolve"
  /\ ending = FALSE
  /\ sources \in Sources
  /\ sources.official # "canonical"
  /\ policy \in (SUBSET Packages) \cup {None}
  /\ found \in Status
  /\ installed = found
  /\ transaction = None
  /\ before = {}
  /\ evidence = None

-----------------------------------------------------------------------------
(* NvidiaConstructionSources.                                              *)

\* How far __enter__ may have come when it ends early: the tree's list is put
\* aside, the entries of other lists are filtered, and the list for the
\* construction is written.  A symbolic link is refused at once.
Begun ==
  LET aside == [sources EXCEPT !.official = "none",
                               !.disabled = sources.official = "tree"]
      clean == [aside EXCEPT !.other = "clean"]
  IN  {sources} \cup
        IF sources.official = "symlink" THEN {}
        ELSE {aside, clean, [clean EXCEPT !.construction = TRUE]}

\* Mutant: the backup is not removed.
CanonicalKeepsBackup(s) ==
  [s EXCEPT !.official = "canonical", !.construction = FALSE]

Canonical(s) == [s EXCEPT !.official = "canonical", !.disabled = FALSE,
                          !.construction = FALSE]

\* How far _canonicalize_final_sources may have come when it is broken off: the
\* two lists are removed one after the other, then a symbolic link is, and the
\* canonical list is written at once.
Broken(s) ==
  LET removed == [s EXCEPT !.construction = FALSE, !.disabled = FALSE]
  IN  {s, [s EXCEPT !.construction = FALSE], removed, Canonical(s)}
        \cup {[removed EXCEPT !.official = "none"] : x \in {"symlink"} \cap {s.official}}

\* A removal or the write fails, or SIGINT arrives.
BreaksOff == Enabled \cap {"fault", "interrupt"} # {}

\* A list of that name, or a backup, that is there already is refused.
SourcesRefuse ==
  /\ stage = "open"
  /\ sources.construction \/ sources.disabled
  /\ stage' = "ended"
  /\ UNCHANGED <<chrootVars, work, ending, sources, given, apt>>

\* The tree's list is put aside, the entries of other lists are filtered, and
\* the catalog's repositories are the only ones of NVIDIA.
SourcesEnter ==
  /\ stage = "open"
  /\ ~sources.construction /\ ~sources.disabled
  /\ sources.official # "symlink"
  /\ sources' = [official |-> "none", disabled |-> sources.official = "tree",
                 construction |-> TRUE, other |-> "clean"]
  /\ stage' = "chroot"
  /\ UNCHANGED <<chrootVars, work, ending, given, apt>>

\* A symbolic link is refused, or a write fails: the canonical list is written
\* on the way out.
SourcesFail ==
  /\ stage = "open"
  /\ ~sources.construction /\ ~sources.disabled
  /\ sources.official = "symlink" \/ "fault" \in Enabled
  /\ \E s \in Begun :
       \/ stage' = "ended" /\ sources' = Canonical(s)
       \/ stage' = "torn" /\ BreaksOff /\ sources' \in Broken(s)
  /\ UNCHANGED <<chrootVars, work, ending, given, apt>>

\* KeyboardInterrupt is no Exception, and __exit__ is not called when __enter__
\* did not return: nothing is undone.
SourcesInterrupted ==
  /\ "interrupt" \in Enabled
  /\ stage = "open"
  /\ ~sources.construction /\ ~sources.disabled
  /\ stage' = "torn"
  /\ sources' \in Begun
  /\ UNCHANGED <<chrootVars, work, ending, given, apt>>

\* __exit__ writes the canonical list too, however the work inside ended, and
\* another list with NVIDIA's repositories is an error.  The exception that is
\* on its way, or an umount that failed, ends the construction.
SourcesLeave ==
  /\ stage = "chroot" /\ step \in {"closed", "left"}
  /\ \/ /\ stage' = "built"
        /\ ~ending /\ ~mishap /\ sources.other = "clean"
        /\ sources' = Canonical(sources)
     \/ /\ stage' = "ended"
        /\ ending \/ mishap \/ sources.other = "nvidia" \/ "fault" \in Enabled
        /\ sources' = Canonical(sources)
     \/ stage' = "torn" /\ BreaksOff /\ sources' \in Broken(sources)
  /\ UNCHANGED <<chrootVars, work, ending, given, apt>>

-----------------------------------------------------------------------------
(* The context.                                                            *)

\* A refusal or failure while entering is an exception.
ChrootEnter ==
  /\ stage = "chroot"
  /\ Enter
  /\ ending' = (step' = "umount")
  /\ UNCHANGED <<stage, work, sources, given, apt>>

ChrootLeave ==
  /\ stage = "chroot"
  /\ \/ Exit /\ work = "over"
     \/ Close
  /\ UNCHANGED <<stage, work, ending, sources, given, apt>>

ChrootInterrupted ==
  /\ stage = "chroot"
  /\ Interrupted
  /\ UNCHANGED <<stage, work, ending, sources, given, apt>>

-----------------------------------------------------------------------------
(* Inside: the packages.                                                   *)

Inside(w) == stage = "chroot" /\ step = "inside" /\ work = w
Then(w) == work' = w /\ UNCHANGED ending

\* An exception takes the local variables with it.
Raise ==
  /\ work' = "over" /\ ending' = TRUE
  /\ transaction' = None /\ before' = {} /\ evidence' = None

KeepContext == UNCHANGED <<chrootVars, stage, sources, given>>

\* What a simulation of apt may report.
Simulated ==
  {t \in Transactions :
     /\ t.remove \subseteq Names(installed) \ Names(t.install)
     /\ \A k \in Packages : t.install[k] # None => t.install[k] # installed[k]}

\* Mutant: without a policy, a removal is taken for allowed.
RemovalAllowedAlways(t) == t.remove \subseteq IF policy = None THEN Packages ELSE policy

\* _validate_removal_report.
RemovalAllowed(t) == t.remove = {} \/ (policy # None /\ t.remove \subseteq policy)

\* apt-get update, and the first simulation.
Resolve ==
  /\ Inside("resolve")
  /\ \E t \in Simulated :
       /\ Names(t.install) # {}
       /\ RemovalAllowed(t)
       /\ transaction' = t
  /\ Then("download")
  /\ KeepContext /\ UNCHANGED <<installed, before, evidence>>

Download ==
  /\ Inside("download")
  /\ Then("lock")
  /\ KeepContext /\ UNCHANGED apt

\* There is one archive of each package, and it is read for the lock.
LockArchives ==
  /\ Inside("lock")
  /\ Then("again")
  /\ KeepContext /\ UNCHANGED apt

\* ensure_jp6_base finds an equal base, and returns it from inside.
Reuse ==
  /\ Inside("again")
  /\ Raise
  /\ KeepContext /\ UNCHANGED installed

\* The simulation right before the installation is as locked.
SimulateAgain ==
  /\ Inside("again")
  /\ \E t \in Simulated : RemovalAllowed(t) /\ t = transaction
  /\ Then("verify")
  /\ KeepContext /\ UNCHANGED apt

\* The archives are as locked, and the installed packages are listed.
VerifyArchives ==
  /\ Inside("verify")
  /\ before' = Names(installed)
  /\ Then("install")
  /\ KeepContext /\ UNCHANGED <<installed, transaction, evidence>>

\* --no-remove is given when the lock removes nothing.
NoRemove == transaction.remove = {}

\* What apt may make of the installed packages: it takes the locked versions or
\* leaves, in the end or when it breaks off, what was there before.
Outcomes ==
  {s \in Status :
     \A k \in Packages :
       \/ s[k] = installed[k]
       \/ s[k] = transaction.install[k] /\ s[k] # None
       \/ s[k] = None /\ ~NoRemove}

\* The packages' scripts may replace resolv.conf, and packages bring lists of
\* their own.
ScriptsWrite ==
  /\ \E r \in {files["resolv"], "symlink"} :
       files' = [files EXCEPT !["resolv"] = r]
  /\ \E f \in {sources.official, "tree"}, o \in {"clean", "nvidia"} :
       sources' = [sources EXCEPT !.official = f, !.other = o]
  /\ UNCHANGED <<original, mounts, mounted, created, resolved, mishap, step>>

Install ==
  /\ Inside("install")
  /\ installed' \in Outcomes
  /\ ScriptsWrite
  /\ \/ Then("removals") /\ UNCHANGED locals
     \/ "fault" \in Enabled /\ Raise
  /\ UNCHANGED <<stage, given>>

\* Mutant: packages that are gone beyond the lock are not looked for.
CheckRemovalsMissing ==
  /\ Inside("removals")
  /\ transaction.remove \subseteq before \ Names(installed)
  /\ Names(transaction.install) \subseteq Names(installed)
  /\ evidence' = transaction.remove
  /\ Then("validate")
  /\ KeepContext /\ UNCHANGED <<installed, transaction, before>>

\* _validate_actual_removals, and every locked name is installed.
CheckRemovals ==
  /\ Inside("removals")
  /\ before \ Names(installed) = transaction.remove
  /\ Names(transaction.install) \subseteq Names(installed)
  /\ evidence' = before \ Names(installed)
  /\ Then("validate")
  /\ KeepContext /\ UNCHANGED <<installed, transaction, before>>

\* validate_runtime_state: the locked versions are installed.
Validate ==
  /\ Inside("validate")
  /\ \A k \in Names(transaction.install) : installed[k] = transaction.install[k]
  /\ Then("clean")
  /\ KeepContext /\ UNCHANGED apt

Clean ==
  /\ Inside("clean")
  /\ Then("over")
  /\ KeepContext /\ UNCHANGED apt

\* A check refuses, a command fails, or SIGINT arrives.
InsideRaises ==
  /\ stage = "chroot" /\ step = "inside" /\ work # "over"
  /\ Raise
  /\ KeepContext /\ UNCHANGED installed

-----------------------------------------------------------------------------
Next ==
  \/ SourcesRefuse \/ SourcesEnter \/ SourcesFail \/ SourcesInterrupted \/ SourcesLeave
  \/ ChrootEnter \/ ChrootLeave \/ ChrootInterrupted
  \/ Resolve \/ Download \/ LockArchives \/ Reuse \/ SimulateAgain \/ VerifyArchives
  \/ Install \/ CheckRemovals \/ Validate \/ Clean \/ InsideRaises

Spec == Init /\ [][Next]_vars

=============================================================================
