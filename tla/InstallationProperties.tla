------------------------ MODULE InstallationProperties ------------------------
(***************************************************************************)
(* What is claimed of BaseInstallation.                                    *)
(***************************************************************************)
EXTENDS BaseInstallation

\* Wherever entering or the work inside failed, and whatever the packages'
\* scripts made of resolv.conf, closing leaves exactly the files that were
\* found: nothing of the context gets into a published base, and nothing of the
\* tree is lost (base/chroot.py:170-203, 239-279).
FilesRestored == step = "closed" => files = original

\* Closing undoes every mount, unless an umount fails (base/chroot.py:241-253).
MountsUndone == step = "closed" /\ ~mishap => mounts = {}

\* No file of the tree is lost at any moment, also when SIGINT leaves the
\* context half entered or half closed (base/chroot.py:90-122).
NothingLost ==
  /\ \A path \in Added : original[path] # "none" => files[path] = original[path]
  /\ original["backup"] = "file" => files["backup"] = "file"
  /\ original["resolv"] = "file" => "file" \in {files["resolv"], files["backup"]}
  /\ original["resolv"] = "symlink" => files["resolv"] = "symlink" \/ resolved = "symlink"

\* A base that gets published consists of what its lock and receipt record:
\* the locked versions, every other package as it was found, and gone are
\* exactly the packages recorded as removed, each by leave of the policy,
\* however apt and the scripts behaved (base/packages.py:660-880,
\* base/validation.py:69-115).
BuiltAsRecorded ==
  stage = "built" =>
    /\ \A k \in Names(transaction.install) : installed[k] = transaction.install[k]
    /\ \A k \in Packages \ Names(transaction.install) :
         installed[k] = found[k] \/ k \in evidence
    /\ Names(found) \ Names(installed) = evidence
    /\ evidence \subseteq IF policy = None THEN {} ELSE policy

\* Without a policy no package is ever removed from the tree, not even by an
\* installation that fails (base/packages.py:342-357, 836-849).
NothingRemovedWithoutPolicy ==
  policy = None => Names(found) \subseteq Names(installed)

\* A base that gets published has no trace of its construction and the
\* catalog's sources.  A construction that failed leaves the canonical list too,
\* and neither its source list nor the backup; or it has refused those that it
\* found, and touched nothing.  Of the sources left when SIGINT or a failing
\* removal breaks off their rewriting ("torn") nothing is claimed, but that no
\* base is published with them (base/packages.py:603-700).
ConstructionUndone ==
  /\ stage = "built" =>
       /\ mounts = {} /\ files = original
       /\ sources = [official |-> "canonical", disabled |-> FALSE,
                     construction |-> FALSE, other |-> "clean"]
  /\ stage = "ended" =>
       \/ sources.official = "canonical" /\ ~sources.disabled /\ ~sources.construction
       \/ /\ sources.disabled \/ sources.construction
          /\ mounts = {} /\ files = original /\ installed = found

-----------------------------------------------------------------------------
(* The inductive invariant.                                                *)

\* The files of the tree follow from what the context remembers of its own.
FilesAccounted ==
  /\ \A path \in Added :
       IF path \in created THEN original[path] = "none" /\ files[path] = "ours"
                           ELSE files[path] = original[path]
  /\ resolved = "unset" => files["resolv"] = original["resolv"]
  /\ resolved = "symlink" => original["resolv"] = "symlink"
  /\ resolved = "missing" => original["resolv"] = "none"
  /\ IF resolved = "file"
       THEN /\ original["resolv"] = "file" /\ original["backup"] = "none"
            /\ files["backup"] = "file"
       ELSE files["backup"] = original["backup"]

\* What is mounted follows from what the context knows of, until an umount
\* fails or SIGINT arrives.
MountsAccounted ==
  \E n \in 0..Len(Mounts) :
    /\ mounted = SubSeq(Mounts, 1, n)
    /\ ~mishap => mounts = {Mounts[i] : i \in 1..n}
    /\ step \in EnterSteps \ {"mount"} => n = 0
    /\ step = "mount" => n < Len(Mounts)
    /\ step \in {"remove", "restore", "closed"} => n = 0

\* What the control point tells of the context, and of the work inside it.
StepsKnown ==
  /\ step \in {"qemu", "policy", "marker", "resolv", "closed"} => resolved = "unset"
  /\ step \in {"copy", "mount", "inside"} => resolved # "unset"
  /\ step \in {"restore", "closed"} => created = {}
  /\ step = "left" => mishap
  /\ step \in EnterSteps => work = "resolve" /\ ~ending
  /\ step = "inside" => work = "over" \/ ~ending
  /\ step \in CloseSteps \cup {"closed"} => work = "over" \/ ending
  /\ stage = "open" => step = "qemu" /\ created = {} /\ mounts = {}
  /\ stage = "built" => step = "closed" /\ ~mishap /\ ~ending

\* What apt made of the packages found, with transaction t.
Outcome(t) ==
  \A k \in Packages :
    \/ installed[k] = found[k]
    \/ installed[k] = t.install[k] /\ installed[k] # None
    \/ installed[k] = None /\ t.remove # {}

\* How far the work inside has come, as long as no exception ended it.
WorkKnown ==
  /\ work \in {"resolve", "download", "lock", "again", "verify", "install"} =>
       installed = found
  /\ work # "resolve" /\ ~ending =>
       /\ transaction \in Transactions
       /\ RemovalAllowed(transaction)
  /\ work \in {"install", "removals", "validate", "clean"} \/ (work = "over" /\ ~ending) =>
       before = Names(found) /\ Outcome(transaction)
  /\ work \in {"validate", "clean"} \/ (work = "over" /\ ~ending) =>
       evidence = transaction.remove /\ Names(found) \ Names(installed) = evidence
  /\ work = "clean" \/ (work = "over" /\ ~ending) =>
       \A k \in Names(transaction.install) : installed[k] = transaction.install[k]

Inductive ==
  /\ TypeOK
  /\ FilesAccounted /\ MountsAccounted /\ StepsKnown
  /\ WorkKnown /\ NothingRemovedWithoutPolicy
  /\ ConstructionUndone

=============================================================================
