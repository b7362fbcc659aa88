-------------------------- MODULE ConstructionChroot --------------------------
(***************************************************************************)
(* The context in which packages are installed into a base under           *)
(* construction: what Arm64ConstructionChroot puts into the root file      *)
(* system and mounts over it, and how it takes that away again             *)
(* (base/chroot.py).                                                       *)
(***************************************************************************)
EXTENDS Naturals, Sequences

CONSTANT Enabled  \* the kinds of failure of this instance

VARIABLES
  original,  \* the files as the context found them
  files,     \* the files now
  mounts,    \* the file systems mounted now
  mounted,   \* _mounted: those the context knows of, in order
  created,   \* _qemu_created, _policy_rcd_created, _l4t_preinstall_marker_created
  resolved,  \* _resolv_state
  mishap,    \* history: an umount failed, or SIGINT arrived between
  step       \* control point

chrootVars == <<original, files, mounts, mounted, created, resolved, mishap, step>>

-----------------------------------------------------------------------------
\* The files that the context adds and removes again.
Added == {"qemu", "policy", "marker"}

Paths == Added \cup {"resolv", "backup"}

\* "ours" is a file of the context; the rest belongs to the tree.
Kinds == {"none", "file", "symlink", "ours"}

\* In the order in which they are mounted.
Mounts == <<"proc", "sys", "dev", "pts">>
MountSet == {Mounts[i] : i \in 1..Len(Mounts)}

EnterSteps == {"qemu", "policy", "marker", "resolv", "copy", "mount"}
CloseSteps == {"umount", "remove", "restore"}
ChrootSteps == EnterSteps \cup CloseSteps \cup {"inside", "closed", "left"}

ChrootTypeOK ==
  /\ original \in [Paths -> Kinds \ {"ours"}]
  /\ files \in [Paths -> Kinds]
  /\ mounts \subseteq MountSet
  /\ \E n \in 0..Len(Mounts) : mounted = SubSeq(Mounts, 1, n)
  /\ created \subseteq Added
  /\ resolved \in {"unset", "symlink", "file", "missing"}
  /\ mishap \in BOOLEAN
  /\ step \in ChrootSteps

\* A tree may have any of the files already; a symlink is told from a file only
\* for resolv.conf.
ChrootInit ==
  /\ original \in [Paths -> {"none", "file", "symlink"}]
  /\ \A path \in Paths \ {"resolv"} : original[path] # "symlink"
  /\ files = original
  /\ mounts = {}
  /\ mounted = <<>>
  /\ created = {}
  /\ resolved = "unset"
  /\ mishap = FALSE
  /\ step = "qemu"

Write(path) == files' = [files EXCEPT ![path] = "ours"]
Tree == <<original, files>>
Mounting == <<mounts, mounted>>

-----------------------------------------------------------------------------
(* __enter__.  Any exception goes on with close().                         *)

\* A file of that name in the tree is refused.
Add(path, next) ==
  /\ step = path
  /\ IF files[path] = "none"
       THEN Write(path) /\ created' = created \cup {path} /\ step' = next
       ELSE UNCHANGED <<files, created>> /\ step' = "umount"
  /\ UNCHANGED <<original, Mounting, resolved, mishap>>

PrepareQemu == Add("qemu", "policy")
PreparePolicy == Add("policy", "marker")
PrepareMarker == Add("marker", "resolv")

\* The marker is for those targets only that need it.
SkipMarker ==
  /\ step = "marker"
  /\ step' = "resolv"
  /\ UNCHANGED <<Tree, Mounting, created, resolved, mishap>>

\* What resolv.conf is gets remembered; a file is moved aside, unless there is
\* one in the way.
PrepareResolv ==
  /\ step = "resolv"
  /\ CASE files["resolv"] = "symlink" ->
            /\ resolved' = "symlink"
            /\ files' = [files EXCEPT !["resolv"] = "none"]
            /\ step' = "copy"
       [] files["resolv"] = "file" /\ files["backup"] = "none" ->
            /\ files' = [files EXCEPT !["backup"] = "file", !["resolv"] = "none"]
            /\ resolved' = "file"
            /\ step' = "copy"
       [] files["resolv"] = "file" /\ files["backup"] # "none" ->
            UNCHANGED <<files, resolved>> /\ step' = "umount"
       [] OTHER ->
            UNCHANGED files /\ resolved' = "missing" /\ step' = "copy"
  /\ UNCHANGED <<original, Mounting, created, mishap>>

CopyResolv ==
  /\ step = "copy"
  /\ Write("resolv")
  /\ step' = "mount"
  /\ UNCHANGED <<original, Mounting, created, resolved, mishap>>

Mount ==
  /\ step = "mount"
  /\ LET next == Mounts[Len(mounted) + 1]
     IN  mounts' = mounts \cup {next} /\ mounted' = Append(mounted, next)
  /\ step' = IF Len(mounted) + 1 = Len(Mounts) THEN "inside" ELSE "mount"
  /\ UNCHANGED <<Tree, created, resolved, mishap>>

\* An exception; a file may have been written in part before its copy failed,
\* and the marker's flag follows the file.
EnterFails ==
  /\ "fault" \in Enabled
  /\ step \in EnterSteps
  /\ \/ UNCHANGED <<files, created>>
     \/ /\ step \in {"qemu", "policy"} /\ files[step] = "none"
        /\ Write(step) /\ created' = created \cup {step}
     \/ step = "copy" /\ Write("resolv") /\ UNCHANGED created
  /\ step' = "umount"
  /\ UNCHANGED <<original, Mounting, resolved, mishap>>

\* KeyboardInterrupt is no Exception: nothing more is undone.
Interrupted ==
  /\ "interrupt" \in Enabled
  /\ step \in EnterSteps \cup CloseSteps
  /\ mishap' = TRUE
  /\ step' = "left"
  /\ UNCHANGED <<Tree, Mounting, created, resolved>>

-----------------------------------------------------------------------------
\* However the work inside ended, __exit__ calls close().
Exit ==
  /\ step = "inside"
  /\ step' = "umount"
  /\ UNCHANGED <<Tree, Mounting, created, resolved, mishap>>

-----------------------------------------------------------------------------
(* close.                                                                  *)

\* Mutant: in the order in which they were mounted.
NextUmountForward == 1
NextUmount == Len(mounted)

WithoutNext == SubSeq(mounted, 1, NextUmount - 1) \o SubSeq(mounted, NextUmount + 1, Len(mounted))

\* A mount point with another one below it is busy.
Busy(m) == m = "dev" /\ "pts" \in mounts

Umount ==
  /\ step = "umount" /\ mounted # <<>>
  /\ ~Busy(mounted[NextUmount])
  /\ mounts' = mounts \ {mounted[NextUmount]}
  /\ mounted' = WithoutNext
  /\ UNCHANGED <<Tree, created, resolved, mishap, step>>

\* An umount that fails is noted, and the next one is tried.
UmountFails ==
  /\ step = "umount" /\ mounted # <<>>
  /\ Busy(mounted[NextUmount]) \/ "busy" \in Enabled
  /\ mishap' = (mishap \/ ~Busy(mounted[NextUmount]))
  /\ mounted' = WithoutNext
  /\ UNCHANGED <<Tree, mounts, created, resolved, step>>

Umounted ==
  /\ step = "umount" /\ mounted = <<>>
  /\ step' = "remove"
  /\ UNCHANGED <<Tree, Mounting, created, resolved, mishap>>

\* Mutant: what is there is removed.
RemoveAll ==
  /\ step = "remove"
  /\ files' = [path \in Paths |-> IF path \in Added THEN "none" ELSE files[path]]
  /\ created' = {}
  /\ step' = "restore"
  /\ UNCHANGED <<original, Mounting, resolved, mishap>>

\* What the context has created is removed.
RemoveCreated ==
  /\ step = "remove"
  /\ files' = [path \in Paths |-> IF path \in created THEN "none" ELSE files[path]]
  /\ created' = {}
  /\ step' = "restore"
  /\ UNCHANGED <<original, Mounting, resolved, mishap>>

\* Mutant: resolv.conf is restored only when it was a file.
RestoreFile ==
  /\ step = "restore"
  /\ files' = IF resolved = "file"
                THEN [files EXCEPT !["resolv"] = files["backup"], !["backup"] = "none"]
                ELSE files
  /\ resolved' = "unset"
  /\ step' = "closed"
  /\ UNCHANGED <<original, Mounting, created, mishap>>

RestoreResolv ==
  /\ step = "restore"
  /\ files' = CASE resolved = "unset" -> files
                [] resolved = "symlink" -> [files EXCEPT !["resolv"] = "symlink"]
                [] resolved = "file" ->
                     [files EXCEPT !["resolv"] = files["backup"], !["backup"] = "none"]
                [] resolved = "missing" -> [files EXCEPT !["resolv"] = "none"]
  /\ resolved' = "unset"
  /\ step' = "closed"
  /\ UNCHANGED <<original, Mounting, created, mishap>>

Enter ==
  \/ PrepareQemu \/ PreparePolicy \/ PrepareMarker \/ SkipMarker
  \/ PrepareResolv \/ CopyResolv \/ Mount \/ EnterFails

Close == Umount \/ UmountFails \/ Umounted \/ RemoveCreated \/ RestoreResolv

=============================================================================
