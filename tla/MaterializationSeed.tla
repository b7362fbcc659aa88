------------------------- MODULE MaterializationSeed -------------------------
(***************************************************************************)
(* The seed of one base: targets/<digest>/materialization/seed.tar and     *)
(* seed.json, written by the first workspace creation and read by all.     *)
(*                                                                         *)
(*   cli.py                         reuse the seed, or have it created     *)
(*   materialization_seed.py        create it, in a root child             *)
(*   materialization_extract.py     verify and unpack it                   *)
(*                                                                         *)
(* No lock is held while a seed is looked for and created.  GNU tar writes *)
(* the archive under its final name; the metadata follows when it is done. *)
(***************************************************************************)
CONSTANTS
  Procs,     \* workspace creations that can be running at the same time
  Versions,  \* bound: contents that an archive has while it is written
  Enabled,   \* the commands, and the kinds of failure, of this instance
  None       \* "not there"

ASSUME AbsenceIsNew == None \notin Procs \cup Versions \cup {"whole", "broken"}
ASSUME VersionsIncomplete == Versions \cap {"whole", "broken"} = {}

VARIABLES
  archive,     \* content of seed.tar
  metadata,    \* content of seed.json: the archive whose checksum it records
  writing,     \* creations whose tar has the present seed.tar open
  last,        \* the one of them that truncated it last
  given,       \* history: what workspaces were unpacked from
  overlapped,  \* history: two creations wrote the archive at a time
  pc, hash     \* control point and local variable of each process

seed == <<archive, metadata>>
tar == <<writing, last>>
history == <<given, overlapped>>
vars == <<archive, metadata, writing, last, given, overlapped, pc, hash>>

-----------------------------------------------------------------------------
(* Types.                                                                  *)

\* The base is immutable: every complete archive of it has the same content.
Contents == Versions \cup {"whole"}

\* Steps of the root child.
ChildSteps == {"check", "tar", "tarring", "hash", "json", "json_open"}

Steps == ChildSteps \cup {"idle", "recheck", "verify", "unpack"}

TypeOK ==
  /\ archive \in Contents \cup {None}
  /\ metadata \in Contents \cup {"broken", None}
  /\ writing \subseteq Procs
  /\ last \in Procs \cup {None}
  /\ given \subseteq Contents
  /\ overlapped \in BOOLEAN
  /\ pc \in [Procs -> Steps]
  /\ hash \in [Procs -> Contents \cup {None}]

Init ==
  /\ archive = None
  /\ metadata = None
  /\ writing = {}
  /\ last = None
  /\ given = {}
  /\ overlapped = FALSE
  /\ pc = [p \in Procs |-> "idle"]
  /\ hash = [p \in Procs |-> None]

-----------------------------------------------------------------------------
At(p, step) == pc[p] = step
Goto(p, step) == pc' = [pc EXCEPT ![p] = step]
Forget(p) == hash' = [hash EXCEPT ![p] = None]
Return(p) == Goto(p, "idle") /\ Forget(p)

\* _materialization_seed_is_complete; one file without the other is refused.
Complete == archive # None /\ metadata # None
Missing == archive = None /\ metadata = None

-----------------------------------------------------------------------------
(* ostg workspace create: is there a seed?                                 *)

LookComplete(p) ==
  /\ At(p, "idle")
  /\ Complete
  /\ Goto(p, "recheck")
  /\ UNCHANGED <<seed, tar, history, hash>>

LookMissing(p) ==
  /\ At(p, "idle")
  /\ Missing
  /\ Goto(p, "check")
  /\ UNCHANGED <<seed, tar, history, hash>>

-----------------------------------------------------------------------------
(* create_materialization_seed.                                            *)

SeedCheck(p) ==
  /\ At(p, "check")
  /\ IF Missing THEN Goto(p, "tar") ELSE Goto(p, "idle")
  /\ UNCHANGED <<seed, tar, history, hash>>

\* tar truncates what is there by now.
TarOpens(p) ==
  /\ At(p, "tar")
  /\ archive' \in Versions
  /\ writing' = writing \cup {p}
  /\ last' = p
  /\ overlapped' = (overlapped \/ archive # None)
  /\ Goto(p, "tarring")
  /\ UNCHANGED <<metadata, given, hash>>

TarWrites(p) ==
  /\ At(p, "tarring") /\ p \in writing
  /\ archive \in Versions
  /\ archive' \in Versions \ {archive}
  /\ UNCHANGED <<metadata, tar, history, pc, hash>>

\* The one that truncated the file last has then written all of it, and what
\* others still write is the same.
TarEnds(p) ==
  /\ At(p, "tarring")
  /\ archive' = IF last = p THEN "whole" ELSE archive
  /\ writing' = writing \ {p}
  /\ Goto(p, "hash")
  /\ UNCHANGED <<metadata, last, history, hash>>

\* Mutant: a half archive is left where it is.
TarFailsKeeps(p) ==
  /\ "fault" \in Enabled
  /\ At(p, "tarring")
  /\ writing' = {}
  /\ last' = None
  /\ Goto(p, "hash")
  /\ UNCHANGED <<seed, history, hash>>

\* The archive is unlinked; another tar goes on writing to the unlinked file.
TarFails(p) ==
  /\ "fault" \in Enabled
  /\ At(p, "tarring")
  /\ archive' = None
  /\ writing' = {}
  /\ last' = None
  /\ Return(p)
  /\ UNCHANGED <<metadata, history>>

Hash(p) ==
  /\ At(p, "hash")
  /\ archive # None
  /\ hash' = [hash EXCEPT ![p] = archive]
  /\ Goto(p, "json")
  /\ UNCHANGED <<seed, tar, history>>

\* The file is created exclusively, and empty at first.
JsonOpens(p) ==
  /\ At(p, "json")
  /\ metadata = None
  /\ metadata' = "broken"
  /\ Goto(p, "json_open")
  /\ UNCHANGED <<archive, tar, history, hash>>

JsonEnds(p) ==
  /\ At(p, "json_open")
  /\ metadata' = hash[p]
  /\ Goto(p, "recheck")
  /\ Forget(p)
  /\ UNCHANGED <<archive, tar, history>>

\* The archive was unlinked, the metadata is there, or writing it fails.
ChildFails(p) ==
  /\ \/ At(p, "hash") /\ archive = None
     \/ At(p, "json") /\ metadata # None
     \/ At(p, "json_open") /\ "fault" \in Enabled
  /\ Return(p)
  /\ UNCHANGED <<seed, tar, history>>

-----------------------------------------------------------------------------
(* Back in the command: the seed is looked at again, verified, unpacked.   *)

Recheck(p) ==
  /\ At(p, "recheck")
  /\ IF Complete /\ metadata # "broken" THEN Goto(p, "verify") ELSE Goto(p, "idle")
  /\ UNCHANGED <<seed, tar, history, hash>>

Verify(p) ==
  /\ At(p, "verify")
  /\ IF archive = metadata THEN Goto(p, "unpack") ELSE Goto(p, "idle")
  /\ UNCHANGED <<seed, tar, history, hash>>

\* An archive cut off between two members unpacks without an error.
Unpack(p) ==
  /\ At(p, "unpack")
  /\ archive # None
  /\ given' = given \cup {archive}
  /\ Return(p)
  /\ UNCHANGED <<seed, tar, overlapped>>

UnpackFails(p) ==
  /\ At(p, "unpack")
  /\ archive # "whole" \/ "fault" \in Enabled
  /\ Return(p)
  /\ UNCHANGED <<seed, tar, history>>

-----------------------------------------------------------------------------
Kill(p) ==
  /\ "kill" \in Enabled
  /\ pc[p] # "idle"
  /\ writing' = writing \ {p}
  /\ last' = IF last = p THEN None ELSE last
  /\ Return(p)
  /\ UNCHANGED <<seed, history>>

\* The base is deleted and built again, with nobody at its seed.
Rebuild ==
  /\ "rebuild" \in Enabled
  /\ \A p \in Procs : At(p, "idle")
  /\ archive' = None
  /\ metadata' = None
  /\ last' = None
  /\ UNCHANGED <<writing, history, pc, hash>>

Step(p) ==
  \/ LookComplete(p) \/ LookMissing(p)
  \/ SeedCheck(p) \/ TarOpens(p) \/ TarWrites(p) \/ TarEnds(p) \/ TarFails(p)
  \/ Hash(p) \/ JsonOpens(p) \/ JsonEnds(p) \/ ChildFails(p)
  \/ Recheck(p) \/ Verify(p) \/ Unpack(p) \/ UnpackFails(p)
  \/ Kill(p)

Next == (\E p \in Procs : Step(p)) \/ Rebuild

Spec == Init /\ [][Next]_vars

=============================================================================
