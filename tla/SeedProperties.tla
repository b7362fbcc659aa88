---------------------------- MODULE SeedProperties ----------------------------
(***************************************************************************)
(* What is claimed of MaterializationSeed.                                 *)
(***************************************************************************)
EXTENDS MaterializationSeed

-----------------------------------------------------------------------------
(* Safety.                                                                 *)

\* Whatever was killed or failed on the way, two files that pass for a seed
\* are one: the metadata records the archive that is there, and the archive is
\* complete.  Only two creations at a time can spoil this
\* (materialization_seed.py:198-237).
SeedTrue ==
  ~overlapped /\ Complete /\ metadata # "broken"
    => archive = "whole" /\ metadata = "whole"

\* A workspace is unpacked from the complete archive, although the archive is
\* read again after it was verified (materialization_extract.py:337-356).
UnpackedWhole == ~overlapped => given \subseteq {"whole"}

-----------------------------------------------------------------------------
(* The inductive invariant.                                                *)

\* A creation on its own: its archive is whole as soon as its tar has ended,
\* and is the one whose checksum it records.
Alone ==
  ~overlapped =>
    /\ \A p \in Procs :
         /\ At(p, "tarring") => archive \in Versions /\ last = p /\ metadata = None
         /\ At(p, "hash") => archive = "whole"
         /\ pc[p] \in {"json", "json_open"} => archive = "whole" /\ hash[p] = "whole"
         /\ At(p, "verify") => metadata # None
         /\ At(p, "unpack") => archive = "whole" /\ metadata = "whole"
    /\ metadata = "whole" => archive = "whole"
    /\ metadata \notin Versions
    /\ archive = None => metadata = None

Inductive == TypeOK /\ Alone /\ SeedTrue /\ UnpackedWhole

=============================================================================
