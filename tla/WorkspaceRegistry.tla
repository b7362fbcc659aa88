-------------------------- MODULE WorkspaceRegistry --------------------------
(***************************************************************************)
(* What Orin Stage promises about workspaces, without locks, staging,      *)
(* receipts or crashes: a registry of named revisions, each on its own     *)
(* tree, changed in single steps.                                          *)
(*   README.md "Lifecycle and safety model": publication is atomic, a      *)
(*   successful mutable session or reset advances the generation by one, a *)
(*   failed command changes bytes but commits nothing, a reset gives back  *)
(*   the tree of the same base.                                            *)
(***************************************************************************)
EXTENDS Naturals

CONSTANTS Ids, Names, Targets, None

VARIABLE registry

Workspace == [name : Names, target : Targets, gen : Nat, tree : {"pristine", "touched"}]

TypeOK == registry \in [Ids -> Workspace \cup {None}]

Init == registry = [i \in Ids |-> None]

Here(i) == registry[i] # None

\* A name is given to one workspace at a time.
Publish(i, n, t) ==
  /\ ~Here(i)
  /\ \A j \in Ids : Here(j) => registry[j].name # n
  /\ registry' = [registry EXCEPT ![i] =
       [name |-> n, target |-> t, gen |-> 0, tree |-> "pristine"]]

\* A target command writes to the tree; nothing is committed.
Touch(i) ==
  /\ Here(i)
  /\ registry' = [registry EXCEPT ![i].tree = "touched"]

\* A mutable session ended well.
Commit(i) ==
  /\ Here(i)
  /\ registry' = [registry EXCEPT ![i].gen = @ + 1]

\* The tree of the same base again, as the next generation of the same name.
Restore(i) ==
  /\ Here(i)
  /\ registry' = [registry EXCEPT ![i].gen = @ + 1, ![i].tree = "pristine"]

Drop(i) ==
  /\ Here(i)
  /\ registry' = [registry EXCEPT ![i] = None]

Next ==
  \E i \in Ids :
    \/ \E n \in Names, t \in Targets : Publish(i, n, t)
    \/ Touch(i) \/ Commit(i) \/ Restore(i) \/ Drop(i)

Spec == Init /\ [][Next]_registry

=============================================================================
