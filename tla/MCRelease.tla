------------------------------- MODULE MCRelease -------------------------------
(* An instance of ReleaseEnsure for TLC. *)
EXTENDS ReleaseProperties

\* Bounds of what is there to begin with: up to two receipts and up to one base,
\* which differ from the official content in at most one kind.
Content == {[k \in Kinds |-> IF k = j THEN h ELSE Official] : h \in Hashes, j \in Kinds}

MCReceipts == [release : Owners, role : Owners, target : Targets, hash : Content, valid : {TRUE}]

MCBases ==
  {[name |-> 1, release |-> "mine", recipe |-> "mine", hash |-> c] : c \in Content}
    \cup {[name |-> 1, release |-> o, recipe |-> q, hash |-> [k \in Kinds |-> Official]] :
            o \in Owners, q \in Owners}

Said(n, h, s) == [is |-> "said", name |-> n, sha256 |-> h, size |-> s]

\* What the manifest says, the same of every kind, or less of one kind.
Say == {Unsaid("absent"), Unsaid("unknown"), Said("other", Official, "right")}
  \cup {Said("same", h, s) : h \in Hashes \cup {None}, s \in {"wrong", "none"}}

Less == {Unsaid("absent"), Unsaid("unknown"), Said("same", None, "none")}

Weak == CHOOSE k \in Kinds : TRUE

MCManifests ==
  {[known |-> TRUE, release |-> "mine", target |-> t,
    artifacts |-> [k \in Kinds |-> e]] : t \in Targets, e \in Say}
  \cup
  {[known |-> TRUE, release |-> "mine", target |-> Required,
    artifacts |-> [k \in Kinds |-> IF k = Weak THEN d ELSE Said("same", h, "none")]] :
      h \in Hashes, d \in Less}
  \cup {NotUnderstood,
        [NotUnderstood EXCEPT !.known = TRUE,
                              !.artifacts = [k \in Kinds |-> Said("same", Official, "right")]]}

MCInit ==
  /\ receipts \in {{r, q} : r \in MCReceipts, q \in {x \in MCReceipts : x.release = "mine"}} \cup {{}}
  /\ bases \in {{b} : b \in MCBases} \cup {{}}
  /\ manifest \in MCManifests \cup {None}
  /\ phase = "idle" /\ plan = None /\ receipt = None
  /\ disturbed = FALSE /\ settled = FALSE

MCSpec == MCInit /\ [][Next]_vars

=============================================================================
