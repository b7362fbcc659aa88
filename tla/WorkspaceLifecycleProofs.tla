---------------------- MODULE WorkspaceLifecycleProofs ----------------------
(***************************************************************************)
(* Theorems about WorkspaceLifecycle for every number of processes, ids,   *)
(* names, targets, directories and operations, and every set of enabled    *)
(* commands and failures.  Each part of the invariant is shown to be kept  *)
(* by every step from a state in which the whole invariant holds.          *)
(***************************************************************************)
EXTENDS WorkspaceInvariant, TLAPS

USE DEF CreateSteps, ResetSteps, LifecycleSteps, WorkspaceSteps, Steps

-----------------------------------------------------------------------------
(* Types.                                                                  *)

Typed == TypeOK /\ ControlOK

\* What TypeOK says of the variables that are neither receipts nor control.
DataOK ==
  /\ lifecycle \in Procs \cup {None}
  /\ wsLock \in [Ids -> Procs \cup {None}]
  /\ wsDir \in [Ids -> Dirs \cup {None}]
  /\ staging \subseteq Dirs
  /\ meta \in [Dirs -> Metadata \cup {None}]
  /\ valid \subseteq Dirs
  /\ touched \subseteq Dirs
  /\ base \in [Targets -> {"ready", "partial", "absent"}]
  /\ deleters \subseteq Targets
  /\ orphans \subseteq Dirs
  /\ effect \subseteq OpIds

ReceiptsKept ==
  /\ receipts' \in [OpIds -> Receipt \cup {None}]
  /\ \A o \in OpIds : receipts[o] \in Receipt => receipts'[o] \in Receipt

\* A process moves to step s with local variables r, and no receipt goes away.
LEMMA Moves ==
  ASSUME Typed, NEW p \in Procs, NEW s \in Steps, NEW r \in Local,
         pc' = [pc EXCEPT ![p] = s], loc' = [loc EXCEPT ![p] = r],
         ReceiptsKept, Fits(s, r, receipts'), DataOK'
  PROVE  Typed'
<1>1. pc' \in [Procs -> Steps] /\ loc' \in [Procs -> Local]
  BY DEF Typed, ControlOK
<1>2. ASSUME NEW q \in Procs PROVE Fits(pc'[q], loc'[q], receipts')
  <2>1. CASE q = p
    BY <2>1 DEF Typed, ControlOK
  <2>2. CASE q # p
    <3>1. Fits(pc[q], loc[q], receipts) /\ pc'[q] = pc[q] /\ loc'[q] = loc[q]
      BY <2>2 DEF Typed, ControlOK
    <3>2. QED BY <3>1 DEF Fits, ReceiptsKept
  <2>3. QED BY <2>1, <2>2
<1>3. QED BY <1>1, <1>2 DEF Typed, TypeOK, ControlOK, DataOK, ReceiptsKept

\* A process moves to step s and keeps its local variables.
LEMMA Goes ==
  ASSUME Typed, NEW p \in Procs, NEW s \in Steps, Goto(p, s), UNCHANGED loc,
         ReceiptsKept, Fits(s, loc[p], receipts'), DataOK'
  PROVE  Typed'
<1>1. loc[p] \in Local /\ loc' = [loc EXCEPT ![p] = loc[p]]
  BY DEF Typed, ControlOK
<1>2. QED BY <1>1, Moves DEF Goto

\* A process ends its command.
LEMMA Returns ==
  ASSUME Typed, NEW p \in Procs, Return(p), ReceiptsKept, DataOK'
  PROVE  Typed'
<1>1. NoLocal \in Local
  BY DEF NoLocal, Local
<1>2. Fits("idle", NoLocal, receipts')
  BY DEF Fits, NamedSteps, TargetedSteps, RecordedSteps, OnWorkspace, InStaging, InSession
<1>3. QED BY <1>1, <1>2, Moves DEF Return

\* A process stays where it is.
LEMMA Stays ==
  ASSUME Typed, UNCHANGED <<pc, loc>>, ReceiptsKept, DataOK'
  PROVE  Typed'
<1>1. \A q \in Procs : Fits(pc[q], loc[q], receipts')
  BY DEF Typed, ControlOK, Fits, ReceiptsKept
<1>2. QED BY <1>1 DEF Typed, TypeOK, ControlOK, DataOK, ReceiptsKept

LEMMA ReceiptsUnchanged == ASSUME Typed, UNCHANGED receipts PROVE ReceiptsKept
BY DEF Typed, TypeOK, ReceiptsKept

LEMMA ReceiptReplaced ==
  ASSUME Typed, NEW o \in OpIds, NEW r \in Receipt,
         receipts' = [receipts EXCEPT ![o] = r]
  PROVE  ReceiptsKept /\ receipts'[o] \in Receipt
BY DEF Typed, TypeOK, ReceiptsKept

LEMMA ReceiptWritten ==
  ASSUME Typed, NEW o \in OpIds, NEW r \in Receipt, WriteReceipt(o, r)
  PROVE  ReceiptsKept
BY ReceiptReplaced, ReceiptsUnchanged DEF WriteReceipt

LEMMA DataKept ==
  ASSUME Typed, UNCHANGED <<lifecycle, wsLock, wsDir, staging, meta, valid,
                            touched, base, deleters, orphans, effect>>
  PROVE  DataOK'
BY DEF Typed, TypeOK, DataOK

LEMMA PhaseTyped ==
  ASSUME NEW o \in OpIds, receipts[o] \in Receipt,
         NEW phase \in {"started", "staged", "published", "completed", "failed"}
  PROVE  Phase(o, phase) \in Receipt
BY DEF Phase, Receipt


LEMMA RecordTyped ==
  ASSUME Inductive, NEW i \in Ids, Exists(i)
  PROVE  wsDir[i] \in Dirs /\ Record(i) \in Metadata
BY DEF Inductive, TypeOK, TreesOK, Exists

LEMMA RevisionTyped ==
  ASSUME Inductive, NEW i \in Ids, Exists(i), NEW gen \in Nat
  PROVE  NextRevision(i, gen) \in Metadata
BY RecordTyped DEF NextRevision, Metadata

\* An operation on its own receipt finds one, and every later phase of it is one.
LEMMA OwnReceipt ==
  ASSUME Inductive, NEW p \in Procs, pc[p] \in RecordedSteps,
         NEW phase \in {"started", "staged", "published", "completed", "failed"}
  PROVE  /\ loc[p].op \in OpIds
         /\ receipts[loc[p].op] \in Receipt
         /\ Phase(loc[p].op, phase) \in Receipt
BY PhaseTyped DEF Inductive, ControlOK, Fits

USE DEF At

LEMMA CreateTyped ==
  ASSUME Inductive, NEW p \in Procs, Create(p) PROVE Typed'
<1> USE DEF NamedSteps, TargetedSteps, RecordedSteps, OnWorkspace, InStaging, InSession
<1>0. Typed /\ loc[p] \in Local /\ Fits(pc[p], loc[p], receipts)
  BY DEF Inductive, Typed, ControlOK
<1>1. ASSUME NEW n \in Names, NEW t \in Targets, CreateRequest(p, n, t) PROVE Typed'
  <2> DEFINE r == [loc[p] EXCEPT !.name = n, !.target = t]
  <2>1. r \in Local /\ r.name = n /\ r.target = t
    BY <1>0 DEF Local
  <2>2. pc' = [pc EXCEPT ![p] = "create_wait"] /\ loc' = [loc EXCEPT ![p] = r]
    BY <1>1 DEF CreateRequest, Goto
  <2>3. DataOK' /\ ReceiptsKept
    BY <1>0, <1>1, DataKept, ReceiptsUnchanged DEF CreateRequest, shared
  <2>4. Fits("create_wait", r, receipts')
    BY <2>1 DEF Fits
  <2>5. QED BY <1>0, <2>1, <2>2, <2>3, <2>4, Moves
<1>2. ASSUME NEW o \in OpIds, CreateBegin(p, o) PROVE Typed'
  <2> DEFINE r == [loc[p] EXCEPT !.op = o]
             new == Started("create", None, loc[p].name, loc[p].target, 0)
  <2>1. r \in Local /\ r.op = o /\ r.name = loc[p].name /\ r.target = loc[p].target
    BY <1>0 DEF Local
  <2>2. pc' = [pc EXCEPT ![p] = "create_check"] /\ loc' = [loc EXCEPT ![p] = r]
    BY <1>2 DEF CreateBegin, Goto
  <2>3. new \in Receipt
    BY <1>0, <1>2 DEF CreateBegin, Started, Fits, Receipt
  <2>4. ReceiptsKept /\ receipts'[o] \in Receipt
    BY <1>0, <1>2, <2>3, ReceiptReplaced DEF CreateBegin, StartReceipt
  <2>5. DataOK'
    BY <1>0, <1>2 DEF Typed, TypeOK, DataOK, CreateBegin, LockLifecycle
  <2>6. Fits("create_check", r, receipts')
    BY <1>0, <1>2, <2>1, <2>4 DEF Fits, CreateBegin
  <2>7. QED BY <1>0, <2>1, <2>2, <2>4, <2>5, <2>6, Moves
<1>3. ASSUME CreateRefused(p) PROVE Typed'
  <2>1. Return(p) /\ DataOK' /\ ReceiptsKept
    BY <1>0, <1>3, DataKept, ReceiptsUnchanged DEF CreateRefused, shared
  <2>2. QED BY <1>0, <2>1, Returns
<1>4. ASSUME NEW d \in Dirs, CreateStage(p, d) PROVE Typed'
  <2> DEFINE r == [loc[p] EXCEPT !.dir = d]
  <2>1. r \in Local /\ r.dir = d /\ r.name = loc[p].name /\ r.target = loc[p].target
          /\ r.op = loc[p].op
    BY <1>0 DEF Local
  <2>2. pc' = [pc EXCEPT ![p] = "create_extract"] /\ loc' = [loc EXCEPT ![p] = r]
    BY <1>4 DEF CreateStage, Goto
  <2>3. DataOK' /\ ReceiptsKept /\ UNCHANGED receipts
    BY <1>0, <1>4, ReceiptsUnchanged DEF Typed, TypeOK, DataOK, CreateStage
  <2>4. Fits("create_extract", r, receipts')
    BY <1>0, <1>4, <2>1, <2>3 DEF Fits, CreateStage
  <2>5. QED BY <1>0, <2>1, <2>2, <2>3, <2>4, Moves
<1>5. ASSUME NEW i \in Ids, CreateExtracted(p, i) PROVE Typed'
  <2> DEFINE r == [loc[p] EXCEPT !.id = i]
  <2>1. r \in Local /\ r.dir = loc[p].dir /\ r.name = loc[p].name
          /\ r.target = loc[p].target /\ r.op = loc[p].op /\ r.id = i
    BY <1>0 DEF Local
  <2>2. pc' = [pc EXCEPT ![p] = "create_publish"] /\ loc' = [loc EXCEPT ![p] = r]
    BY <1>5 DEF CreateExtracted, Goto
  <2>3. [id |-> i, name |-> loc[p].name, target |-> loc[p].target, gen |-> 0] \in Metadata
    BY <1>0, <1>5 DEF Fits, CreateExtracted, Metadata
  <2>4. loc[p].dir \in Dirs
    BY <1>0, <1>5 DEF Fits, CreateExtracted
  <2>5. DataOK' /\ ReceiptsKept /\ UNCHANGED receipts
    BY <1>0, <1>5, <2>3, <2>4, ReceiptsUnchanged
    DEF Typed, TypeOK, DataOK, CreateExtracted
  <2>6. Fits("create_publish", r, receipts')
    BY <1>0, <1>5, <2>1, <2>5 DEF Fits, CreateExtracted
  <2>7. QED BY <1>0, <2>1, <2>2, <2>5, <2>6, Moves
<1>6. ASSUME CreatePublish(p) PROVE Typed'
  <2>1. loc[p].id \in Ids /\ loc[p].dir \in Dirs /\ loc[p].op \in OpIds
    BY <1>0, <1>6 DEF Fits, CreatePublish
  <2>2. DataOK' /\ ReceiptsKept /\ UNCHANGED receipts
    BY <1>0, <1>6, <2>1, ReceiptsUnchanged DEF Typed, TypeOK, DataOK, CreatePublish
  <2>3. Fits("create_finish", loc[p], receipts')
    BY <1>0, <1>6, <2>1, <2>2 DEF Fits, CreatePublish
  <2>4. QED BY <1>0, <1>6, <2>2, <2>3, Goes DEF CreatePublish
<1>7. ASSUME CreateFails(p) PROVE Typed'
  <2>1. loc[p].op \in OpIds /\ Phase(loc[p].op, "failed") \in Receipt
    BY <1>7, OwnReceipt DEF CreateFails
  <2>2. ReceiptsKept
    BY <1>0, <1>7, <2>1, ReceiptWritten DEF CreateFails
  <2>3. DataOK'
    BY <1>0, <1>7 DEF Typed, TypeOK, DataOK, CreateFails, UnlockLifecycle
  <2>4. QED BY <1>0, <1>7, <2>2, <2>3, Returns DEF CreateFails
<1>8. ASSUME CreateFinish(p) PROVE Typed'
  <2> DEFINE r == [Phase(loc[p].op, "completed") EXCEPT !.id = loc[p].id]
  <2>1. loc[p].op \in OpIds /\ Phase(loc[p].op, "completed") \in Receipt
    BY <1>8, OwnReceipt DEF CreateFinish
  <2>2. loc[p].id \in Ids
    BY <1>0, <1>8 DEF Fits, CreateFinish
  <2>3. r \in Receipt
    BY <2>1, <2>2 DEF Receipt
  <2>4. ReceiptsKept
    BY <1>0, <1>8, <2>1, <2>3, ReceiptWritten DEF CreateFinish
  <2>5. DataOK'
    BY <1>0, <1>8 DEF Typed, TypeOK, DataOK, CreateFinish, UnlockLifecycle
  <2>6. QED BY <1>0, <1>8, <2>4, <2>5, Returns DEF CreateFinish
<1>9. QED BY <1>1, <1>2, <1>3, <1>4, <1>5, <1>6, <1>7, <1>8 DEF Create

LEMMA ResetTyped ==
  ASSUME Inductive, NEW p \in Procs, Reset(p) PROVE Typed'
<1> USE DEF NamedSteps, TargetedSteps, RecordedSteps, OnWorkspace, InStaging, InSession
<1>0. Typed /\ loc[p] \in Local /\ Fits(pc[p], loc[p], receipts)
  BY DEF Inductive, Typed, ControlOK
<1>1. ASSUME NEW i \in Ids, ResetRequest(p, i) PROVE Typed'
  <2> DEFINE r == [loc[p] EXCEPT !.id = i, !.gen = Record(i).gen]
  <2>1. Record(i).gen \in Nat
    BY <1>1, RecordTyped DEF ResetRequest, Metadata
  <2>2. r \in Local /\ r.id = i
    BY <1>0, <2>1 DEF Local
  <2>3. pc' = [pc EXCEPT ![p] = "reset_wait"] /\ loc' = [loc EXCEPT ![p] = r]
    BY <1>1 DEF ResetRequest, Goto
  <2>4. DataOK' /\ ReceiptsKept
    BY <1>0, <1>1, DataKept, ReceiptsUnchanged DEF ResetRequest, shared
  <2>5. Fits("reset_wait", r, receipts')
    BY <2>2 DEF Fits
  <2>6. QED BY <1>0, <2>2, <2>3, <2>4, <2>5, Moves
<1>2. ASSUME NEW o \in OpIds, ResetBegin(p, o) PROVE Typed'
  <2> DEFINE i == loc[p].id
             r == [loc[p] EXCEPT !.op = o]
             new == Started("reset", i, Record(i).name, Record(i).target, Record(i).gen)
  <2>1. r \in Local /\ r.op = o /\ r.id = i
    BY <1>0 DEF Local
  <2>2. pc' = [pc EXCEPT ![p] = "reset_stage"] /\ loc' = [loc EXCEPT ![p] = r]
    BY <1>2 DEF ResetBegin, Goto
  <2>3. i \in Ids /\ Exists(i)
    BY <1>0, <1>2 DEF Fits, ResetBegin, Inductive, StepsOK, HoldsWorkspace
  <2>4. Record(i) \in Metadata
    BY <2>3, RecordTyped
  <2>5. new \in Receipt
    BY <2>3, <2>4 DEF Started, Metadata, Receipt
  <2>6. ReceiptsKept /\ receipts'[o] \in Receipt
    BY <1>0, <1>2, <2>5, ReceiptReplaced DEF ResetBegin, StartReceipt
  <2>7. DataOK'
    BY <1>0, <1>2 DEF Typed, TypeOK, DataOK, ResetBegin, LockWorkspace
  <2>8. Fits("reset_stage", r, receipts')
    BY <2>1, <2>3, <2>6 DEF Fits
  <2>9. QED BY <1>0, <2>1, <2>2, <2>6, <2>7, <2>8, Moves
<1>3. ASSUME ResetRefused(p) PROVE Typed'
  <2>1. DataOK' /\ ReceiptsKept
    BY <1>0, <1>3, ReceiptsUnchanged
    DEF Typed, TypeOK, DataOK, ResetRefused, UnlockLifecycle
  <2>2. QED BY <1>0, <1>3, <2>1, Returns DEF ResetRefused
<1>4. ASSUME NEW d \in Dirs, ResetStage(p, d) PROVE Typed'
  <2> DEFINE r == [loc[p] EXCEPT !.dir = d]
  <2>1. r \in Local /\ r.dir = d /\ r.id = loc[p].id /\ r.op = loc[p].op
    BY <1>0 DEF Local
  <2>2. pc' = [pc EXCEPT ![p] = "reset_extract"] /\ loc' = [loc EXCEPT ![p] = r]
    BY <1>4 DEF ResetStage, Goto
  <2>3. DataOK' /\ ReceiptsKept /\ UNCHANGED receipts
    BY <1>0, <1>4, ReceiptsUnchanged DEF Typed, TypeOK, DataOK, ResetStage
  <2>4. Fits("reset_extract", r, receipts')
    BY <1>0, <1>4, <2>1, <2>3 DEF Fits, ResetStage
  <2>5. QED BY <1>0, <2>1, <2>2, <2>3, <2>4, Moves
<1>5. ASSUME ResetExtracted(p) PROVE Typed'
  <2>1. loc[p].id \in Ids /\ loc[p].dir \in Dirs /\ loc[p].op \in OpIds
    BY <1>0, <1>5 DEF Fits, ResetExtracted
  <2>2. receipts[loc[p].op] \in Receipt /\ Phase(loc[p].op, "staged") \in Receipt
    BY <1>5, OwnReceipt DEF ResetExtracted
  <2>3. Exists(loc[p].id)
    BY <1>5 DEF ResetExtracted, Inductive, StepsOK, HoldsWorkspace
  <2>4. NextRevision(loc[p].id, receipts[loc[p].op].before) \in Metadata
    BY <2>1, <2>2, <2>3, RevisionTyped DEF Receipt
  <2>5. ReceiptsKept /\ receipts'[loc[p].op] \in Receipt
    BY <1>0, <1>5, <2>1, <2>2, ReceiptReplaced DEF ResetExtracted
  <2>6. DataOK'
    BY <1>0, <1>5, <2>1, <2>4 DEF Typed, TypeOK, DataOK, ResetExtracted
  <2>7. Fits("reset_exchange", loc[p], receipts')
    BY <2>1, <2>5 DEF Fits
  <2>8. QED BY <1>0, <1>5, <2>5, <2>6, <2>7, Goes DEF ResetExtracted
<1>6. ASSUME ResetExchange(p) PROVE Typed'
  <2> DEFINE r == [loc[p] EXCEPT !.dir = wsDir[loc[p].id]]
  <2>1. loc[p].id \in Ids /\ loc[p].dir \in Dirs /\ loc[p].op \in OpIds
    BY <1>0, <1>6 DEF Fits, ResetExchange
  <2>2. wsDir[loc[p].id] \in Dirs
    BY <1>6, <2>1, RecordTyped DEF ResetExchange, Inductive, StepsOK, HoldsWorkspace
  <2>3. r \in Local /\ r.dir = wsDir[loc[p].id] /\ r.id = loc[p].id /\ r.op = loc[p].op
    BY <1>0, <2>2 DEF Local
  <2>4. pc' = [pc EXCEPT ![p] = "reset_note"] /\ loc' = [loc EXCEPT ![p] = r]
    BY <1>6 DEF ResetExchange, Goto
  <2>5. DataOK' /\ ReceiptsKept /\ UNCHANGED receipts
    BY <1>0, <1>6, <2>1, <2>2, ReceiptsUnchanged DEF Typed, TypeOK, DataOK, ResetExchange
  <2>6. Fits("reset_note", r, receipts')
    BY <1>0, <1>6, <2>1, <2>2, <2>3, <2>5 DEF Fits, ResetExchange
  <2>7. QED BY <1>0, <2>3, <2>4, <2>5, <2>6, Moves
<1>7. ASSUME ResetNote(p) PROVE Typed'
  <2>1. loc[p].op \in OpIds /\ Phase(loc[p].op, "published") \in Receipt
    BY <1>7, OwnReceipt DEF ResetNote
  <2>2. ReceiptsKept /\ receipts'[loc[p].op] \in Receipt
    BY <1>0, <1>7, <2>1, ReceiptReplaced DEF ResetNote
  <2>3. DataOK'
    BY <1>0, <1>7, DataKept DEF ResetNote
  <2>4. Fits("reset_clean", loc[p], receipts')
    BY <1>0, <1>7, <2>1, <2>2 DEF Fits, ResetNote
  <2>5. QED BY <1>0, <1>7, <2>2, <2>3, <2>4, Goes DEF ResetNote
<1>8. ASSUME ResetClean(p) PROVE Typed'
  <2>1. DataOK' /\ ReceiptsKept /\ UNCHANGED receipts
    BY <1>0, <1>8, ReceiptsUnchanged
    DEF Typed, TypeOK, DataOK, ResetClean, RemoveTree
  <2>2. Fits("reset_finish", loc[p], receipts')
    BY <1>0, <1>8, <2>1 DEF Fits, ResetClean
  <2>3. QED BY <1>0, <1>8, <2>1, <2>2, Goes DEF ResetClean
<1>9. ASSUME ResetFails(p) PROVE Typed'
  <2>1. loc[p].op \in OpIds /\ Phase(loc[p].op, "failed") \in Receipt
    BY <1>9, OwnReceipt DEF ResetFails
  <2>2. ReceiptsKept
    BY <1>0, <1>9, <2>1, ReceiptWritten DEF ResetFails
  <2>3. DataOK'
    BY <1>0, <1>9
    DEF Typed, TypeOK, DataOK, ResetFails, UnlockBoth, UnlockLifecycle, UnlockWorkspace
  <2>4. QED BY <1>0, <1>9, <2>2, <2>3, Returns DEF ResetFails
<1>10. ASSUME ResetBreaksOff(p) PROVE Typed'
  <2>1. DataOK' /\ ReceiptsKept
    BY <1>0, <1>10, ReceiptsUnchanged
    DEF Typed, TypeOK, DataOK, ResetBreaksOff, RemovePartOf, UnlockBoth,
        UnlockLifecycle, UnlockWorkspace
  <2>2. QED BY <1>0, <1>10, <2>1, Returns DEF ResetBreaksOff
<1>11. ASSUME ResetFinish(p) PROVE Typed'
  <2>1. loc[p].op \in OpIds /\ Phase(loc[p].op, "completed") \in Receipt
    BY <1>11, OwnReceipt DEF ResetFinish
  <2>2. ReceiptsKept
    BY <1>0, <1>11, <2>1, ReceiptReplaced DEF ResetFinish
  <2>3. DataOK'
    BY <1>0, <1>11
    DEF Typed, TypeOK, DataOK, ResetFinish, UnlockBoth, UnlockLifecycle, UnlockWorkspace
  <2>4. Fits("reset_mismatch", loc[p], receipts')
    BY DEF Fits
  <2>5. CASE Return(p)
    BY <1>0, <2>2, <2>3, <2>5, Returns
  <2>6. CASE Goto(p, "reset_mismatch") /\ UNCHANGED loc
    BY <1>0, <2>2, <2>3, <2>4, <2>6, Goes
  <2>7. QED BY <1>11, <2>5, <2>6 DEF ResetFinish
<1>12. ASSUME ResetMismatch(p) PROVE Typed'
  <2>1. Return(p) /\ DataOK' /\ ReceiptsKept
    BY <1>0, <1>12, DataKept, ReceiptsUnchanged DEF ResetMismatch, shared
  <2>2. QED BY <1>0, <2>1, Returns
<1>13. QED
  BY <1>1, <1>2, <1>3, <1>4, <1>5, <1>6, <1>7, <1>8, <1>9, <1>10, <1>11, <1>12 DEF Reset

LEMMA RemoveTyped ==
  ASSUME Inductive, NEW p \in Procs, Remove(p) \/ TakeLifecycle(p) \/ NotFound(p)
  PROVE  Typed'
<1> USE DEF NamedSteps, TargetedSteps, RecordedSteps, OnWorkspace, InStaging, InSession
<1>0. Typed /\ loc[p] \in Local /\ Fits(pc[p], loc[p], receipts)
  BY DEF Inductive, Typed, ControlOK
<1>1. ASSUME NEW i \in Ids, RemoveRequest(p, i) PROVE Typed'
  <2> DEFINE r == [loc[p] EXCEPT !.id = i]
  <2>1. r \in Local /\ r.id = i
    BY <1>0 DEF Local
  <2>2. pc' = [pc EXCEPT ![p] = "remove_wait"] /\ loc' = [loc EXCEPT ![p] = r]
    BY <1>1 DEF RemoveRequest, Goto
  <2>3. DataOK' /\ ReceiptsKept
    BY <1>0, <1>1, DataKept, ReceiptsUnchanged DEF RemoveRequest, shared
  <2>4. Fits("remove_wait", r, receipts')
    BY <2>1 DEF Fits
  <2>5. QED BY <1>0, <2>1, <2>2, <2>3, <2>4, Moves
<1>2. ASSUME RemoveUnpublish(p) PROVE Typed'
  <2> DEFINE r == [loc[p] EXCEPT !.dir = wsDir[loc[p].id]]
  <2>1. loc[p].id \in Ids
    BY <1>0, <1>2 DEF Fits, RemoveUnpublish
  <2>2. wsDir[loc[p].id] \in Dirs
    BY <1>2, <2>1, RecordTyped DEF RemoveUnpublish, Inductive, StepsOK, HoldsWorkspace
  <2>3. r \in Local /\ r.dir = wsDir[loc[p].id] /\ r.id = loc[p].id
    BY <1>0, <2>2 DEF Local
  <2>4. pc' = [pc EXCEPT ![p] = "remove_clean"] /\ loc' = [loc EXCEPT ![p] = r]
    BY <1>2 DEF RemoveUnpublish, Goto
  <2>5. DataOK' /\ ReceiptsKept
    BY <1>0, <1>2, <2>1, <2>2, ReceiptsUnchanged
    DEF Typed, TypeOK, DataOK, RemoveUnpublish, LockWorkspace
  <2>6. Fits("remove_clean", r, receipts')
    BY <2>1, <2>2, <2>3 DEF Fits
  <2>7. QED BY <1>0, <2>3, <2>4, <2>5, <2>6, Moves
<1>3. ASSUME RemoveFinish(p) PROVE Typed'
  <2>1. DataOK' /\ ReceiptsKept
    BY <1>0, <1>3, ReceiptsUnchanged
    DEF Typed, TypeOK, DataOK, RemoveFinish, RemoveTree, RemovePartOf, UnlockBoth,
        UnlockLifecycle, UnlockWorkspace
  <2>2. QED BY <1>0, <1>3, <2>1, Returns DEF RemoveFinish
<1>4. ASSUME TakeLifecycle(p) PROVE Typed'
  <2>1. DataOK' /\ ReceiptsKept /\ UNCHANGED receipts
    BY <1>0, <1>4, ReceiptsUnchanged
    DEF Typed, TypeOK, DataOK, TakeLifecycle, LockLifecycle
  <2>2. loc[p].id \in Ids
    BY <1>0, <1>4 DEF Fits, TakeLifecycle
  <2>3. Fits("reset_locked", loc[p], receipts') /\ Fits("remove_locked", loc[p], receipts')
    BY <2>2 DEF Fits
  <2>4. QED BY <1>0, <1>4, <2>1, <2>3, Goes DEF TakeLifecycle
<1>5. ASSUME NotFound(p) PROVE Typed'
  <2>1. Return(p) /\ DataOK' /\ ReceiptsKept
    BY <1>0, <1>5, DataKept, ReceiptsUnchanged DEF NotFound, shared
  <2>2. QED BY <1>0, <2>1, Returns
<1>6. ASSUME RemoveRefused(p) PROVE Typed'
  <2>1. DataOK' /\ ReceiptsKept
    BY <1>0, <1>6, ReceiptsUnchanged
    DEF Typed, TypeOK, DataOK, RemoveRefused, UnlockLifecycle
  <2>2. QED BY <1>0, <1>6, <2>1, Returns DEF RemoveRefused
<1>7. QED BY <1>1, <1>2, <1>3, <1>4, <1>5, <1>6 DEF Remove

LEMMA SessionTyped ==
  ASSUME Inductive, NEW p \in Procs, Session(p) PROVE Typed'
<1> USE DEF NamedSteps, TargetedSteps, RecordedSteps, OnWorkspace, InStaging, InSession
<1>0. Typed /\ loc[p] \in Local /\ Fits(pc[p], loc[p], receipts)
  BY DEF Inductive, Typed, ControlOK
<1>1. ASSUME NEW i \in Ids, SessionRequest(p, i) PROVE Typed'
  <2> DEFINE r == [loc[p] EXCEPT !.id = i]
  <2>1. r \in Local /\ r.id = i
    BY <1>0 DEF Local
  <2>2. PICK s \in {"run_wait", "build_wait"} : pc' = [pc EXCEPT ![p] = s]
    BY <1>1 DEF SessionRequest, Goto
  <2>3. loc' = [loc EXCEPT ![p] = r]
    BY <1>1 DEF SessionRequest
  <2>4. DataOK' /\ ReceiptsKept
    BY <1>0, <1>1, DataKept, ReceiptsUnchanged DEF SessionRequest, shared
  <2>5. Fits(s, r, receipts')
    BY <2>1 DEF Fits
  <2>6. QED BY <1>0, <2>1, <2>2, <2>3, <2>4, <2>5, Moves
<1>2. ASSUME SessionStart(p) PROVE Typed'
  <2> DEFINE i == loc[p].id
             r == [loc[p] EXCEPT !.dir = wsDir[i], !.gen = Record(i).gen]
  <2>1. i \in Ids
    BY <1>0, <1>2 DEF Fits, SessionStart
  <2>2. wsDir[i] \in Dirs /\ Record(i).gen \in Nat
    BY <1>2, <2>1, RecordTyped DEF SessionStart, Metadata
  <2>3. r \in Local /\ r.dir = wsDir[i] /\ r.id = i
    BY <1>0, <2>2 DEF Local
  <2>4. PICK s \in InSession : pc' = [pc EXCEPT ![p] = s]
    BY <1>2 DEF SessionStart, Goto
  <2>5. loc' = [loc EXCEPT ![p] = r]
    BY <1>2 DEF SessionStart
  <2>6. DataOK' /\ ReceiptsKept
    BY <1>0, <1>2, ReceiptsUnchanged DEF Typed, TypeOK, DataOK, SessionStart, LockWorkspace
  <2>7. Fits(s, r, receipts')
    BY <2>1, <2>2, <2>3 DEF Fits
  <2>8. QED BY <1>0, <2>3, <2>4, <2>5, <2>6, <2>7, Moves
<1>3. ASSUME RunCommits(p) PROVE Typed'
  <2> DEFINE i == loc[p].id
  <2>1. i \in Ids
    BY <1>0, <1>3 DEF Fits, RunCommits
  <2>2. Exists(i)
    BY <1>3 DEF RunCommits, Inductive, StepsOK, HoldsWorkspace
  <2>3. loc[p].gen \in Nat
    BY <1>0 DEF Local
  <2>4. NextRevision(i, loc[p].gen) \in Metadata
    BY <2>1, <2>2, <2>3, RevisionTyped
  <2>5. DataOK' /\ ReceiptsKept
    BY <1>0, <1>3, <2>4, ReceiptsUnchanged
    DEF Typed, TypeOK, DataOK, RunCommits, UnlockWorkspace
  <2>6. QED BY <1>0, <1>3, <2>5, Returns DEF RunCommits
<1>4. ASSUME SessionEnds(p) PROVE Typed'
  <2>1. DataOK' /\ ReceiptsKept
    BY <1>0, <1>4, ReceiptsUnchanged
    DEF Typed, TypeOK, DataOK, SessionEnds, UnlockWorkspace
  <2>2. QED BY <1>0, <1>4, <2>1, Returns DEF SessionEnds
<1>5. QED BY <1>1, <1>2, <1>3, <1>4 DEF Session

LEMMA DeleteTyped ==
  ASSUME Inductive, NEW p \in Procs, Delete(p) PROVE Typed'
<1> USE DEF NamedSteps, TargetedSteps, RecordedSteps, OnWorkspace, InStaging, InSession
<1>0. Typed /\ loc[p] \in Local /\ Fits(pc[p], loc[p], receipts)
  BY DEF Inductive, Typed, ControlOK
<1>1. ASSUME NEW t \in Targets, DeleteRequest(p, t) PROVE Typed'
  <2> DEFINE r == [loc[p] EXCEPT !.target = t]
  <2>1. r \in Local /\ r.target = t
    BY <1>0 DEF Local
  <2>2. pc' = [pc EXCEPT ![p] = "delete_wait"] /\ loc' = [loc EXCEPT ![p] = r]
    BY <1>1 DEF DeleteRequest, Goto
  <2>3. DataOK' /\ ReceiptsKept
    BY <1>0, <1>1, DataKept, ReceiptsUnchanged DEF DeleteRequest, shared
  <2>4. Fits("delete_wait", r, receipts')
    BY <2>1 DEF Fits
  <2>5. QED BY <1>0, <2>1, <2>2, <2>3, <2>4, Moves
<1>2. ASSUME DeleteBegin(p) PROVE Typed'
  <2>1. loc[p].target \in Targets
    BY <1>0, <1>2 DEF Fits, DeleteBegin
  <2>2. DataOK' /\ ReceiptsKept
    BY <1>0, <1>2, <2>1, ReceiptsUnchanged
    DEF Typed, TypeOK, DataOK, DeleteBegin, LockLifecycle
  <2>3. Fits("delete_exec", loc[p], receipts')
    BY <2>1 DEF Fits
  <2>4. QED BY <1>0, <1>2, <2>2, <2>3, Goes DEF DeleteBegin
<1>3. ASSUME DeleteRefused(p) PROVE Typed'
  <2>1. Return(p) /\ DataOK' /\ ReceiptsKept
    BY <1>0, <1>3, DataKept, ReceiptsUnchanged DEF DeleteRefused, shared
  <2>2. QED BY <1>0, <2>1, Returns
<1>4. ASSUME DeleteReturns(p) PROVE Typed'
  <2>1. DataOK' /\ ReceiptsKept
    BY <1>0, <1>4, ReceiptsUnchanged
    DEF Typed, TypeOK, DataOK, DeleteReturns, UnlockLifecycle
  <2>2. QED BY <1>0, <1>4, <2>1, Returns DEF DeleteReturns
<1>5. QED BY <1>1, <1>2, <1>3, <1>4 DEF Delete

\* Settling an open receipt keeps it a receipt.
LEMMA SettleTyped ==
  ASSUME Inductive, NEW p \in Procs, NEW o \in OpIds, NextReceipt(p, o),
         NEW phase \in {"completed", "failed"}, NEW i \in Ids \cup {None},
         Settle(p, o, phase, i)
  PROVE  Typed'
<1> DEFINE new == [receipts[o] EXCEPT !.phase = phase, !.recovered = TRUE, !.id = i]
           r == [loc[p] EXCEPT !.op = o]
<1>1. Typed /\ loc[p] \in Local
  BY DEF Inductive, Typed, ControlOK
<1>2. receipts[o] \in Receipt
  BY DEF NextReceipt, Open, Inductive, TypeOK
<1>3. new \in Receipt
  BY <1>2 DEF Receipt
<1>4. receipts' = [receipts EXCEPT ![o] = new]
  BY DEF Settle
<1>5. ReceiptsKept
  BY <1>1, <1>3, <1>4, ReceiptReplaced
<1>6. DataOK'
  BY <1>1, DataKept DEF Settle
<1>7. r \in Local
  BY <1>1 DEF Local
<1>8. pc' = [pc EXCEPT ![p] = "recover_receipts"] /\ loc' = [loc EXCEPT ![p] = r]
  BY <1>1 DEF Settle, NextReceipt, Typed, ControlOK
<1>9. Fits("recover_receipts", r, receipts')
  BY DEF Fits, NamedSteps, TargetedSteps, RecordedSteps, OnWorkspace, InStaging, InSession
<1>10. QED BY <1>1, <1>5, <1>6, <1>7, <1>8, <1>9, Moves

LEMMA RecoverTyped ==
  ASSUME Inductive, NEW p \in Procs, Recover(p) PROVE Typed'
<1> USE DEF NamedSteps, TargetedSteps, RecordedSteps, OnWorkspace, InStaging, InSession
<1>0. Typed /\ Fits("recover_sweep", loc[p], receipts')
            /\ Fits("recover_receipts", loc[p], receipts')
  BY DEF Inductive, Typed, Fits
<1>1. ASSUME RecoverBegin(p) PROVE Typed'
  <2>1. DataOK' /\ ReceiptsKept
    BY <1>0, <1>1, ReceiptsUnchanged DEF Typed, TypeOK, DataOK, RecoverBegin, LockLifecycle
  <2>2. QED BY <1>0, <1>1, <2>1, Goes DEF RecoverBegin
<1>2. ASSUME NEW d \in Dirs, RecoverRemoves(p, d) PROVE Typed'
  <2>1. DataOK' /\ ReceiptsKept
    BY <1>0, <1>2, ReceiptsUnchanged DEF Typed, TypeOK, DataOK, RecoverRemoves, RemoveTree
  <2>2. QED BY <1>0, <1>2, <2>1, Stays DEF RecoverRemoves
<1>3. ASSUME NEW d \in Dirs, RecoverBreaksOff(p, d) PROVE Typed'
  <2>1. DataOK' /\ ReceiptsKept
    BY <1>0, <1>3, ReceiptsUnchanged
    DEF Typed, TypeOK, DataOK, RecoverBreaksOff, RemovePartOf, UnlockLifecycle
  <2>2. QED BY <1>0, <1>3, <2>1, Returns DEF RecoverBreaksOff
<1>4. ASSUME RecoverSwept(p) PROVE Typed'
  <2>1. DataOK' /\ ReceiptsKept
    BY <1>0, <1>4, DataKept, ReceiptsUnchanged DEF RecoverSwept, shared
  <2>2. QED BY <1>0, <1>4, <2>1, Goes DEF RecoverSwept
<1>5. ASSUME NEW o \in OpIds, RecoverCreate(p, o) PROVE Typed'
  <2>1. NextReceipt(p, o)
    BY <1>5 DEF RecoverCreate
  <2>2. CASE Settle(p, o, "failed", None)
    BY <2>1, <2>2, SettleTyped
  <2>3. ASSUME NEW i \in Ids, Settle(p, o, "completed", i) PROVE Typed'
    BY <2>1, <2>3, SettleTyped
  <2>4. QED BY <1>5, <2>2, <2>3 DEF RecoverCreate, CreateMatches
<1>6. ASSUME NEW o \in OpIds, RecoverReset(p, o) PROVE Typed'
  <2>1. NextReceipt(p, o)
    BY <1>6 DEF RecoverReset
  <2>2. receipts[o].id \in Ids \cup {None}
    BY <2>1 DEF NextReceipt, Open, Inductive, TypeOK, Receipt
  <2>3. CASE Settle(p, o, "completed", receipts[o].id)
    BY <2>1, <2>2, <2>3, SettleTyped
  <2>4. CASE Settle(p, o, "failed", receipts[o].id)
    BY <2>1, <2>2, <2>4, SettleTyped
  <2>5. QED BY <1>6, <2>3, <2>4 DEF RecoverReset
<1>7. ASSUME NEW o \in OpIds, RecoverRaises(p, o) PROVE Typed'
  <2>1. DataOK' /\ ReceiptsKept
    BY <1>0, <1>7, ReceiptsUnchanged DEF Typed, TypeOK, DataOK, RecoverRaises, UnlockLifecycle
  <2>2. QED BY <1>0, <1>7, <2>1, Returns DEF RecoverRaises
<1>8. ASSUME RecoverFinish(p) PROVE Typed'
  <2>1. DataOK' /\ ReceiptsKept
    BY <1>0, <1>8, ReceiptsUnchanged DEF Typed, TypeOK, DataOK, RecoverFinish, UnlockLifecycle
  <2>2. QED BY <1>0, <1>8, <2>1, Returns DEF RecoverFinish
<1>9. QED BY <1>1, <1>2, <1>3, <1>4, <1>5, <1>6, <1>7, <1>8 DEF Recover

LEMMA OthersTyped ==
  ASSUME Inductive,
         \/ \E p \in Procs : Crash(p)
         \/ Children
         \/ \E t \in Targets : EnsureTarget(t)
  PROVE  Typed'
<1>0. Typed
  BY DEF Inductive, Typed
<1>1. ASSUME NEW p \in Procs, Crash(p) PROVE Typed'
  <2>1. ReceiptsKept
    BY <1>0, <1>1, ReceiptsUnchanged DEF Crash
  <2>2. orphans' \subseteq Dirs
    BY <1>1 DEF Crash, Inductive, TypeOK, ControlOK, Fits, InStaging, InSession
  <2>3. DataOK'
    BY <1>0, <1>1, <2>2 DEF Typed, TypeOK, DataOK, Crash
  <2>4. QED BY <1>0, <1>1, <2>1, <2>3, Returns DEF Crash
<1>2. ASSUME NEW d \in Dirs, TargetWrites(d) \/ OrphanExits(d) PROVE Typed'
  <2>1. DataOK' /\ ReceiptsKept /\ UNCHANGED <<pc, loc>>
    BY <1>0, <1>2, ReceiptsUnchanged DEF Typed, TypeOK, DataOK, TargetWrites, OrphanExits
  <2>2. QED BY <1>0, <2>1, Stays
<1>3. ASSUME NEW t \in Targets, RmtreeEnds(t) \/ EnsureTarget(t) PROVE Typed'
  <2>1. DataOK' /\ ReceiptsKept /\ UNCHANGED <<pc, loc>>
    BY <1>0, <1>3, ReceiptsUnchanged DEF Typed, TypeOK, DataOK, RmtreeEnds, EnsureTarget
  <2>2. QED BY <1>0, <2>1, Stays
<1>4. QED BY <1>1, <1>2, <1>3 DEF Children

-----------------------------------------------------------------------------
(* Locks.                                                                  *)

\* The step is p's: every other process stays at its control point.
Others(p) == \A q \in Procs \ {p} : pc'[q] = pc[q] /\ loc'[q] = loc[q]

LEMMA OthersStand ==
  ASSUME Inductive, NEW p \in Procs, Process(p) PROVE Others(p)
<1> USE DEF Others, Goto, Return
<1>0. pc \in [Procs -> Steps] /\ loc \in [Procs -> Local]
  BY DEF Inductive, ControlOK
<1>1. CASE Create(p)
  BY <1>0, <1>1 DEF Create, CreateRequest, CreateBegin, CreateRefused, CreateStage,
     CreateExtracted, CreatePublish, CreateFails, CreateFinish
<1>2. CASE Reset(p)
  BY <1>0, <1>2 DEF Reset, ResetRequest, ResetBegin, ResetRefused, ResetStage,
     ResetExtracted, ResetFails, ResetExchange, ResetNote, ResetClean,
     ResetBreaksOff, ResetFinish, ResetMismatch
<1>3. CASE Remove(p) \/ TakeLifecycle(p) \/ NotFound(p)
  BY <1>0, <1>3 DEF Remove, RemoveRequest, RemoveUnpublish, RemoveRefused, RemoveFinish,
     TakeLifecycle, NotFound
<1>4. CASE Session(p)
  BY <1>0, <1>4 DEF Session, SessionRequest, SessionStart, RunCommits, SessionEnds
<1>5. CASE Delete(p)
  BY <1>0, <1>5 DEF Delete, DeleteRequest, DeleteBegin, DeleteRefused, DeleteReturns
<1>6. CASE Recover(p)
  BY <1>0, <1>6 DEF Recover, RecoverBegin, RecoverRemoves, RecoverBreaksOff,
     RecoverSwept, RecoverCreate, RecoverReset, RecoverRaises, RecoverFinish, Settle
<1>7. QED BY <1>1, <1>2, <1>3, <1>4, <1>5, <1>6 DEF Process

\* No step of p takes a lock away from another process.
LEMMA LocksMove ==
  ASSUME Inductive, NEW p \in Procs, Others(p),
         lifecycle' = lifecycle \/ lifecycle \in {None, p},
         \A i \in Ids : wsLock'[i] = wsLock[i] \/ wsLock[i] \in {None, p},
         pc'[p] \in LifecycleSteps => lifecycle' = p,
         pc'[p] \in WorkspaceSteps => wsLock'[loc'[p].id] = p
  PROVE  LocksOK'
<1>1. ASSUME NEW q \in Procs, q # p
      PROVE  /\ pc'[q] \in LifecycleSteps => lifecycle' = q
             /\ pc'[q] \in WorkspaceSteps => wsLock'[loc'[q].id] = q
  <2>1. pc'[q] = pc[q] /\ loc'[q] = loc[q]
    BY <1>1 DEF Others
  <2>2. pc[q] \in LifecycleSteps => lifecycle = q
    BY DEF Inductive, LocksOK
  <2>3. pc[q] \in WorkspaceSteps => wsLock[loc[q].id] = q /\ loc[q].id \in Ids
    BY DEF Inductive, LocksOK, ControlOK, Fits, OnWorkspace
  <2>4. QED BY <1>1, <2>1, <2>2, <2>3, NoneIsNew
<1>2. QED BY <1>1 DEF LocksOK

LEMMA LocksKept ==
  ASSUME Inductive, NEW p \in Procs, Process(p) PROVE LocksOK'
<1> USE DEF Goto, Return, LockLifecycle, UnlockLifecycle, LockWorkspace, UnlockWorkspace,
            UnlockBoth, shared
<1>0. /\ Others(p)
      /\ pc \in [Procs -> Steps] /\ loc \in [Procs -> Local]
      /\ wsLock \in [Ids -> Procs \cup {None}]
      /\ pc[p] \in LifecycleSteps => lifecycle = p
      /\ pc[p] \in WorkspaceSteps => wsLock[loc[p].id] = p
      /\ pc[p] \in OnWorkspace => loc[p].id \in Ids
  BY OthersStand DEF Inductive, TypeOK, ControlOK, LocksOK, Fits
<1>1. CASE Create(p)
  BY <1>0, <1>1, LocksMove DEF Create, CreateRequest, CreateBegin, CreateRefused,
     CreateStage, CreateExtracted, CreatePublish, CreateFails, CreateFinish
<1>2. CASE Reset(p)
  <2>1. ASSUME \/ \E i \in Ids : ResetRequest(p, i)
               \/ ResetRefused(p) \/ ResetMismatch(p)
        PROVE  LocksOK'
    BY <1>0, <2>1, LocksMove DEF OnWorkspace, ResetRequest, ResetRefused, ResetMismatch
  <2>2. ASSUME ResetFails(p) \/ ResetBreaksOff(p) PROVE LocksOK'
    BY <1>0, <2>2, LocksMove DEF OnWorkspace, ResetFails, ResetBreaksOff
  <2>3. ASSUME ResetFinish(p) PROVE LocksOK'
    <3>1. pc'[p] \in {"idle", "reset_mismatch"}
      BY <1>0, <2>3 DEF ResetFinish
    <3>2. QED BY <1>0, <2>3, <3>1, LocksMove DEF OnWorkspace, ResetFinish
  <2>4. ASSUME \/ \E o \in OpIds : ResetBegin(p, o)
               \/ \E d \in Dirs : ResetStage(p, d)
               \/ ResetExtracted(p) \/ ResetExchange(p) \/ ResetNote(p) \/ ResetClean(p)
        PROVE  LocksOK'
    <3>1. loc'[p].id = loc[p].id
      BY <1>0, <2>4 DEF ResetBegin, ResetStage, ResetExtracted, ResetExchange, ResetNote,
         ResetClean, Local
    <3>2. QED
      BY <1>0, <2>4, <3>1, LocksMove DEF OnWorkspace, ResetBegin, ResetStage,
         ResetExtracted, ResetExchange, ResetNote, ResetClean
  <2>5. QED BY <1>2, <2>1, <2>2, <2>3, <2>4 DEF Reset
<1>3. CASE Remove(p) \/ TakeLifecycle(p) \/ NotFound(p)
  <2>1. ASSUME RemoveUnpublish(p) PROVE LocksOK'
    <3>1. loc'[p].id = loc[p].id
      BY <1>0, <2>1 DEF RemoveUnpublish, Local
    <3>2. QED BY <1>0, <2>1, <3>1, LocksMove DEF OnWorkspace, RemoveUnpublish
  <2>2. ASSUME \/ \E i \in Ids : RemoveRequest(p, i)
               \/ RemoveRefused(p) \/ RemoveFinish(p) \/ TakeLifecycle(p) \/ NotFound(p)
        PROVE  LocksOK'
    BY <1>0, <2>2, LocksMove DEF OnWorkspace, RemoveRequest, RemoveRefused, RemoveFinish,
       TakeLifecycle, NotFound
  <2>3. QED BY <1>3, <2>1, <2>2 DEF Remove
<1>4. CASE Session(p)
  <2>1. ASSUME SessionStart(p) PROVE LocksOK'
    <3>1. loc'[p].id = loc[p].id
      BY <1>0, <2>1 DEF SessionStart, Local
    <3>2. QED BY <1>0, <2>1, <3>1, LocksMove DEF OnWorkspace, SessionStart
  <2>2. ASSUME \/ \E i \in Ids : SessionRequest(p, i)
               \/ RunCommits(p) \/ SessionEnds(p)
        PROVE  LocksOK'
    BY <1>0, <2>2, LocksMove DEF OnWorkspace, SessionRequest, RunCommits, SessionEnds
  <2>3. QED BY <1>4, <2>1, <2>2 DEF Session
<1>5. CASE Delete(p)
  BY <1>0, <1>5, LocksMove DEF Delete, DeleteRequest, DeleteBegin, DeleteRefused, DeleteReturns
<1>6. CASE Recover(p)
  BY <1>0, <1>6, LocksMove DEF Recover, RecoverBegin, RecoverRemoves, RecoverBreaksOff,
     RecoverSwept, RecoverCreate, RecoverReset, RecoverRaises, RecoverFinish, Settle, NextReceipt
<1>7. QED BY <1>1, <1>2, <1>3, <1>4, <1>5, <1>6 DEF Process

\* A step of p takes, keeps or gives back the lifecycle lock and the lock of
\* its own workspace as its control point says.
LEMMA ReleasedMove ==
  ASSUME Inductive, NEW p \in Procs, Others(p),
         \/ lifecycle' = lifecycle /\ (pc[p] \in LifecycleSteps => pc'[p] \in LifecycleSteps)
         \/ lifecycle' = None
         \/ lifecycle' = p /\ pc'[p] \in LifecycleSteps,
         \/ /\ wsLock' = wsLock
            /\ pc[p] \in WorkspaceSteps => pc'[p] \in WorkspaceSteps /\ loc'[p].id = loc[p].id
         \/ wsLock' = [wsLock EXCEPT ![loc[p].id] = None]
         \/ /\ wsLock' = [wsLock EXCEPT ![loc[p].id] = p] /\ pc[p] \notin WorkspaceSteps
            /\ pc'[p] \in WorkspaceSteps /\ loc'[p].id = loc[p].id
  PROVE  LocksReleased'
<1>0. /\ wsLock \in [Ids -> Procs \cup {None}] /\ lifecycle \in Procs \cup {None} /\ LocksReleased
  BY DEF Inductive, TypeOK
<1>1. \A q \in Procs \ {p} : pc'[q] = pc[q] /\ loc'[q] = loc[q]
  BY DEF Others
<1>2. lifecycle' # None => pc'[lifecycle'] \in LifecycleSteps
  BY <1>0, <1>1 DEF LocksReleased
<1>3. ASSUME NEW i \in Ids, wsLock'[i] # None
      PROVE  pc'[wsLock'[i]] \in WorkspaceSteps /\ loc'[wsLock'[i]].id = i
  <2>1. CASE wsLock'[i] = wsLock[i]
    <3>1. pc[wsLock[i]] \in WorkspaceSteps /\ loc[wsLock[i]].id = i /\ wsLock[i] \in Procs
      BY <1>0, <1>3, <2>1 DEF LocksReleased
    <3>2. CASE wsLock[i] # p
      BY <1>1, <2>1, <3>1, <3>2
    <3>3. CASE wsLock[i] = p
      BY <1>0, <1>3, <2>1, <3>1, <3>3
    <3>4. QED BY <3>2, <3>3
  <2>2. CASE wsLock'[i] # wsLock[i]
    BY <1>0, <1>3, <2>2
  <2>3. QED BY <2>1, <2>2
<1>4. QED BY <1>2, <1>3 DEF LocksReleased

LEMMA LocksGivenBack ==
  ASSUME Inductive, NEW p \in Procs, Process(p) PROVE LocksReleased'
<1> USE DEF Goto, Return, LockLifecycle, UnlockLifecycle, LockWorkspace, UnlockWorkspace,
            UnlockBoth, shared, At
<1>0. /\ Others(p)
      /\ pc \in [Procs -> Steps] /\ loc \in [Procs -> Local]
      /\ pc[p] \in OnWorkspace => loc[p].id \in Ids
  BY OthersStand DEF Inductive, TypeOK, ControlOK, Fits
<1>1. CASE Create(p)
  BY <1>0, <1>1, ReleasedMove DEF Create, CreateRequest, CreateBegin, CreateRefused,
     CreateStage, CreateExtracted, CreatePublish, CreateFails, CreateFinish
<1>2. CASE Reset(p)
  <2>1. ASSUME \/ \E i \in Ids : ResetRequest(p, i)
               \/ ResetRefused(p) \/ ResetMismatch(p)
        PROVE  LocksReleased'
    BY <1>0, <2>1, ReleasedMove DEF ResetRequest, ResetRefused, ResetMismatch
  <2>2. ASSUME ResetFails(p) \/ ResetBreaksOff(p) \/ ResetFinish(p) PROVE LocksReleased'
    BY <1>0, <2>2, ReleasedMove DEF ResetFails, ResetBreaksOff, ResetFinish
  <2>3. ASSUME \/ \E o \in OpIds : ResetBegin(p, o)
               \/ \E d \in Dirs : ResetStage(p, d)
               \/ ResetExtracted(p) \/ ResetExchange(p) \/ ResetNote(p) \/ ResetClean(p)
        PROVE  LocksReleased'
    <3>1. loc'[p].id = loc[p].id
      BY <1>0, <2>3 DEF ResetBegin, ResetStage, ResetExtracted, ResetExchange, ResetNote,
         ResetClean, Local
    <3>2. QED
      BY <1>0, <2>3, <3>1, ReleasedMove DEF ResetBegin, ResetStage,
         ResetExtracted, ResetExchange, ResetNote, ResetClean
  <2>4. QED BY <1>2, <2>1, <2>2, <2>3 DEF Reset
<1>3. CASE Remove(p) \/ TakeLifecycle(p) \/ NotFound(p)
  <2>1. ASSUME RemoveUnpublish(p) PROVE LocksReleased'
    <3>1. loc'[p].id = loc[p].id
      BY <1>0, <2>1 DEF RemoveUnpublish, Local
    <3>2. QED BY <1>0, <2>1, <3>1, ReleasedMove DEF RemoveUnpublish
  <2>2. ASSUME \/ \E i \in Ids : RemoveRequest(p, i)
               \/ RemoveRefused(p) \/ RemoveFinish(p) \/ TakeLifecycle(p) \/ NotFound(p)
        PROVE  LocksReleased'
    BY <1>0, <2>2, ReleasedMove DEF RemoveRequest, RemoveRefused, RemoveFinish,
       TakeLifecycle, NotFound
  <2>3. QED BY <1>3, <2>1, <2>2 DEF Remove
<1>4. CASE Session(p)
  <2>1. ASSUME SessionStart(p) PROVE LocksReleased'
    <3>1. loc'[p].id = loc[p].id
      BY <1>0, <2>1 DEF SessionStart, Local
    <3>2. QED BY <1>0, <2>1, <3>1, ReleasedMove DEF SessionStart
  <2>2. ASSUME \/ \E i \in Ids : SessionRequest(p, i)
               \/ RunCommits(p) \/ SessionEnds(p)
        PROVE  LocksReleased'
    BY <1>0, <2>2, ReleasedMove DEF SessionRequest, RunCommits, SessionEnds
  <2>3. QED BY <1>4, <2>1, <2>2 DEF Session
<1>5. CASE Delete(p)
  BY <1>0, <1>5, ReleasedMove DEF Delete, DeleteRequest, DeleteBegin, DeleteRefused, DeleteReturns
<1>6. CASE Recover(p)
  BY <1>0, <1>6, ReleasedMove DEF Recover, RecoverBegin, RecoverRemoves, RecoverBreaksOff,
     RecoverSwept, RecoverCreate, RecoverReset, RecoverRaises, RecoverFinish, Settle, NextReceipt
<1>7. QED BY <1>1, <1>2, <1>3, <1>4, <1>5, <1>6 DEF Process

-----------------------------------------------------------------------------
(* Trees, names and what a running command relies on.                      *)

Content == TreesOK /\ UniqueNames /\ StepsOK

StepOK(q) == HoldsStaging(q) /\ HoldsWorkspace(q) /\ MayPublish(q) /\ MayExchange(q)

\* Only one process works under the lifecycle lock.
LEMMA Alone ==
  ASSUME Inductive, NEW p \in Procs, NEW q \in Procs, q # p,
         pc[p] \in LifecycleSteps \/ lifecycle = None
  PROVE  pc[q] \notin LifecycleSteps
BY NoneIsNew DEF Inductive, LocksOK

\* Two processes never hold the lock of the same workspace.
LEMMA Apart ==
  ASSUME Inductive, NEW p \in Procs, NEW q \in Procs, q # p,
         pc[q] \in WorkspaceSteps,
         pc[p] \in WorkspaceSteps \/ wsLock[loc[p].id] = None
  PROVE  loc[q].id # loc[p].id
BY NoneIsNew DEF Inductive, LocksOK

\* A session is undisturbed while its workspace is.
LEMMA SessionStands ==
  ASSUME Inductive, NEW q \in Procs, pc'[q] = pc[q], loc'[q] = loc[q],
         pc[q] \notin LifecycleSteps,
         pc[q] \in InSession => /\ wsDir'[loc[q].id] = wsDir[loc[q].id]
                                /\ meta'[wsDir[loc[q].id]] = meta[wsDir[loc[q].id]]
  PROVE  StepOK(q)'
<1>1. StepOK(q)
  BY DEF Inductive, StepsOK, StepOK
<1>2. QED
  BY <1>1 DEF StepOK, HoldsStaging, HoldsWorkspace, MayPublish, MayExchange, InStaging,
     InSession, Exists, Record

\* No workspace and no staging entry changes: the step is about locks, bases,
\* containers or a receipt.
LEMMA FilesStand ==
  ASSUME Inductive, UNCHANGED <<wsDir, staging, meta, valid>>
  PROVE  TreesOK' /\ UniqueNames'
<1>1. TreesOK /\ UniqueNames
  BY DEF Inductive
<1>2. QED BY <1>1 DEF TreesOK, UniqueNames, Exists, Record

LEMMA ProcessStands ==
  ASSUME Inductive, NEW q \in Procs, pc'[q] = pc[q], loc'[q] = loc[q],
         UNCHANGED <<wsDir, staging, meta, valid, receipts>>
  PROVE  StepOK(q)'
<1>1. StepOK(q)
  BY DEF Inductive, StepsOK, StepOK
<1>2. QED
  BY <1>1 DEF StepOK, HoldsStaging, HoldsWorkspace, MayPublish, MayExchange, At,
     Exists, Record, NameTaken, NextRevision

\* A process that ended its command relies on nothing.
LEMMA NothingHeld ==
  ASSUME NEW q \in Procs, pc'[q] \in {"idle", "create_wait", "create_finish", "reset_wait",
           "reset_mismatch", "remove_wait", "run_wait", "build_wait", "delete_wait",
           "delete_exec", "recover_sweep", "recover_receipts", "create_check"}
  PROVE  StepOK(q)'
BY DEF StepOK, HoldsStaging, HoldsWorkspace, MayPublish, MayExchange, InStaging, InSession

\* A step of p that changes no file and no receipt.
LEMMA Harmless ==
  ASSUME Inductive, NEW p \in Procs, Others(p), StepOK(p)',
         UNCHANGED <<wsDir, staging, meta, valid, receipts>>
  PROVE  Content'
<1>1. ASSUME NEW q \in Procs PROVE StepOK(q)'
  BY <1>1, ProcessStands DEF Others
<1>2. QED BY <1>1, FilesStand DEF Content, StepsOK, StepOK

\* A step of p under the lifecycle lock that changes files or receipts, but no
\* workspace a session is on.
LEMMA UnderLifecycle ==
  ASSUME Inductive, NEW p \in Procs, Others(p), StepOK(p)', TreesOK', UniqueNames',
         pc[p] \in LifecycleSteps \/ lifecycle = None,
         \A q \in Procs \ {p} : pc[q] \in InSession =>
           /\ wsDir'[loc[q].id] = wsDir[loc[q].id]
           /\ meta'[wsDir[loc[q].id]] = meta[wsDir[loc[q].id]]
  PROVE  Content'
<1>1. ASSUME NEW q \in Procs PROVE StepOK(q)'
  <2>1. CASE q = p
    BY <2>1
  <2>2. CASE q # p
    BY <2>2, Alone, SessionStands DEF Others
  <2>3. QED BY <2>1, <2>2
<1>2. QED BY <1>1 DEF Content, StepsOK, StepOK

\* Two published workspaces, or a workspace and a staging entry, are two
\* directories.
LEMMA TreesApart ==
  ASSUME Inductive, NEW i \in Ids, Exists(i)
  PROVE  /\ wsDir[i] \in Dirs /\ wsDir[i] \in valid /\ wsDir[i] \notin staging
         /\ \A j \in Ids : wsDir[i] = wsDir[j] => i = j
         /\ meta[wsDir[i]] \in Metadata /\ meta[wsDir[i]].id = i
BY RecordTyped DEF Inductive, TreesOK, Record

\* Staging entries change, and trees published stay as they are.
LEMMA PublishedStand ==
  ASSUME Inductive, UNCHANGED wsDir,
         \A i \in Ids : Exists(i) =>
           /\ wsDir[i] \in valid' \ staging'
           /\ meta'[wsDir[i]] = meta[wsDir[i]]
  PROVE  TreesOK' /\ UniqueNames'
<1>1. TreesOK /\ UniqueNames
  BY DEF Inductive
<1>2. QED BY <1>1 DEF TreesOK, UniqueNames, Exists, Record

LEMMA CreateContent ==
  ASSUME Inductive, NEW p \in Procs, Create(p) PROVE Content'
<1>0. /\ Others(p) /\ pc \in [Procs -> Steps] /\ loc \in [Procs -> Local]
      /\ meta \in [Dirs -> Metadata \cup {None}] /\ wsDir \in [Ids -> Dirs \cup {None}]
      /\ StepOK(p) /\ Fits(pc[p], loc[p], receipts)
  BY OthersStand DEF Process, Inductive, TypeOK, ControlOK, StepsOK, StepOK
<1>1. ASSUME \/ \E n \in Names, t \in Targets : CreateRequest(p, n, t)
             \/ CreateRefused(p)
      PROVE  Content'
  <2>1. pc'[p] \in {"create_wait", "idle"} /\ UNCHANGED shared
    BY <1>0, <1>1 DEF CreateRequest, CreateRefused, Goto, Return
  <2>2. QED BY <1>0, <2>1, NothingHeld, Harmless DEF shared
<1>2. ASSUME \/ \E o \in OpIds : CreateBegin(p, o)
             \/ CreateFails(p) \/ CreateFinish(p)
      PROVE  Content'
  <2>1. /\ pc'[p] \in {"create_check", "idle"} /\ UNCHANGED <<wsDir, staging, meta, valid>>
        /\ pc[p] \in LifecycleSteps \/ lifecycle = None
    BY <1>0, <1>2 DEF CreateBegin, CreateFails, CreateFinish, Goto, Return, LockLifecycle
  <2>2. QED BY <1>0, <2>1, NothingHeld, FilesStand, UnderLifecycle
<1>3. ASSUME NEW d \in Dirs, CreateStage(p, d) PROVE Content'
  <2>1. /\ pc[p] = "create_check" /\ pc'[p] = "create_extract" /\ staging' = staging \cup {d}
        /\ loc'[p].name = loc[p].name /\ loc'[p].dir = d
        /\ UNCHANGED <<wsDir, meta, valid>>
        /\ d \notin Published /\ ~NameTaken(loc[p].name)
    BY <1>0, <1>3 DEF CreateStage, Goto, FreshDir, Local
  <2>2. TreesOK' /\ UniqueNames'
    <3>1. \A i \in Ids : Exists(i) => wsDir[i] # d
      BY <2>1 DEF Published, Exists
    <3>2. QED BY <2>1, <3>1, TreesApart, PublishedStand
  <2>3. ~NameTaken(loc[p].name)'
    BY <2>1 DEF NameTaken, Exists, Record
  <2>4. StepOK(p)'
    BY <2>1, <2>3 DEF StepOK, HoldsStaging, HoldsWorkspace, MayPublish, MayExchange,
       InStaging, InSession
  <2>5. QED BY <1>0, <2>1, <2>2, <2>4, UnderLifecycle
<1>4. ASSUME NEW i \in Ids, CreateExtracted(p, i) PROVE Content'
  <2> DEFINE d == loc[p].dir
             m == [id |-> i, name |-> loc[p].name, target |-> loc[p].target, gen |-> 0]
  <2>1. /\ pc[p] = "create_extract" /\ pc'[p] = "create_publish"
        /\ loc'[p].name = loc[p].name /\ loc'[p].target = loc[p].target
        /\ loc'[p].dir = d /\ loc'[p].id = i
        /\ valid' = valid \cup {d} /\ meta' = [meta EXCEPT ![d] = m]
        /\ UNCHANGED <<wsDir, staging>>
    BY <1>0, <1>4 DEF CreateExtracted, Goto, Local
  <2>2. d \in staging /\ d \in Dirs /\ ~NameTaken(loc[p].name)
    BY <1>0, <2>1 DEF StepOK, HoldsStaging, MayPublish, InStaging, Fits
  <2>3. \A j \in Ids : Exists(j) => wsDir[j] \in valid' \ staging' /\ meta'[wsDir[j]] = meta[wsDir[j]]
    BY <1>0, <2>1, <2>2, TreesApart
  <2>4. TreesOK' /\ UniqueNames'
    BY <2>1, <2>3, PublishedStand
  <2>5. ~NameTaken(loc[p].name)'
    BY <2>1, <2>2, <2>3 DEF NameTaken, Exists, Record
  <2>6. meta'[d] = m /\ d \in valid'
    BY <1>0, <2>1, <2>2
  <2>7. StepOK(p)'
    BY <2>1, <2>2, <2>5, <2>6 DEF StepOK, HoldsStaging, HoldsWorkspace, MayPublish, MayExchange,
       InStaging, InSession
  <2>8. \A q \in Procs \ {p} : pc[q] \in InSession => Exists(loc[q].id) /\ loc[q].id \in Ids
    BY DEF Inductive, StepsOK, HoldsWorkspace, ControlOK, Fits, OnWorkspace, InSession
  <2>9. QED BY <1>0, <2>1, <2>3, <2>4, <2>7, <2>8, UnderLifecycle
<1>5. ASSUME CreatePublish(p) PROVE Content'
  <2> DEFINE i == loc[p].id
             d == loc[p].dir
  <2>1. /\ pc[p] = "create_publish" /\ pc'[p] = "create_finish"
        /\ ~Exists(i) /\ wsDir' = [wsDir EXCEPT ![i] = d] /\ staging' = staging \ {d}
        /\ UNCHANGED <<meta, valid, loc>>
    BY <1>0, <1>5 DEF CreatePublish, Goto
  <2>2. /\ i \in Ids /\ d \in Dirs /\ d \in staging /\ d \in valid /\ ~NameTaken(loc[p].name)
        /\ loc[p].name \in Names /\ loc[p].target \in Targets
        /\ meta[d] = [id |-> i, name |-> loc[p].name, target |-> loc[p].target, gen |-> 0]
    BY <1>0, <2>1 DEF StepOK, HoldsStaging, MayPublish, InStaging, Fits, NamedSteps,
       TargetedSteps, OnWorkspace
  <2>3. /\ wsDir'[i] = d /\ d # None
        /\ \A j \in Ids \ {i} : wsDir'[j] = wsDir[j]
        /\ \A j \in Ids : Exists(j) => j # i /\ wsDir[j] # d
    BY <1>0, <2>1, <2>2, TreesApart, NoneIsNew
  <2>4. TreesOK'
    <3>1. ASSUME NEW j \in Ids, Exists(j)'
          PROVE  /\ wsDir'[j] \in valid' \ staging'
                 /\ meta'[wsDir'[j]] \in Metadata /\ meta'[wsDir'[j]].id = j
      <4>1. CASE j = i
        BY <2>1, <2>2, <2>3, <4>1 DEF Metadata
      <4>2. CASE j # i
        BY <2>1, <2>3, <3>1, <4>2, TreesApart DEF Exists
      <4>3. QED BY <4>1, <4>2
    <3>2. ASSUME NEW j \in Ids, NEW k \in Ids, Exists(j)', wsDir'[j] = wsDir'[k]
          PROVE  j = k
      BY <2>2, <2>3, <3>2, TreesApart, NoneIsNew DEF Exists
    <3>3. QED BY <3>1, <3>2 DEF TreesOK, Record
  <2>5. UniqueNames'
    <3>1. ASSUME NEW j \in Ids, j # i, Exists(j)' PROVE Record(j)'.name # loc[p].name
      BY <2>1, <2>2, <2>3, <3>1 DEF NameTaken, Exists, Record
    <3>2. Record(i)'.name = loc[p].name
      BY <2>1, <2>2, <2>3 DEF Record
    <3>3. ASSUME NEW j \in Ids, NEW k \in Ids, j # i, k # i, Exists(j)', Exists(k)',
                 Record(j)'.name = Record(k)'.name
          PROVE  j = k
      BY <2>1, <2>3, <3>3 DEF Inductive, UniqueNames, Exists, Record
    <3>4. QED BY <2>1, <2>2, <3>1, <3>2, <3>3 DEF UniqueNames, Exists, Record
  <2>6. \A q \in Procs \ {p} : pc[q] \in InSession => Exists(loc[q].id) /\ loc[q].id \in Ids
    BY DEF Inductive, StepsOK, HoldsWorkspace, ControlOK, Fits, OnWorkspace, InSession
  <2>7. QED BY <1>0, <2>1, <2>3, <2>4, <2>5, <2>6, NothingHeld, UnderLifecycle
<1>6. QED BY <1>1, <1>2, <1>3, <1>4, <1>5 DEF Create

\* Workspaces that other processes have a session on are published.
LEMMA SessionsPublished ==
  ASSUME Inductive, NEW q \in Procs, pc[q] \in InSession
  PROVE  loc[q].id \in Ids /\ Exists(loc[q].id)
BY DEF Inductive, StepsOK, HoldsWorkspace, ControlOK, Fits, OnWorkspace, InSession

LEMMA ResetContent ==
  ASSUME Inductive, NEW p \in Procs, Reset(p) PROVE Content'
<1>0. /\ Others(p) /\ pc \in [Procs -> Steps] /\ loc \in [Procs -> Local]
      /\ meta \in [Dirs -> Metadata \cup {None}] /\ wsDir \in [Ids -> Dirs \cup {None}]
      /\ receipts \in [OpIds -> Receipt \cup {None}]
      /\ StepOK(p) /\ Fits(pc[p], loc[p], receipts)
  BY OthersStand DEF Process, Inductive, TypeOK, ControlOK, StepsOK, StepOK
<1>1. ASSUME \/ \E i \in Ids : ResetRequest(p, i)
             \/ ResetMismatch(p)
      PROVE  Content'
  <2>1. pc'[p] \in {"reset_wait", "idle"} /\ UNCHANGED shared
    BY <1>0, <1>1 DEF ResetRequest, ResetMismatch, Goto, Return
  <2>2. QED BY <1>0, <2>1, NothingHeld, Harmless DEF shared
<1>2. ASSUME ResetRefused(p) \/ ResetFails(p) \/ ResetFinish(p) PROVE Content'
  <2>1. /\ pc'[p] \in {"reset_mismatch", "idle"} /\ UNCHANGED <<wsDir, staging, meta, valid>>
        /\ pc[p] \in LifecycleSteps
    BY <1>0, <1>2 DEF ResetRefused, ResetFails, ResetFinish, Goto, Return
  <2>2. QED BY <1>0, <2>1, NothingHeld, FilesStand, UnderLifecycle
<1>3. ASSUME NEW o \in OpIds, ResetBegin(p, o) PROVE Content'
  <2>1. /\ pc[p] = "reset_locked" /\ pc'[p] = "reset_stage" /\ loc'[p].id = loc[p].id
        /\ loc'[p].op = o /\ UNCHANGED <<wsDir, staging, meta, valid>>
    BY <1>0, <1>3 DEF ResetBegin, Goto, Local
  <2>2. receipts'[o].before = Record(loc[p].id).gen
    BY <1>0, <1>3 DEF ResetBegin, StartReceipt, Started
  <2>3. Exists(loc[p].id)
    BY <1>0, <2>1 DEF StepOK, HoldsWorkspace
  <2>4. StepOK(p)'
    BY <2>1, <2>2, <2>3 DEF StepOK, HoldsStaging, HoldsWorkspace, MayPublish, MayExchange,
       InStaging, InSession, Exists, Record
  <2>5. QED BY <1>0, <2>1, <2>4, FilesStand, UnderLifecycle
<1>4. ASSUME NEW d \in Dirs, ResetStage(p, d) PROVE Content'
  <2>1. /\ pc[p] = "reset_stage" /\ pc'[p] = "reset_extract" /\ staging' = staging \cup {d}
        /\ loc'[p].id = loc[p].id /\ loc'[p].op = loc[p].op /\ loc'[p].dir = d
        /\ UNCHANGED <<wsDir, meta, valid, receipts>> /\ d \notin Published
    BY <1>0, <1>4 DEF ResetStage, Goto, FreshDir, Local
  <2>2. TreesOK' /\ UniqueNames'
    <3>1. \A i \in Ids : Exists(i) => wsDir[i] # d
      BY <2>1 DEF Published, Exists
    <3>2. QED BY <2>1, <3>1, TreesApart, PublishedStand
  <2>3. Exists(loc[p].id) /\ receipts[loc[p].op].before = Record(loc[p].id).gen
    BY <1>0, <2>1 DEF StepOK, HoldsWorkspace, MayExchange
  <2>4. StepOK(p)'
    BY <2>1, <2>3 DEF StepOK, HoldsStaging, HoldsWorkspace, MayPublish, MayExchange,
       InStaging, InSession, Exists, Record
  <2>5. QED BY <1>0, <2>1, <2>2, <2>4, UnderLifecycle
<1>5. ASSUME ResetExtracted(p) PROVE Content'
  <2> DEFINE i == loc[p].id
             d == loc[p].dir
             o == loc[p].op
             m == NextRevision(i, receipts[o].before)
  <2>1. /\ pc[p] = "reset_extract" /\ pc'[p] = "reset_exchange"
        /\ valid' = valid \cup {d} /\ meta' = [meta EXCEPT ![d] = m]
        /\ receipts' = [receipts EXCEPT ![o] = Phase(o, "staged")]
        /\ UNCHANGED <<wsDir, staging, loc>>
    BY <1>0, <1>5 DEF ResetExtracted, Goto
  <2>2. /\ i \in Ids /\ d \in Dirs /\ o \in OpIds /\ receipts[o] \in Receipt
        /\ Exists(i) /\ d \in staging /\ receipts[o].before = Record(i).gen
    BY <1>0, <2>1 DEF StepOK, HoldsStaging, HoldsWorkspace, MayExchange, InStaging, Fits,
       OnWorkspace, RecordedSteps
  <2>3. \A j \in Ids : Exists(j) => wsDir[j] \in valid' \ staging' /\ meta'[wsDir[j]] = meta[wsDir[j]]
    BY <1>0, <2>1, <2>2, TreesApart
  <2>4. TreesOK' /\ UniqueNames'
    BY <2>1, <2>3, PublishedStand
  <2>5. receipts'[o].before = receipts[o].before
    BY <1>0, <2>1, <2>2 DEF Phase, Receipt
  <2>6. meta'[d] = m /\ d \in valid' /\ meta'[wsDir[i]] = meta[wsDir[i]]
    BY <1>0, <2>1, <2>2, <2>3
  <2>7. StepOK(p)'
    BY <2>1, <2>2, <2>5, <2>6 DEF StepOK, HoldsStaging, HoldsWorkspace, MayPublish, MayExchange,
       InStaging, InSession, Exists, Record, NextRevision
  <2>8. QED BY <1>0, <2>1, <2>3, <2>4, <2>7, SessionsPublished, UnderLifecycle
<1>6. ASSUME ResetExchange(p) PROVE Content'
  <2> DEFINE i == loc[p].id
             d == loc[p].dir
             old == wsDir[loc[p].id]
  <2>1. /\ pc[p] = "reset_exchange" /\ pc'[p] = "reset_note"
        /\ wsDir' = [wsDir EXCEPT ![i] = d] /\ staging' = (staging \ {d}) \cup {old}
        /\ loc'[p].id = loc[p].id /\ loc'[p].dir = old
        /\ UNCHANGED <<meta, valid>>
    BY <1>0, <1>6 DEF ResetExchange, Goto, Local
  <2>2. /\ i \in Ids /\ d \in Dirs /\ loc[p].op \in OpIds /\ receipts[loc[p].op] \in Receipt
        /\ Exists(i) /\ d \in staging /\ d \in valid
        /\ meta[d] = NextRevision(i, receipts[loc[p].op].before)
    BY <1>0, <2>1 DEF StepOK, HoldsStaging, HoldsWorkspace, MayExchange, InStaging, Fits,
       OnWorkspace, RecordedSteps
  <2>3. /\ meta[d] \in Metadata /\ meta[d].id = i /\ meta[d].name = Record(i).name
    BY <2>2, RevisionTyped, TreesApart DEF NextRevision, Record, Metadata, Receipt
  <2>4. /\ wsDir'[i] = d /\ d # None /\ d # old
        /\ \A j \in Ids \ {i} : wsDir'[j] = wsDir[j]
        /\ \A j \in Ids : Exists(j) => wsDir[j] # d /\ (j # i => wsDir[j] # old)
    BY <1>0, <2>1, <2>2, TreesApart, NoneIsNew
  <2>5. \A j \in Ids : Exists(j)' <=> Exists(j)
    BY <2>2, <2>4 DEF Exists
  <2>6. TreesOK'
    <3>1. ASSUME NEW j \in Ids, Exists(j)
          PROVE  /\ wsDir'[j] \in valid' \ staging'
                 /\ meta'[wsDir'[j]] \in Metadata /\ meta'[wsDir'[j]].id = j
      <4>1. CASE j = i
        BY <2>1, <2>2, <2>3, <2>4, <4>1
      <4>2. CASE j # i
        BY <2>1, <2>4, <3>1, <4>2, TreesApart
      <4>3. QED BY <4>1, <4>2
    <3>2. ASSUME NEW j \in Ids, NEW k \in Ids, Exists(j), wsDir'[j] = wsDir'[k]
          PROVE  j = k
      BY <2>4, <3>2, TreesApart, NoneIsNew DEF Exists
    <3>3. QED BY <2>5, <3>1, <3>2 DEF TreesOK, Record
  <2>7. UniqueNames'
    <3>1. ASSUME NEW j \in Ids, Exists(j) PROVE meta'[wsDir'[j]].name = Record(j).name
      BY <2>1, <2>3, <2>4 DEF Record
    <3>2. QED BY <2>5, <3>1 DEF Inductive, UniqueNames, Record
  <2>8. StepOK(p)'
    BY <2>1, <2>2, <2>5 DEF StepOK, HoldsStaging, HoldsWorkspace, MayPublish, MayExchange,
       InStaging, InSession
  <2>9. \A q \in Procs \ {p} : pc[q] \in InSession =>
          loc[q].id # i /\ wsDir'[loc[q].id] = wsDir[loc[q].id]
    BY <2>1, <2>4, SessionsPublished, Apart DEF InSession
  <2>10. QED BY <1>0, <2>1, <2>6, <2>7, <2>8, <2>9, UnderLifecycle
<1>7. ASSUME ResetNote(p) PROVE Content'
  <2>1. /\ pc[p] = "reset_note" /\ pc'[p] = "reset_clean"
        /\ UNCHANGED <<wsDir, staging, meta, valid, loc>>
    BY <1>0, <1>7 DEF ResetNote, Goto
  <2>2. StepOK(p)'
    BY <1>0, <2>1 DEF StepOK, HoldsStaging, HoldsWorkspace, MayPublish, MayExchange,
       InStaging, InSession, Exists
  <2>3. QED BY <1>0, <2>1, <2>2, FilesStand, UnderLifecycle
<1>8. ASSUME ResetClean(p) PROVE Content'
  <2> DEFINE d == loc[p].dir
  <2>1. /\ pc[p] = "reset_clean" /\ pc'[p] = "reset_finish" /\ UNCHANGED <<wsDir, loc>>
        /\ staging' = staging \ {d} /\ valid' = valid \ {d}
        /\ meta' = [meta EXCEPT ![d] = None]
    BY <1>0, <1>8 DEF ResetClean, RemoveTree, Goto
  <2>2. d \in staging /\ Exists(loc[p].id)
    BY <1>0, <2>1 DEF StepOK, HoldsStaging, HoldsWorkspace, InStaging
  <2>3. \A j \in Ids : Exists(j) => wsDir[j] \in valid' \ staging' /\ meta'[wsDir[j]] = meta[wsDir[j]]
    BY <1>0, <2>1, <2>2, TreesApart
  <2>4. TreesOK' /\ UniqueNames'
    BY <2>1, <2>3, PublishedStand
  <2>5. StepOK(p)'
    BY <2>1, <2>2 DEF StepOK, HoldsStaging, HoldsWorkspace, MayPublish, MayExchange,
       InStaging, InSession, Exists
  <2>6. QED BY <1>0, <2>1, <2>3, <2>4, <2>5, SessionsPublished, UnderLifecycle
<1>9. ASSUME ResetBreaksOff(p) PROVE Content'
  <2> DEFINE d == loc[p].dir
  <2>1. /\ pc[p] \in {"reset_note", "reset_finish", "reset_clean"} /\ pc'[p] = "idle"
        /\ UNCHANGED <<wsDir, staging, meta>>
        /\ valid' = valid \/ (pc[p] = "reset_clean" /\ valid' = valid \ {d})
    BY <1>0, <1>9 DEF ResetBreaksOff, RemovePartOf, Return
  <2>2. pc[p] = "reset_clean" => d \in staging
    BY <1>0 DEF StepOK, HoldsStaging, InStaging
  <2>3. \A j \in Ids : Exists(j) => wsDir[j] \in valid' \ staging' /\ meta'[wsDir[j]] = meta[wsDir[j]]
    BY <2>1, <2>2, TreesApart
  <2>4. TreesOK' /\ UniqueNames'
    BY <2>1, <2>3, PublishedStand
  <2>5. QED BY <1>0, <2>1, <2>4, NothingHeld, UnderLifecycle
<1>10. QED
  BY <1>1, <1>2, <1>3, <1>4, <1>5, <1>6, <1>7, <1>8, <1>9 DEF Reset

LEMMA RemoveContent ==
  ASSUME Inductive, NEW p \in Procs, Remove(p) \/ TakeLifecycle(p) \/ NotFound(p)
  PROVE  Content'
<1>0. /\ Others(p) /\ pc \in [Procs -> Steps] /\ loc \in [Procs -> Local]
      /\ meta \in [Dirs -> Metadata \cup {None}] /\ wsDir \in [Ids -> Dirs \cup {None}]
      /\ StepOK(p) /\ Fits(pc[p], loc[p], receipts)
  BY OthersStand DEF Process, Inductive, TypeOK, ControlOK, StepsOK, StepOK
<1>1. ASSUME \/ \E i \in Ids : RemoveRequest(p, i)
             \/ RemoveRefused(p) \/ NotFound(p)
      PROVE  Content'
  <2>1. /\ pc'[p] \in {"remove_wait", "idle"}
        /\ UNCHANGED <<wsDir, staging, meta, valid, receipts>>
    BY <1>0, <1>1 DEF RemoveRequest, RemoveRefused, NotFound, Goto, Return, shared
  <2>2. QED BY <1>0, <2>1, NothingHeld, Harmless
<1>2. ASSUME TakeLifecycle(p) PROVE Content'
  <2>1. /\ pc'[p] \in {"reset_locked", "remove_locked"} /\ Exists(loc[p].id)
        /\ UNCHANGED <<wsDir, staging, meta, valid, receipts, loc>>
    BY <1>0, <1>2 DEF TakeLifecycle, Goto
  <2>2. StepOK(p)'
    BY <2>1 DEF StepOK, HoldsStaging, HoldsWorkspace, MayPublish, MayExchange,
       InStaging, InSession, Exists
  <2>3. QED BY <1>0, <2>1, <2>2, Harmless
<1>3. ASSUME RemoveUnpublish(p) PROVE Content'
  <2> DEFINE i == loc[p].id
             old == wsDir[loc[p].id]
  <2>1. /\ pc[p] = "remove_locked" /\ pc'[p] = "remove_clean" /\ wsLock[i] = None
        /\ wsDir' = [wsDir EXCEPT ![i] = None] /\ staging' = staging \cup {old}
        /\ loc'[p].dir = old /\ UNCHANGED <<meta, valid>>
    BY <1>0, <1>3 DEF RemoveUnpublish, LockWorkspace, Goto, Local
  <2>2. i \in Ids /\ Exists(i)
    BY <1>0, <2>1 DEF StepOK, HoldsWorkspace, Fits, OnWorkspace
  <2>3. /\ wsDir'[i] = None
        /\ \A j \in Ids \ {i} : wsDir'[j] = wsDir[j] /\ (Exists(j) => wsDir[j] # old)
    BY <1>0, <2>1, <2>2, TreesApart
  <2>4. ASSUME NEW j \in Ids, Exists(j)'
        PROVE  j # i /\ Exists(j) /\ wsDir'[j] = wsDir[j] /\ Record(j)' = Record(j)
    BY <2>1, <2>3, <2>4 DEF Exists, Record
  <2>5. TreesOK'
    <3>1. ASSUME NEW j \in Ids, Exists(j)'
          PROVE  /\ wsDir'[j] \in valid' \ staging'
                 /\ Record(j)' \in Metadata /\ Record(j)'.id = j
      BY <2>1, <2>3, <2>4, <3>1, TreesApart DEF Record
    <3>2. ASSUME NEW j \in Ids, NEW k \in Ids, Exists(j)', wsDir'[j] = wsDir'[k]
          PROVE  j = k
      BY <2>3, <2>4, <3>2, TreesApart DEF Exists
    <3>3. QED BY <3>1, <3>2 DEF TreesOK
  <2>6. UniqueNames'
    BY <2>4 DEF Inductive, UniqueNames
  <2>7. StepOK(p)'
    BY <2>1 DEF StepOK, HoldsStaging, HoldsWorkspace, MayPublish, MayExchange, InStaging,
       InSession
  <2>8. \A q \in Procs \ {p} : pc[q] \in InSession =>
          loc[q].id # i /\ wsDir'[loc[q].id] = wsDir[loc[q].id]
    BY <2>1, <2>3, SessionsPublished, Apart DEF InSession
  <2>9. QED BY <1>0, <2>1, <2>5, <2>6, <2>7, <2>8, UnderLifecycle
<1>4. ASSUME RemoveFinish(p) PROVE Content'
  <2> DEFINE d == loc[p].dir
  <2>1. /\ pc[p] = "remove_clean" /\ pc'[p] = "idle" /\ UNCHANGED wsDir
        /\ staging' \subseteq staging /\ valid' = valid \ {d}
        /\ meta' = meta \/ meta' = [meta EXCEPT ![d] = None]
    BY <1>0, <1>4 DEF RemoveFinish, RemoveTree, RemovePartOf, Return
  <2>2. d \in staging
    BY <1>0, <2>1 DEF StepOK, HoldsStaging, InStaging
  <2>3. \A j \in Ids : Exists(j) => wsDir[j] \in valid' \ staging' /\ meta'[wsDir[j]] = meta[wsDir[j]]
    BY <1>0, <2>1, <2>2, TreesApart
  <2>4. TreesOK' /\ UniqueNames'
    BY <2>1, <2>3, PublishedStand
  <2>5. QED BY <1>0, <2>1, <2>3, <2>4, NothingHeld, SessionsPublished, UnderLifecycle
<1>5. QED BY <1>1, <1>2, <1>3, <1>4 DEF Remove

LEMMA SessionContent ==
  ASSUME Inductive, NEW p \in Procs, Session(p) PROVE Content'
<1>0. /\ Others(p) /\ pc \in [Procs -> Steps] /\ loc \in [Procs -> Local]
      /\ meta \in [Dirs -> Metadata \cup {None}] /\ wsDir \in [Ids -> Dirs \cup {None}]
      /\ StepOK(p) /\ Fits(pc[p], loc[p], receipts)
  BY OthersStand DEF Process, Inductive, TypeOK, ControlOK, StepsOK, StepOK
<1>1. ASSUME \/ \E i \in Ids : SessionRequest(p, i)
             \/ SessionEnds(p)
      PROVE  Content'
  <2>1. /\ pc'[p] \in {"run_wait", "build_wait", "idle"}
        /\ UNCHANGED <<wsDir, staging, meta, valid, receipts>>
    BY <1>0, <1>1 DEF SessionRequest, SessionEnds, Goto, Return, shared
  <2>2. QED BY <1>0, <2>1, NothingHeld, Harmless
<1>2. ASSUME SessionStart(p) PROVE Content'
  <2>1. /\ pc'[p] \in {"run_exec", "build_exec"} /\ Exists(loc[p].id)
        /\ loc'[p].id = loc[p].id /\ loc'[p].dir = wsDir[loc[p].id]
        /\ loc'[p].gen = Record(loc[p].id).gen
        /\ UNCHANGED <<wsDir, staging, meta, valid, receipts>>
    BY <1>0, <1>2 DEF SessionStart, Goto, Local
  <2>2. StepOK(p)'
    BY <2>1 DEF StepOK, HoldsStaging, HoldsWorkspace, MayPublish, MayExchange, InStaging,
       InSession, Exists, Record
  <2>3. QED BY <1>0, <2>1, <2>2, Harmless
<1>3. ASSUME RunCommits(p) PROVE Content'
  <2> DEFINE i == loc[p].id
             d == wsDir[loc[p].id]
             m == NextRevision(i, loc[p].gen)
  <2>1. /\ pc[p] = "run_exec" /\ pc'[p] = "idle" /\ meta' = [meta EXCEPT ![d] = m]
        /\ UNCHANGED <<wsDir, staging, valid, receipts>>
    BY <1>0, <1>3 DEF RunCommits, Return
  <2>2. i \in Ids /\ Exists(i) /\ d \in Dirs /\ loc[p].gen \in Nat
    BY <1>0, <2>1, SessionsPublished, TreesApart DEF InSession, Local
  <2>3. m \in Metadata /\ m.id = i /\ m.name = Record(i).name
    BY <2>2, RevisionTyped, RecordTyped, TreesApart DEF NextRevision, Record, Metadata
  <2>4. ASSUME NEW j \in Ids, Exists(j)
        PROVE  /\ meta'[wsDir[j]] \in Metadata /\ meta'[wsDir[j]].id = j
               /\ meta'[wsDir[j]].name = Record(j).name
               /\ j # i => meta'[wsDir[j]] = meta[wsDir[j]]
    <3>1. CASE j = i
      BY <1>0, <2>1, <2>2, <2>3, <3>1
    <3>2. CASE j # i
      BY <1>0, <2>1, <2>2, <2>4, <3>2, TreesApart DEF Record
    <3>3. QED BY <3>1, <3>2
  <2>5. TreesOK'
    <3>1. TreesOK
      BY DEF Inductive
    <3>2. QED BY <2>1, <2>4, <3>1 DEF TreesOK, Exists, Record
  <2>6. UniqueNames'
    BY <2>1, <2>4 DEF Inductive, UniqueNames, Exists, Record
  <2>7. ASSUME NEW q \in Procs, q # p PROVE StepOK(q)'
    <3>1. StepOK(q) /\ pc'[q] = pc[q] /\ loc'[q] = loc[q] /\ Fits(pc[q], loc[q], receipts)
      BY <1>0, <2>7 DEF Others, Inductive, StepsOK, StepOK, ControlOK
    <3>2. HoldsStaging(q)'
      BY <2>1, <3>1 DEF StepOK, HoldsStaging
    <3>3. pc[q] \in WorkspaceSteps => loc[q].id # i
      BY <2>1, <2>7, Apart
    <3>4. HoldsWorkspace(q)'
      BY <2>1, <2>4, <3>1, <3>3, SessionsPublished DEF StepOK, HoldsWorkspace, InSession,
         Exists, Record
    <3>5. pc[q] \in InStaging => meta'[loc[q].dir] = meta[loc[q].dir]
      BY <1>0, <2>1, <2>2, <3>1, TreesApart DEF StepOK, HoldsStaging, Fits
    <3>6. MayPublish(q)'
      <4>1. NameTaken(loc[q].name)' => NameTaken(loc[q].name)
        BY <2>1, <2>4, <3>1 DEF NameTaken, Exists, Record
      <4>2. QED BY <2>1, <3>1, <3>5, <4>1 DEF StepOK, MayPublish, InStaging
    <3>7. MayExchange(q)'
      <4>1. ASSUME pc[q] \in {"reset_stage", "reset_extract", "reset_exchange"}
            PROVE  loc[q].id \in Ids /\ Record(loc[q].id)' = Record(loc[q].id)
        <5>1. loc[q].id \in Ids /\ Exists(loc[q].id) /\ loc[q].id # i
          BY <3>1, <3>3, <4>1 DEF StepOK, HoldsWorkspace, Fits, OnWorkspace
        <5>2. QED BY <2>1, <2>4, <3>1, <5>1 DEF Record
      <4>2. QED BY <2>1, <3>1, <3>5, <4>1 DEF StepOK, MayExchange, InStaging, NextRevision
    <3>8. QED BY <3>2, <3>4, <3>6, <3>7 DEF StepOK
  <2>8. StepOK(p)'
    BY <2>1, NothingHeld
  <2>9. QED BY <2>5, <2>6, <2>7, <2>8 DEF Content, StepsOK, StepOK
<1>4. QED BY <1>1, <1>2, <1>3 DEF Session

LEMMA DeleteContent ==
  ASSUME Inductive, NEW p \in Procs, Delete(p) PROVE Content'
<1>1. Others(p) /\ pc \in [Procs -> Steps]
  BY OthersStand DEF Process, Inductive, ControlOK
<1>2. /\ pc'[p] \in {"delete_wait", "delete_exec", "idle"}
      /\ UNCHANGED <<wsDir, staging, meta, valid, receipts>>
  BY <1>1 DEF Delete, DeleteRequest, DeleteBegin, DeleteRefused, DeleteReturns, Goto, Return,
     shared
<1>3. QED BY <1>1, <1>2, NothingHeld, Harmless

LEMMA RecoverContent ==
  ASSUME Inductive, NEW p \in Procs, Recover(p) PROVE Content'
<1>0. /\ Others(p) /\ pc \in [Procs -> Steps]
      /\ meta \in [Dirs -> Metadata \cup {None}] /\ wsDir \in [Ids -> Dirs \cup {None}]
  BY OthersStand DEF Process, Inductive, TypeOK, ControlOK
<1>1. ASSUME NEW d \in Dirs, RecoverRemoves(p, d) \/ RecoverBreaksOff(p, d) PROVE Content'
  <2>1. /\ pc[p] = "recover_sweep" /\ pc'[p] \in {"recover_sweep", "idle"}
        /\ d \in staging /\ UNCHANGED wsDir
        /\ staging' \subseteq staging /\ valid' = valid \ {d}
        /\ meta' = meta \/ meta' = [meta EXCEPT ![d] = None]
    BY <1>0, <1>1 DEF RecoverRemoves, RecoverBreaksOff, RemoveTree, RemovePartOf, Return
  <2>2. \A j \in Ids : Exists(j) => wsDir[j] \in valid' \ staging' /\ meta'[wsDir[j]] = meta[wsDir[j]]
    BY <1>0, <2>1, TreesApart
  <2>3. TreesOK' /\ UniqueNames'
    BY <2>1, <2>2, PublishedStand
  <2>4. QED BY <1>0, <2>1, <2>2, <2>3, NothingHeld, SessionsPublished, UnderLifecycle
<1>2. ASSUME RecoverBegin(p) \/ RecoverSwept(p) \/ RecoverFinish(p) PROVE Content'
  <2>1. /\ pc'[p] \in {"recover_sweep", "recover_receipts", "idle"}
        /\ UNCHANGED <<wsDir, staging, meta, valid, receipts>>
    BY <1>0, <1>2 DEF RecoverBegin, RecoverSwept, RecoverFinish, Goto, Return, shared
  <2>2. QED BY <1>0, <2>1, NothingHeld, Harmless
<1>3. ASSUME NEW o \in OpIds, RecoverCreate(p, o) \/ RecoverReset(p, o) \/ RecoverRaises(p, o)
      PROVE  Content'
  <2>1. /\ pc[p] = "recover_receipts" /\ pc'[p] \in {"recover_receipts", "idle"}
        /\ UNCHANGED <<wsDir, staging, meta, valid>>
    BY <1>0, <1>3 DEF RecoverCreate, RecoverReset, RecoverRaises, NextReceipt, Settle, Return
  <2>2. QED BY <1>0, <2>1, NothingHeld, FilesStand, UnderLifecycle
<1>4. QED BY <1>1, <1>2, <1>3 DEF Recover

\* A killed process takes nothing with it but its locks.
LEMMA CrashKeeps ==
  ASSUME Inductive, NEW p \in Procs, Crash(p) PROVE LocksOK' /\ LocksReleased' /\ Content'
<1>1. /\ Others(p) /\ pc'[p] = "idle" /\ UNCHANGED <<wsDir, staging, meta, valid, receipts>>
  BY DEF Crash, Return, Others, Inductive, ControlOK
<1>2. \A i \in Ids : wsLock'[i] = wsLock[i] \/ wsLock[i] = p
  BY DEF Crash, Inductive, TypeOK
<1>3. lifecycle' = lifecycle \/ lifecycle = p
  BY DEF Crash
<1>4. LocksOK'
  BY <1>1, <1>2, <1>3, LocksMove
<1>5. Content'
  BY <1>1, NothingHeld, Harmless
<1>6. LocksReleased'
  <2>1. lifecycle' # None => lifecycle' = lifecycle /\ lifecycle # p
    BY DEF Crash
  <2>2. \A i \in Ids : wsLock'[i] # None => wsLock'[i] = wsLock[i] /\ wsLock[i] # p
    BY DEF Crash
  <2>3. lifecycle \in Procs \cup {None} /\ (\A i \in Ids : wsLock[i] \in Procs \cup {None}) /\ LocksReleased
    BY DEF Inductive, TypeOK
  <2>4. QED BY <1>1, <2>1, <2>2, <2>3 DEF LocksReleased, Others
<1>7. QED BY <1>4, <1>5, <1>6

\* Children and target ensure leave locks, workspaces and receipts alone.
LEMMA ChildrenKeep ==
  ASSUME Inductive, Children \/ \E t \in Targets : EnsureTarget(t)
  PROVE  LocksOK' /\ LocksReleased' /\ Content'
<1>1. UNCHANGED <<pc, loc, lifecycle, wsLock, wsDir, staging, meta, valid, receipts>>
  BY DEF Children, TargetWrites, OrphanExits, RmtreeEnds, EnsureTarget
<1>2. LocksOK' /\ LocksReleased'
  BY <1>1 DEF Inductive, LocksOK, LocksReleased
<1>3. Content'
  BY <1>1, FilesStand, ProcessStands DEF Content, StepsOK, StepOK
<1>4. QED BY <1>2, <1>3

-----------------------------------------------------------------------------
(* The theorems.                                                           *)

LEMMA InitInductive == Init => Inductive
<1> SUFFICES ASSUME Init PROVE Inductive
  OBVIOUS
<1>1. NoLocal \in Local
  BY DEF NoLocal, Local
<1>2. TypeOK
  BY <1>1 DEF Init, TypeOK
<1>3. ControlOK
  BY <1>1 DEF Init, ControlOK, Fits, NamedSteps, TargetedSteps, RecordedSteps, OnWorkspace,
     InStaging, InSession
<1>4. LocksOK /\ LocksReleased /\ TreesOK /\ UniqueNames
  BY DEF Init, LocksOK, LocksReleased, TreesOK, UniqueNames, Exists
<1>5. StepsOK
  BY DEF Init, StepsOK, HoldsStaging, HoldsWorkspace, MayPublish, MayExchange, InStaging,
     InSession
<1>6. QED BY <1>2, <1>3, <1>4, <1>5 DEF Inductive

LEMMA NextInductive == Inductive /\ [Next]_vars => Inductive'
<1> SUFFICES ASSUME Inductive, [Next]_vars PROVE Inductive'
  OBVIOUS
<1>1. ASSUME NEW p \in Procs, Process(p) PROVE Inductive'
  <2>1. Typed'
    BY <1>1, CreateTyped, ResetTyped, RemoveTyped, SessionTyped, DeleteTyped, RecoverTyped
    DEF Process
  <2>2. LocksOK' /\ LocksReleased'
    BY <1>1, LocksKept, LocksGivenBack
  <2>3. Content'
    BY <1>1, CreateContent, ResetContent, RemoveContent, SessionContent, DeleteContent,
       RecoverContent
    DEF Process
  <2>4. QED BY <2>1, <2>2, <2>3 DEF Typed, Content, Inductive
<1>2. ASSUME NEW p \in Procs, Crash(p) PROVE Inductive'
  BY <1>2, OthersTyped, CrashKeeps DEF Typed, Content, Inductive
<1>3. ASSUME Children \/ \E t \in Targets : EnsureTarget(t) PROVE Inductive'
  BY <1>3, OthersTyped, ChildrenKeep DEF Typed, Content, Inductive
<1>4. CASE UNCHANGED vars
  BY <1>4 DEF vars, Inductive, TypeOK, ControlOK, LocksOK, LocksReleased, TreesOK,
     UniqueNames, StepsOK, HoldsStaging, HoldsWorkspace, MayPublish, MayExchange, Exists, Record, NameTaken,
     NextRevision, Fits
<1>5. QED BY <1>1, <1>2, <1>3, <1>4 DEF Next

\* Every reachable state satisfies the whole invariant.
THEOREM InductiveHolds == Spec => []Inductive
<1>1. Inductive /\ [Next]_vars => Inductive'
  BY NextInductive
<1>2. QED BY InitInductive, <1>1, PTL DEF Spec

\* Every variable keeps its type, for any number of commands.
THEOREM TypeCorrect == Spec => []TypeOK
<1>1. Inductive => TypeOK
  BY DEF Inductive
<1>2. QED BY InductiveHolds, <1>1, PTL

\* A workspace name is never given twice.
THEOREM NamesUnique == Spec => []UniqueNames
<1>1. Inductive => UniqueNames
  BY DEF Inductive
<1>2. QED BY InductiveHolds, <1>1, PTL

\* No chain of waiting commands has no end, whatever fails or is killed: the
\* holder of a workspace lock waits for nothing.
THEOREM WaitingEnds == Spec => []NoCircularWait
<1>1. ASSUME Inductive, NEW p \in Procs, NEW q \in Procs, NEW r \in Procs, NEW s \in Procs,
             WaitsFor(p, q), WaitsFor(q, r), WaitsFor(r, s)
      PROVE  FALSE
  <2>1. ASSUME NEW x \in Procs, NEW y \in Procs, WaitsFor(x, y)
        PROVE  \/ lifecycle = y /\ pc[y] \in LifecycleSteps
               \/ wsLock[loc[x].id] = y /\ pc[y] \in WorkspaceSteps
    BY <1>1, <2>1, NoneIsNew DEF WaitsFor, Inductive, LocksReleased, ControlOK, Fits, OnWorkspace
  <2>2. pc[q] \notin WorkspaceSteps /\ pc[r] \notin WorkspaceSteps
    BY <1>1 DEF WaitsFor
  <2>3. pc[q] \in LifecycleSteps
    BY <1>1, <2>1, <2>2
  <2>4. pc[q] \in {"reset_locked", "remove_locked"}
    BY <1>1, <2>3 DEF WaitsFor
  <2>5. wsLock[loc[q].id] = r /\ loc[q].id \in Ids
    BY <1>1, <2>4 DEF WaitsFor, Inductive, ControlOK, Fits, OnWorkspace
  <2>6. pc[r] \in WorkspaceSteps
    BY <1>1, <2>5, NoneIsNew DEF Inductive, LocksReleased
  <2>7. QED BY <2>2, <2>6
<1>2. Inductive => NoCircularWait
  BY <1>1 DEF NoCircularWait
<1>3. QED BY InductiveHolds, <1>2, PTL

\* What is published is whole, and nothing that will be cleaned up.
THEOREM TreesWhole == Spec => []PublishedTreesWhole
<1>1. Inductive => PublishedTreesWhole
  BY DEF Inductive, TreesOK, PublishedTreesWhole
<1>2. QED BY InductiveHolds, <1>1, PTL

\* A session works on the directory published under its id, and on the
\* generation it read, for as long as it runs.
THEOREM SessionsUndisturbed == Spec => []SessionSeesItsGeneration
<1>1. Inductive => SessionSeesItsGeneration
  BY DEF Inductive, StepsOK, HoldsWorkspace, InSession, SessionSeesItsGeneration
<1>2. QED BY InductiveHolds, <1>1, PTL

\* No recovery deletes the staging directory of a running operation.
THEOREM StagingKept == Spec => []LiveStagingKept
<1>1. Inductive => LiveStagingKept
  BY DEF Inductive, StepsOK, HoldsStaging, InStaging, LiveStagingKept
<1>2. QED BY InductiveHolds, <1>1, PTL

-----------------------------------------------------------------------------
(* Bases under deletion.                                                   *)

\* Only the publication of a new workspace adds to the workspaces of a base.
LEMMA DependentsShrink ==
  ASSUME Inductive, NEW p \in Procs, Process(p), ~CreatePublish(p), NEW t \in Targets
  PROVE  Dependents(t)' \subseteq Dependents(t)
<1> SUFFICES ASSUME NEW i \in Ids, Exists(i)'
             PROVE  Exists(i) /\ Record(i)'.target = Record(i).target
  BY DEF Dependents
<1>0. /\ meta \in [Dirs -> Metadata \cup {None}] /\ wsDir \in [Ids -> Dirs \cup {None}]
      /\ StepOK(p) /\ Fits(pc[p], loc[p], receipts)
  BY DEF Inductive, TypeOK, ControlOK, StepsOK, StepOK
<1> USE DEF Exists, Record
<1>1. CASE UNCHANGED <<wsDir, meta>>
  BY <1>1
<1>2. ASSUME NEW d \in staging, meta' = meta \/ \E m : meta' = [meta EXCEPT ![d] = m],
             UNCHANGED wsDir
      PROVE  Exists(i) /\ Record(i)'.target = Record(i).target
  BY <1>0, <1>2, TreesApart
<1>3. CASE RunCommits(p)
  <2>1. /\ pc[p] = "run_exec" /\ UNCHANGED wsDir
        /\ meta' = [meta EXCEPT ![wsDir[loc[p].id]] = NextRevision(loc[p].id, loc[p].gen)]
    BY <1>3 DEF RunCommits
  <2>2. loc[p].id \in Ids /\ Exists(loc[p].id)
    BY <2>1, SessionsPublished DEF InSession
  <2>3. NextRevision(loc[p].id, loc[p].gen).target = Record(loc[p].id).target
    BY <2>2, TreesApart DEF NextRevision, Metadata
  <2>4. CASE i = loc[p].id
    BY <1>0, <2>1, <2>2, <2>3, <2>4, TreesApart
  <2>5. CASE i # loc[p].id
    BY <1>0, <2>1, <2>2, <2>5, TreesApart
  <2>6. QED BY <2>4, <2>5
<1>4. CASE ResetExchange(p)
  <2>1. /\ pc[p] = "reset_exchange" /\ UNCHANGED meta
        /\ wsDir' = [wsDir EXCEPT ![loc[p].id] = loc[p].dir]
    BY <1>4 DEF ResetExchange
  <2>2. /\ loc[p].id \in Ids /\ Exists(loc[p].id)
        /\ meta[loc[p].dir] = NextRevision(loc[p].id, receipts[loc[p].op].before)
    BY <1>0, <2>1 DEF StepOK, HoldsWorkspace, MayExchange, Fits, OnWorkspace
  <2>3. meta[loc[p].dir].target = Record(loc[p].id).target
    BY <2>2, TreesApart DEF NextRevision, Metadata
  <2>4. QED BY <1>0, <2>1, <2>2, <2>3
<1>5. CASE RemoveUnpublish(p)
  <2>1. loc[p].id \in Ids
    BY <1>0, <1>5 DEF RemoveUnpublish, Fits, OnWorkspace
  <2>2. QED BY <1>0, <1>5, <2>1 DEF RemoveUnpublish
<1>6. CASE \E j \in Ids : CreateExtracted(p, j)
  BY <1>0, <1>2, <1>6 DEF CreateExtracted, StepOK, HoldsStaging, InStaging
<1>7. CASE ResetExtracted(p)
  BY <1>0, <1>2, <1>7 DEF ResetExtracted, StepOK, HoldsStaging, InStaging
<1>8. CASE ResetClean(p)
  BY <1>0, <1>2, <1>8 DEF ResetClean, RemoveTree, StepOK, HoldsStaging, InStaging
<1>9. CASE RemoveFinish(p)
  BY <1>0, <1>2, <1>9 DEF RemoveFinish, RemoveTree, StepOK, HoldsStaging, InStaging
<1>10. CASE \E d \in Dirs : RecoverRemoves(p, d)
  BY <1>2, <1>10 DEF RecoverRemoves, RemoveTree
<1>11. CASE Create(p) /\ ~\E j \in Ids : CreateExtracted(p, j)
  BY <1>1, <1>11 DEF Create, CreateRequest, CreateBegin, CreateRefused, CreateStage,
     CreateFails, CreateFinish, shared
<1>12. CASE Reset(p) /\ ~ResetExtracted(p) /\ ~ResetExchange(p) /\ ~ResetClean(p)
  BY <1>1, <1>12 DEF Reset, ResetRequest, ResetBegin, ResetRefused, ResetStage, ResetFails,
     ResetNote, ResetBreaksOff, ResetFinish, ResetMismatch, shared
<1>13. CASE \/ Remove(p) /\ ~RemoveUnpublish(p) /\ ~RemoveFinish(p)
            \/ TakeLifecycle(p) \/ NotFound(p)
  BY <1>1, <1>13 DEF Remove, RemoveRequest, RemoveRefused, TakeLifecycle, NotFound, shared
<1>14. CASE Session(p) /\ ~RunCommits(p)
  BY <1>1, <1>14 DEF Session, SessionRequest, SessionStart, SessionEnds, shared
<1>15. CASE Delete(p)
  BY <1>1, <1>15 DEF Delete, DeleteRequest, DeleteBegin, DeleteRefused, DeleteReturns, shared
<1>16. CASE Recover(p) /\ ~\E d \in Dirs : RecoverRemoves(p, d)
  BY <1>1, <1>16 DEF Recover, RecoverBegin, RecoverBreaksOff, RecoverSwept, RecoverCreate,
     RecoverReset, RecoverRaises, RecoverFinish, Settle, shared
<1>17. QED
  BY <1>3, <1>4, <1>5, <1>6, <1>7, <1>8, <1>9, <1>10, <1>11, <1>12, <1>13, <1>14, <1>15,
     <1>16 DEF Process

\* A live deletion holds the lifecycle lock, which every publication needs.
LEMMA DeletionStands ==
  ASSUME Inductive, LiveDeletionUnreferenced, [Next]_vars
  PROVE  LiveDeletionUnreferenced'
<1> SUFFICES ASSUME NEW p \in Procs, pc'[p] = "delete_exec"
             PROVE  Dependents(loc[p].target)' = {}
  BY DEF LiveDeletionUnreferenced
<1>0. pc \in [Procs -> Steps] /\ loc \in [Procs -> Local]
  BY DEF Inductive, ControlOK
<1>1. ASSUME UNCHANGED <<pc, loc, wsDir, meta>> PROVE Dependents(loc[p].target)' = {}
  BY <1>1 DEF LiveDeletionUnreferenced, Dependents, Exists, Record
<1>2. ASSUME NEW q \in Procs, Process(q), q # p PROVE Dependents(loc[p].target)' = {}
  <2>1. pc[p] = "delete_exec" /\ loc'[p] = loc[p]
    BY <1>2, OthersStand DEF Others
  <2>2. loc[p].target \in Targets
    BY <2>1 DEF Inductive, ControlOK, Fits, TargetedSteps
  <2>3. ~CreatePublish(q)
    BY <1>2, <2>1, Alone DEF CreatePublish
  <2>4. Dependents(loc[p].target) = {}
    BY <2>1 DEF LiveDeletionUnreferenced
  <2>5. \A t \in Targets : Dependents(t)' \subseteq Dependents(t)
    BY <1>2, <2>3, DependentsShrink
  <2>6. \A i \in Ids : ~(Exists(i)' /\ Record(i)'.target = loc[p].target)
    BY <2>2, <2>4, <2>5 DEF Dependents
  <2>7. QED BY <2>1, <2>6 DEF Dependents
<1>3. ASSUME Process(p) PROVE Dependents(loc[p].target)' = {}
  <2>1. DeleteBegin(p)
    <3>1. ~Create(p)
      BY <1>0 DEF Create, CreateRequest, CreateBegin, CreateRefused, CreateStage,
         CreateExtracted, CreatePublish, CreateFails, CreateFinish, Goto, Return
    <3>2. ~Reset(p)
      BY <1>0 DEF Reset, ResetRequest, ResetBegin, ResetRefused, ResetStage, ResetExtracted,
         ResetFails, ResetExchange, ResetNote, ResetClean, ResetBreaksOff, ResetFinish,
         ResetMismatch, Goto, Return
    <3>3. ~Remove(p) /\ ~TakeLifecycle(p) /\ ~NotFound(p)
      BY <1>0 DEF Remove, RemoveRequest, RemoveUnpublish, RemoveRefused, RemoveFinish, TakeLifecycle,
         NotFound, Goto, Return
    <3>4. ~Session(p)
      BY <1>0 DEF Session, SessionRequest, SessionStart, RunCommits, SessionEnds, Goto, Return
    <3>5. ~Recover(p)
      BY <1>0 DEF Recover, RecoverBegin, RecoverRemoves, RecoverBreaksOff, RecoverSwept,
         RecoverCreate, RecoverReset, RecoverRaises, RecoverFinish, NextReceipt, Settle,
         Goto, Return
    <3>6. Delete(p) => DeleteBegin(p)
      BY <1>0 DEF Delete, DeleteRequest, DeleteRefused, DeleteReturns, Goto, Return
    <3>7. QED BY <1>3, <3>1, <3>2, <3>3, <3>4, <3>5, <3>6 DEF Process
  <2>2. QED BY <2>1 DEF DeleteBegin, Dependents, Exists, Record
<1>4. ASSUME NEW q \in Procs, Crash(q) PROVE Dependents(loc[p].target)' = {}
  <2>1. q # p /\ pc'[p] = pc[p] /\ loc'[p] = loc[p] /\ UNCHANGED <<wsDir, meta>>
    BY <1>0, <1>4 DEF Crash, Return
  <2>2. QED BY <2>1 DEF LiveDeletionUnreferenced, Dependents, Exists, Record
<1>5. CASE Children \/ \E t \in Targets : EnsureTarget(t)
  BY <1>1, <1>5 DEF Children, TargetWrites, OrphanExits, RmtreeEnds, EnsureTarget
<1>6. CASE UNCHANGED vars
  BY <1>1, <1>6 DEF vars
<1>7. QED BY <1>2, <1>3, <1>4, <1>5, <1>6 DEF Next

\* While a live command deletes a base, no workspace is on that base.
THEOREM DeletionSafe == Spec => []LiveDeletionUnreferenced
<1>1. Init => LiveDeletionUnreferenced
  BY DEF Init, LiveDeletionUnreferenced
<1>2. Inductive /\ LiveDeletionUnreferenced /\ [Next]_vars => LiveDeletionUnreferenced'
  BY DeletionStands
<1>3. QED BY InductiveHolds, <1>1, <1>2, PTL DEF Spec

=============================================================================
