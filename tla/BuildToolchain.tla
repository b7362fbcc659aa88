---------------------------- MODULE BuildToolchain ----------------------------
(***************************************************************************)
(* The managed cross toolchain below <data root>/build/toolchains: looked  *)
(* for without a lock, looked for again under the lock, then downloaded,   *)
(* verified, unpacked and published by one rename (build_toolchain.py).    *)
(***************************************************************************)
CONSTANTS
  Procs,     \* builds that can be running at the same time
  Stagings,  \* bound: the staging directories that exist at a time
  Enabled,   \* the kinds of failure of this instance
  None       \* "not there"

ASSUME AbsenceIsNew == None \notin Procs \cup Stagings /\ None \notin {"good", "other"}

VARIABLES
  toolchain,  \* build/toolchains/<identity>
  stagings,   \* build/staging/.toolchain-*: what the archive has become
  holder,     \* holder of the lock of this identity
  pc, place   \* control point and staging directory of each process

vars == <<toolchain, stagings, holder, pc, place>>

-----------------------------------------------------------------------------
\* "other" is an archive, and what is made of it, that is not Bootlin's: cut
\* off, or replaced on the server.
Contents == {"good", "other"}

AcquireSteps ==
  {"stage", "download", "verify", "extract", "publish", "tidy"}

LockedSteps == AcquireSteps \cup {"look_again", "unlock"}

Steps == LockedSteps \cup {"idle", "wait", "build"}

TypeOK ==
  /\ toolchain \in Contents \cup {None}
  /\ stagings \in [Stagings -> Contents \cup {"empty", None}]
  /\ holder \in Procs \cup {None}
  /\ pc \in [Procs -> Steps]
  /\ place \in [Procs -> Stagings \cup {None}]

Init ==
  /\ toolchain = None
  /\ stagings = [s \in Stagings |-> None]
  /\ holder = None
  /\ pc = [p \in Procs |-> "idle"]
  /\ place = [p \in Procs |-> None]

At(p, step) == pc[p] = step
Goto(p, step) == pc' = [pc EXCEPT ![p] = step]
Archive(p) == stagings[place[p]]
Put(p, c) == stagings' = [stagings EXCEPT ![place[p]] = c]

-----------------------------------------------------------------------------
(* ensure.                                                                 *)

\* _load finds one that is as expected, and the build goes on with it.
LoadReuses(p) ==
  /\ At(p, "idle")
  /\ toolchain = "good"
  /\ Goto(p, "build")
  /\ UNCHANGED <<toolchain, stagings, holder, place>>

\* There is none; one that is not as expected is an error, and stays.
LoadMisses(p) ==
  /\ At(p, "idle")
  /\ toolchain = None
  /\ Goto(p, "wait")
  /\ UNCHANGED <<toolchain, stagings, holder, place>>

\* Mutant: the lock is taken as a shared one.
LockedShared(p) ==
  /\ At(p, "wait")
  /\ holder' = p
  /\ Goto(p, "look_again")
  /\ UNCHANGED <<toolchain, stagings, place>>

Locked(p) ==
  /\ At(p, "wait")
  /\ holder = None
  /\ holder' = p
  /\ Goto(p, "look_again")
  /\ UNCHANGED <<toolchain, stagings, place>>

\* Mutant: the first look is trusted.
LookAgainNot(p) ==
  /\ At(p, "look_again")
  /\ Goto(p, "stage")
  /\ UNCHANGED <<toolchain, stagings, holder, place>>

LookAgain(p) ==
  /\ At(p, "look_again")
  /\ Goto(p, IF toolchain = None THEN "stage" ELSE "unlock")
  /\ UNCHANGED <<toolchain, stagings, holder, place>>

Stage(p, s) ==
  /\ At(p, "stage")
  /\ stagings[s] = None
  /\ stagings' = [stagings EXCEPT ![s] = "empty"]
  /\ place' = [place EXCEPT ![p] = s]
  /\ Goto(p, "download")
  /\ UNCHANGED <<toolchain, holder>>

Download(p) ==
  /\ At(p, "download")
  /\ \E c \in IF "fault" \in Enabled THEN Contents ELSE {"good"} : Put(p, c)
  /\ Goto(p, "verify")
  /\ UNCHANGED <<toolchain, holder, place>>

\* Mutant: the checksum is not compared.
VerifyNothing(p) ==
  /\ At(p, "verify")
  /\ Goto(p, "extract")
  /\ UNCHANGED <<toolchain, stagings, holder, place>>

Verify(p) ==
  /\ At(p, "verify")
  /\ Goto(p, IF Archive(p) = "good" THEN "extract" ELSE "tidy")
  /\ UNCHANGED <<toolchain, stagings, holder, place>>

\* The archive is unpacked, and the versions of its programs are asked for.
Extract(p) ==
  /\ At(p, "extract")
  /\ Goto(p, "publish")
  /\ UNCHANGED <<toolchain, stagings, holder, place>>

\* The destination is looked for once more, then one rename publishes.
Publish(p) ==
  /\ At(p, "publish")
  /\ IF toolchain = None
       THEN toolchain' = Archive(p) /\ Put(p, "empty")
       ELSE UNCHANGED <<toolchain, stagings>>
  /\ Goto(p, "tidy")
  /\ UNCHANGED <<holder, place>>

Fails(p) ==
  /\ "fault" \in Enabled
  /\ pc[p] \in {"download", "verify", "extract", "publish"}
  /\ Goto(p, "tidy")
  /\ UNCHANGED <<toolchain, stagings, holder, place>>

\* (A removal that fails leaves what a process that dies leaves.)
Tidy(p) ==
  /\ At(p, "tidy")
  /\ Put(p, None)
  /\ place' = [place EXCEPT ![p] = None]
  /\ Goto(p, "unlock")
  /\ UNCHANGED <<toolchain, holder>>

\* Mutant: the lock is kept when the acquisition failed.
UnlockAcquired(p) ==
  /\ At(p, "unlock")
  /\ holder' = IF toolchain = "good" THEN None ELSE holder
  /\ Goto(p, IF toolchain = "good" THEN "build" ELSE "idle")
  /\ UNCHANGED <<toolchain, stagings, place>>

\* The lock is released; the build goes on, or the failure is reported, which
\* may be one to load what was just published.
Unlock(p) ==
  /\ At(p, "unlock")
  /\ holder' = None
  /\ \/ toolchain = "good" /\ Goto(p, "build")
     \/ (toolchain # "good" \/ "fault" \in Enabled) /\ Goto(p, "idle")
  /\ UNCHANGED <<toolchain, stagings, place>>

\* The toolchain is mounted read-only into the build's container meanwhile.
BuildEnds(p) ==
  /\ At(p, "build")
  /\ Goto(p, "idle")
  /\ UNCHANGED <<toolchain, stagings, holder, place>>

\* A process may die while the bound leaves a staging directory for the others:
\* nothing ever removes the one of a process that died.
Kill(p) ==
  /\ "kill" \in Enabled
  /\ pc[p] # "idle"
  /\ place[p] # None => \E s \in Stagings : stagings[s] = None
  /\ holder' = IF holder = p THEN None ELSE holder
  /\ place' = [place EXCEPT ![p] = None]
  /\ Goto(p, "idle")
  /\ UNCHANGED <<toolchain, stagings>>

-----------------------------------------------------------------------------
Works(p) ==
  \/ LookAgain(p) \/ \E s \in Stagings : Stage(p, s)
  \/ Download(p) \/ Verify(p) \/ Extract(p) \/ Publish(p) \/ Tidy(p)
  \/ Unlock(p) \/ BuildEnds(p)

Step(p) ==
  LoadReuses(p) \/ LoadMisses(p) \/ Locked(p) \/ Works(p) \/ Fails(p) \/ Kill(p)

Next == \E p \in Procs : Step(p)

Spec == Init /\ [][Next]_vars

=============================================================================
