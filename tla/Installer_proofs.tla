--------------------------- MODULE Installer_proofs ---------------------------
(***************************************************************************)
(* For any number of viewer processes and of owned paths: the types, the   *)
(* one owner of the control socket, the truth of a status, and that an     *)
(* installation leaves the old version or the new one.                     *)
(***************************************************************************)
EXTENDS Installer, TLAPS

USE PidsAssumption, OwnedAssumption DEF PidsAssumption, OwnedAssumption

-----------------------------------------------------------------------------
(* The inductive invariant.                                                  *)

\* Whoever has acquired the lock has it until it frees it, also while it closes.
LockInv == \A p \in Pids : proc[p] \in Holding => lock = p

Safe(k) == before[k] = "old" => "old" \in {target[k], backup[k]}
Clean == ~cut /\ recovery = {}

Untouched(k) ==
  target[k] = before[k] /\ backup[k] = "none" /\ k \notin committed /\ k \notin saved
Replaced(k) ==
  /\ target[k] = New[k] /\ backup[k] = before[k] /\ k \in committed
  /\ k \in saved <=> before[k] = "old"
Between(k) ==
  /\ target[k] = (IF at = "committed" THEN New[k] ELSE "none") /\ backup[k] = before[k]
  /\ k \notin committed
  /\ k \in saved <=> (before[k] = "old" /\ at # "saved")
  /\ at = "saved" => before[k] = "old"

\* Until the first path is moved nothing has been touched.
BeforeInv ==
  at \in {"idle", "stage", "check"} => Clean /\ \A k \in Paths : Untouched(k)

\* The paths before the index have been replaced, those after it not touched, and
\* the lists say so but for the step at the index itself.
ReplaceInv ==
  at \in Replacing =>
    /\ op = "install" /\ Clean /\ (at = "chmod" => index = Owned)
    /\ \A k \in Paths :
         /\ k < index \/ (k = index /\ at = "chmod") => Replaced(k)
         /\ k > index \/ (k = index /\ at = "save") => Untouched(k)
         /\ k = index /\ at \in {"saved", "commit", "committed"} => Between(k)

\* While it rolls back, the lists tell what is not as before, and every old path
\* is in its place or in its backup.
RollbackInv ==
  at = "rollback" =>
    /\ op = "install"
    /\ \A k \in Paths :
         /\ Safe(k)
         /\ k \in committed => target[k] # "old"
         /\ k \in saved => backup[k] = "old"
         /\ Clean =>
              /\ k \notin committed /\ k \notin saved => target[k] = before[k]
              /\ k \in committed /\ k \notin saved => before[k] = "none"
              /\ k \in saved => before[k] = "old"

\* Before and after, the operation goes with the place.
AfterInv ==
  /\ at = "backups" => op = "install" /\ target = New
  /\ at = "remove" => op = "uninstall"
  /\ at = "stage" => op = "install"
  /\ at = "idle" => op = "none"
  /\ at = "check" => op \in {"install", "uninstall"}
  /\ at \in {"done", "failed", "killed"} /\ op = "install" =>
       /\ target # New => \A k \in Paths : Safe(k)
       /\ Clean => target \in {before, New}

PathInv == BeforeInv /\ ReplaceInv /\ RollbackInv /\ AfterInv

-----------------------------------------------------------------------------
(* Types and the instance lock.                                              *)

\* At the start nothing is locked, owned or backed up.
LEMMA InitTypes == Init => TypeOK /\ LockInv
<1> SUFFICES ASSUME Init PROVE TypeOK /\ LockInv  OBVIOUS
<1>1. NoFile \in Files  BY DEF NoFile, Files, Names
<1>2. NoQuery \in [at : {"idle", "pid", "state", "alive"}, main : Pids \cup {Nobody},
                   file : Files, live : BOOLEAN,
                   answer : {"none", "running", "starting", "stopped", "error"}]
  BY <1>1 DEF NoQuery
<1>3. InstanceTypeOK
  BY <1>1, <1>2 DEF Init, InstanceInit, InstanceTypeOK, Holding
<1>4. lock = Nobody /\ at = "idle" /\ 1 \in Paths
  BY DEF Init, InstanceInit, Paths
<1>5. before \in [Paths -> {"old", "none"}] /\ target \in [Paths -> {"old", "new", "part", "none"}]
      /\ backup \in [Paths -> {"old", "none"}]
  BY DEF Init
<1>6. TypeOK
  BY <1>3, <1>4, <1>5 DEF Init, TypeOK, Ended
<1>7. LockInv
  BY DEF Init, InstanceInit, LockInv, Holding
<1> QED  BY <1>6, <1>7

\* What the installer's steps leave of the viewers
LEMMA InstallerLock ==
  ASSUME TypeOK, LockInv, InstallNext
  PROVE  InstanceTypeOK' /\ LockInv'
<1> USE DEF TypeOK, InstanceTypeOK, LockInv
<1>1. CASE UNCHANGED instanceVars
  BY <1>1 DEF instanceVars
<1>2. CASE Begin
  BY <1>2 DEF Begin
<1>3. CASE Free /\ at \notin Ended
  BY <1>3 DEF Free
<1> QED
  BY <1>1, <1>2, <1>3 DEF InstallNext, Staged, CheckStopped, Save, Saved, Commit, Committed,
     Chmod, RemoveBackup, Raises, RollbackRemove, RollbackRestore, Remove, RemoveNext, Ends,
     Cut, Ended

\* The installer's steps keep the types.
LEMMA InstallerTypes ==
  ASSUME TypeOK, PathInv, InstallNext, InstanceTypeOK'
  PROVE  TypeOK'
<1> USE DEF TypeOK, instanceVars, Paths, Ended, Replacing
<1>1. CASE Begin  BY <1>1 DEF Begin
<1>2. CASE Staged  BY <1>2 DEF Staged
<1>3. CASE CheckStopped  BY <1>3 DEF CheckStopped
<1>4. CASE Save
  <2>1. target[index] = before[index]
    BY <1>4 DEF Save, PathInv, ReplaceInv, Untouched
  <2>2. target[index] \in {"old", "none"}  BY <2>1
  <2>3. backup' \in [Paths -> {"old", "none"}]  BY <1>4, <2>2 DEF Save
  <2>4. target' \in [Paths -> {"old", "new", "part", "none"}]  BY <1>4 DEF Save
  <2> QED  BY <1>4, <2>3, <2>4 DEF Save
<1>5. CASE Saved  BY <1>5 DEF Saved
<1>6. CASE Commit  BY <1>6 DEF Commit
<1>7. CASE Committed  BY <1>7 DEF Committed
<1>8. CASE Chmod  BY <1>8 DEF Chmod
<1>9. CASE RemoveBackup  BY <1>9 DEF RemoveBackup
<1>10. CASE Raises  BY <1>10 DEF Raises
<1>11. CASE RollbackRemove
  <2>1. target' \in [Paths -> {"old", "new", "part", "none"}]  BY <1>11 DEF RollbackRemove
  <2>2. committed' \subseteq Paths /\ recovery' \subseteq Paths  BY <1>11 DEF RollbackRemove
  <2> QED  BY <1>11, <2>1, <2>2 DEF RollbackRemove
<1>12. CASE RollbackRestore
  <2>1. target' \in [Paths -> {"old", "new", "part", "none"}]
        /\ backup' \in [Paths -> {"old", "none"}]
    BY <1>12 DEF RollbackRestore
  <2>2. saved' \subseteq Paths /\ recovery' \subseteq Paths  BY <1>12 DEF RollbackRestore
  <2> QED  BY <1>12, <2>1, <2>2 DEF RollbackRestore
<1>13. CASE Remove  BY <1>13 DEF Remove
<1>14. CASE RemoveNext  BY <1>14 DEF RemoveNext
<1>15. CASE Ends  BY <1>15 DEF Ends, Free
<1>16. CASE Cut  BY <1>16 DEF Cut, Free
<1> QED
  BY <1>1, <1>2, <1>3, <1>4, <1>5, <1>6, <1>7, <1>8, <1>9, <1>10, <1>11, <1>12, <1>13, <1>14,
     <1>15, <1>16 DEF InstallNext

\* A viewer's step, or a status command's
LEMMA InstanceTypes ==
  ASSUME TypeOK, LockInv, InstanceNext
  PROVE  InstanceTypeOK' /\ LockInv' /\ (lock' = Installer <=> lock = Installer)
<1> USE DEF InstanceTypeOK, LockInv, Goes, Holding
<1> InstanceTypeOK  BY DEF TypeOK
<1>1. ASSUME NEW p \in Pids, Launch(p) \/ Finish(p) \/ Stop(p) \/ Run(p) \/ Declare(p)
      PROVE  InstanceTypeOK' /\ LockInv' /\ lock' = lock
  <2>1. CASE Launch(p)
    <3>1. main' \in Pids \cup {Nobody} /\ UNCHANGED <<lock, socket, file, query>>
      BY <2>1 DEF Launch
    <3> QED  BY <2>1, <3>1 DEF Launch
  <2>2. ASSUME NEW from \in SUBSET {"cleared", "serving", "running", "stopping"},
               NEW to \in {"starting", "running", "stopping", "over"},
               Goes(p, from, to), Update(p, to), UNCHANGED <<lock, socket, main, query>>
        PROVE  InstanceTypeOK' /\ LockInv' /\ lock' = lock
    <3>1. file' \in Files  BY <2>2 DEF Update, Files, Names
    <3> QED  BY <2>2, <3>1
  <2>3. CASE Finish(p)
    <3>1. CASE Goes(p, {"serving", "stopping"}, "over") /\ Update(p, "over")
      BY <2>3, <3>1, <2>2 DEF Finish
    <3>2. CASE Goes(p, {"starting"}, "over") /\ UNCHANGED file
      BY <2>3, <3>2 DEF Finish
    <3> QED  BY <2>3, <3>1, <3>2 DEF Finish
  <2>4. CASE Stop(p)  BY <2>4, <2>2 DEF Stop
  <2>5. CASE Run(p)  BY <2>5, <2>2 DEF Run
  <2>6. CASE Declare(p)  BY <2>6, <2>2 DEF Declare
  <2> QED  BY <1>1, <2>1, <2>3, <2>4, <2>5, <2>6
<1>2. ASSUME NEW p \in Pids, TryLock(p)
      PROVE  InstanceTypeOK' /\ LockInv' /\ (lock' = Installer <=> lock = Installer)
  BY <1>2 DEF TryLock, MayLock
<1>3. ASSUME NEW p \in Pids, ClearSockets(p) \/ Serve(p)
      PROVE  InstanceTypeOK' /\ LockInv' /\ lock' = lock
  BY <1>3 DEF ClearSockets, Serve
<1>4. ASSUME NEW p \in Pids, Close(p)
      PROVE  InstanceTypeOK' /\ LockInv' /\ (lock' = Installer <=> lock = Installer)
  <2>1. CASE Goes(p, {"over"}, "closing") /\ socket' = Nobody /\ UNCHANGED <<lock, file, main, query>>
    BY <2>1
  <2>2. CASE Goes(p, {"closing"}, "dead") /\ lock' = Nobody /\ UNCHANGED <<socket, file, main, query>>
    BY <2>2
  <2> QED  BY <1>4, <2>1, <2>2 DEF Close, CloseOrder
<1>5. ASSUME NEW p \in Pids, Killed(p)
      PROVE  InstanceTypeOK' /\ LockInv' /\ (lock' = Installer <=> lock = Installer)
  BY <1>5 DEF Killed
<1>6. CASE Reap  BY <1>6 DEF Reap
<1>7. ASSUME UNCHANGED <<proc, lock, socket, file, main>>,
             query' \in [at : {"idle", "pid", "state", "alive"}, main : Pids \cup {Nobody},
                         file : Files, live : BOOLEAN,
                         answer : {"none", "running", "starting", "stopped", "error"}]
      PROVE  InstanceTypeOK' /\ LockInv' /\ lock' = lock
  BY <1>7
<1>8. NoQuery \in [at : {"idle", "pid", "state", "alive"}, main : Pids \cup {Nobody},
                   file : Files, live : BOOLEAN,
                   answer : {"none", "running", "starting", "stopped", "error"}]
  BY DEF NoQuery, NoFile, Files, Names
<1>9. CASE IsActive  BY <1>7, <1>8, <1>9 DEF IsActive, Ask
<1>10. CASE MainPid  BY <1>7, <1>10 DEF MainPid, Ask
<1>11. CASE ReadState  BY <1>7, <1>11 DEF ReadState, Ask
<1>12. CASE PidIsAlive
  <2>1. PICK a \in {"running", "starting", "stopped", "error"} : query' = Answered(a)
    BY <1>12 DEF PidIsAlive, Ask
  <2> QED  BY <1>7, <1>8, <1>12, <2>1 DEF PidIsAlive, Ask, Answered
<1> QED
  BY <1>1, <1>2, <1>3, <1>4, <1>5, <1>6, <1>9, <1>10, <1>11, <1>12 DEF InstanceNext

-----------------------------------------------------------------------------
(* What is at the paths.                                                     *)

\* Nothing is touched at first.
LEMMA InitPaths == Init => PathInv
<1> SUFFICES ASSUME Init PROVE PathInv  OBVIOUS
<1> USE DEF Init
<1>1. BeforeInv  BY DEF BeforeInv, Clean, Untouched
<1> QED
  BY <1>1 DEF PathInv, ReplaceInv, RollbackInv, AfterInv, Replacing

\* A replacement leaves what was old in its place or in its backup, and the lists
\* say enough to undo it, wherever it is cut off.
LEMMA CutOff ==
  ASSUME TypeOK, ReplaceInv, at \in Replacing, NEW k \in Paths
  PROVE  /\ Safe(k)
         /\ k \in committed => target[k] # "old"
         /\ k \in saved => backup[k] = "old"
         /\ at \in {"save", "commit", "chmod"} =>
              (k \notin committed /\ k \notin saved => target[k] = before[k])
         /\ k \in committed /\ k \notin saved => before[k] = "none"
         /\ k \in saved => before[k] = "old"
<1> USE DEF TypeOK, Paths
<1>1. Replaced(k) \/ Untouched(k) \/ Between(k)
  BY DEF ReplaceInv, Replacing
<1>2. New[k] \in {"none", "new"}  BY DEF New
<1>3. before[k] \in {"old", "none"}  OBVIOUS
<1> QED
  BY <1>1, <1>2, <1>3 DEF Replaced, Untouched, Between, Safe

\* What the viewers do leaves the paths alone.
LEMMA KeepsPaths ==
  ASSUME PathInv, UNCHANGED installVars
  PROVE  PathInv'
BY DEF PathInv, installVars, BeforeInv, ReplaceInv, RollbackInv, AfterInv, Clean, Untouched,
   Replaced, Between, Safe, New

\* While it replaces, one path after the other
LEMMA ReplaceSteps ==
  ASSUME TypeOK, PathInv, Save \/ Saved \/ Commit \/ Committed
  PROVE  PathInv'
<1> USE DEF TypeOK, Paths, Replacing
<1>1. at \in Replacing /\ at' \in Replacing /\ ReplaceInv
  BY DEF Save, Saved, Commit, Committed, PathInv
<1>a. UNCHANGED <<op, before, recovery, cut>>
  BY DEF Save, Saved, Commit, Committed
<1>2. op' = "install" /\ Clean' /\ UNCHANGED before
  BY <1>1, <1>a, Zenon DEF ReplaceInv, Clean
<1>3. ASSUME NEW k \in Paths
      PROVE  /\ k < index' \/ (k = index' /\ at' = "chmod") => Replaced(k)'
             /\ k > index' \/ (k = index' /\ at' = "save") => Untouched(k)'
             /\ k = index' /\ at' \in {"saved", "commit", "committed"} => Between(k)'
  <2> USE <1>1, <1>3 DEF ReplaceInv, Replaced, Untouched, Between, New
  <2>1. CASE Save  BY <2>1 DEF Save
  <2>2. CASE Saved  BY <2>2 DEF Saved
  <2>3. CASE Commit  BY <2>3 DEF Commit
  <2>4. CASE Committed  BY <2>4 DEF Committed
  <2> QED  BY <2>1, <2>2, <2>3, <2>4
<1>4. at' = "chmod" => index' = Owned
  BY DEF Save, Saved, Commit, Committed
<1>5. ReplaceInv'
  BY <1>2, <1>3, <1>4 DEF ReplaceInv
<1> QED
  BY <1>1, <1>5 DEF PathInv, BeforeInv, RollbackInv, AfterInv


\* The replacement begins or is over, the backups are removed.
LEMMA Around ==
  ASSUME TypeOK, PathInv, Begin \/ Staged \/ CheckStopped \/ Chmod \/ RemoveBackup
  PROVE  PathInv'
<1> USE DEF TypeOK, Paths, Replacing, PathInv
<1>1. CASE Begin
  <2> USE <1>1 DEF Begin, BeforeInv
  <2>1. Clean /\ \A k \in Paths : Untouched(k)  OBVIOUS
  <2>2. Clean' /\ \A k \in Paths : Untouched(k)'  BY <2>1, Zenon DEF Clean, Untouched
  <2> QED  BY <2>2 DEF ReplaceInv, RollbackInv, AfterInv
<1>2. CASE Staged
  <2> USE <1>2 DEF Staged, BeforeInv
  <2>1. Clean /\ \A k \in Paths : Untouched(k)  OBVIOUS
  <2>2. Clean' /\ \A k \in Paths : Untouched(k)'  BY <2>1, Zenon DEF Clean, Untouched
  <2> QED  BY <2>2 DEF ReplaceInv, RollbackInv, AfterInv
<1>3. CASE CheckStopped
  <2> USE <1>3 DEF CheckStopped, BeforeInv
  <2>1. Clean /\ \A k \in Paths : Untouched(k)  OBVIOUS
  <2>2. Clean' /\ \A k \in Paths : Untouched(k)'  BY <2>1, Zenon DEF Clean, Untouched
  <2>3. op \in {"install", "uninstall"}  BY DEF AfterInv
  <2> QED  BY <2>2, <2>3 DEF ReplaceInv, RollbackInv, AfterInv
<1>4. CASE Chmod
  <2> USE <1>4 DEF Chmod, ReplaceInv
  <2>1. \A k \in Paths : target[k] = New[k]  BY DEF Replaced
  <2>2. target = New  BY <2>1 DEF New
  <2> QED  BY <2>2 DEF BeforeInv, RollbackInv, AfterInv, New
<1>5. CASE RemoveBackup
  BY <1>5 DEF RemoveBackup, BeforeInv, ReplaceInv, RollbackInv, AfterInv, New
<1> QED  BY <1>1, <1>2, <1>3, <1>4, <1>5

\* A failure begins the rollback.
LEMMA RaisesSafe ==
  ASSUME TypeOK, PathInv, Raises
  PROVE  PathInv'
<1> USE DEF TypeOK, Paths, Replacing
<1>1. /\ at \in Replacing /\ ReplaceInv /\ at' = "rollback" /\ op' = "install"
      /\ UNCHANGED <<target, backup, committed, saved, before, recovery>>
  BY DEF Raises, PathInv, ReplaceInv
<1>2. Clean' => at \in {"save", "commit", "chmod"}
  BY DEF Raises, Clean
<1>3. ASSUME NEW k \in Paths
      PROVE  /\ Safe(k)'
             /\ k \in committed' => target'[k] # "old"
             /\ k \in saved' => backup'[k] = "old"
             /\ Clean' =>
                  /\ k \notin committed' /\ k \notin saved' => target'[k] = before'[k]
                  /\ k \in committed' /\ k \notin saved' => before'[k] = "none"
                  /\ k \in saved' => before'[k] = "old"
  BY <1>1, <1>2, <1>3, CutOff DEF Safe
<1>4. RollbackInv'  BY <1>1, <1>3 DEF RollbackInv
<1> QED  BY <1>1, <1>4 DEF PathInv, BeforeInv, ReplaceInv, AfterInv

\* The rollback removes what is new and puts back what is old.
LEMMA RollbackSafe ==
  ASSUME TypeOK, PathInv, RollbackRemove \/ RollbackRestore
  PROVE  PathInv'
<1> USE DEF TypeOK, Paths, Replacing
<1>1. at = "rollback" /\ RollbackInv /\ UNCHANGED <<at, op, before, cut>>
  BY DEF RollbackRemove, RollbackRestore, PathInv
<1>2. ASSUME NEW k \in Paths
      PROVE  /\ Safe(k)'
             /\ k \in committed' => target'[k] # "old"
             /\ k \in saved' => backup'[k] = "old"
             /\ Clean' =>
                  /\ k \notin committed' /\ k \notin saved' => target'[k] = before'[k]
                  /\ k \in committed' /\ k \notin saved' => before'[k] = "none"
                  /\ k \in saved' => before'[k] = "old"
  <2> USE <1>1, <1>2 DEF RollbackInv, Safe, Clean
  <2>1. CASE RollbackRemove
    <3>1. PICK j \in Paths : /\ LastOf(committed, j) /\ committed' = committed \ {j}
                             /\ \/ target' = [target EXCEPT ![j] = "none"] /\ UNCHANGED recovery
                                \/ /\ target[j] # "none" /\ recovery' = recovery \cup {j}
                                   /\ target' = IF j = 1 THEN [target EXCEPT ![j] = "part"] ELSE target
      BY <2>1 DEF RollbackRemove
    <3>2. j \in committed /\ UNCHANGED <<backup, saved>>  BY <2>1, <3>1 DEF RollbackRemove, LastOf
    <3> QED  BY <3>1, <3>2
  <2>2. CASE RollbackRestore
    <3>1. PICK j \in Paths :
            /\ LastOf(saved, j) /\ saved' = saved \ {j}
            /\ \/ /\ target' = [target EXCEPT ![j] = backup[j]]
                  /\ backup' = [backup EXCEPT ![j] = "none"] /\ UNCHANGED recovery
               \/ recovery' = recovery \cup {j} /\ UNCHANGED <<target, backup>>
      BY <2>2 DEF RollbackRestore
    <3>2. j \in saved /\ committed = {} /\ committed' = {}
      BY <2>2, <3>1 DEF RollbackRestore, LastOf, MayRestore
    <3> QED  BY <3>1, <3>2
  <2> QED  BY <2>1, <2>2
<1>3. RollbackInv'  BY <1>1, <1>2 DEF RollbackInv
<1> QED  BY <1>1, <1>3 DEF PathInv, BeforeInv, ReplaceInv, AfterInv

\* Removal is of an uninstallation only.
LEMMA RemoveSafe ==
  ASSUME TypeOK, PathInv, Remove \/ RemoveNext
  PROVE  PathInv'
BY DEF TypeOK, Remove, RemoveNext, PathInv, BeforeInv, ReplaceInv, RollbackInv, AfterInv, Replacing

\* However it ends, what was old is still there or the new is complete.
LEMMA EndSafe ==
  ASSUME TypeOK, PathInv, Ends \/ Cut
  PROVE  PathInv'
<1> USE DEF TypeOK, Paths, Ended, Replacing
<1>1. at' \in {"done", "failed", "killed"} /\ at \notin Ended
      /\ UNCHANGED <<op, target, backup, before, recovery>>
  BY DEF Ends, Cut
<1>2. SUFFICES ASSUME op = "install"
               PROVE  /\ target # New => \A k \in Paths : Safe(k)
                      /\ Clean' => target \in {before, New}
  BY <1>1 DEF PathInv, BeforeInv, ReplaceInv, RollbackInv, AfterInv, Safe, New
<1>3. CASE at \in {"stage", "check"}
  <2>1. \A k \in Paths : Untouched(k)  BY <1>3 DEF PathInv, BeforeInv
  <2>2. target = before  BY <2>1 DEF Untouched
  <2> QED  BY <2>1, <2>2 DEF Untouched, Safe
<1>4. CASE at \in Replacing
  <2>1. \A k \in Paths : Safe(k)  BY <1>4, CutOff DEF PathInv
  <2>2. ~Clean'  BY <1>4 DEF Ends, Cut, Clean
  <2> QED  BY <2>1, <2>2
<1>5. CASE at = "rollback"
  <2> USE <1>5 DEF PathInv, RollbackInv
  <2>1. \A k \in Paths : Safe(k)  OBVIOUS
  <2>2. ASSUME Clean' PROVE target = before
    <3>1. committed = {} /\ saved = {} /\ Clean  BY <1>1, <2>2 DEF Ends, Cut, Clean
    <3>2. \A k \in Paths : target[k] = before[k]  BY <3>1
    <3> QED  BY <3>2
  <2> QED  BY <2>1, <2>2
<1>6. CASE at = "backups"
  BY <1>6 DEF PathInv, AfterInv
<1> QED  BY <1>1, <1>2, <1>3, <1>4, <1>5, <1>6 DEF PathInv, AfterInv

-----------------------------------------------------------------------------
(* The theorems.                                                             *)

IInv == TypeOK /\ LockInv /\ PathInv

\* The installer's steps keep the invariant, ...
LEMMA InstallSteps ==
  ASSUME IInv, InstallNext
  PROVE  IInv'
<1>1. TypeOK /\ LockInv /\ PathInv  BY DEF IInv
<1>2. InstanceTypeOK' /\ LockInv'  BY <1>1, InstallerLock
<1>3. TypeOK'  BY <1>1, <1>2, InstallerTypes
<1>4. PathInv'
  BY <1>1, Around, ReplaceSteps, RaisesSafe, RollbackSafe, RemoveSafe, EndSafe DEF InstallNext
<1> QED  BY <1>2, <1>3, <1>4 DEF IInv

\* ... and so do the viewers'.
LEMMA InstanceSteps ==
  ASSUME IInv, InstanceNext, UNCHANGED installVars
  PROVE  IInv'
<1>1. TypeOK /\ LockInv /\ PathInv  BY DEF IInv
<1>2. InstanceTypeOK' /\ LockInv' /\ (lock' = Installer <=> lock = Installer)
  BY <1>1, InstanceTypes
<1>3. TypeOK'  BY <1>1, <1>2 DEF TypeOK, installVars
<1> QED  BY <1>1, <1>2, <1>3, KeepsPaths DEF IInv

\* The invariant holds of every reachable state, whatever the number of processes
\* and of paths.
LEMMA Invariance == Spec => []IInv
<1>1. Init => IInv  BY InitTypes, InitPaths DEF IInv
<1>2. ASSUME IInv, UNCHANGED vars PROVE IInv'
  <2>1. UNCHANGED instanceVars /\ UNCHANGED installVars  BY <1>2 DEF vars
  <2>2. PathInv'  BY <1>2, <2>1, KeepsPaths DEF IInv
  <2>3. InstanceTypeOK' /\ LockInv'
    BY <1>2, <2>1 DEF IInv, TypeOK, InstanceTypeOK, LockInv, instanceVars
  <2>4. TypeOK'  BY <1>2, <2>1, <2>3 DEF IInv, TypeOK, installVars, instanceVars
  <2> QED  BY <2>2, <2>3, <2>4 DEF IInv
<1>3. IInv /\ [Next]_vars => IInv'
  BY <1>2, InstallSteps, InstanceSteps DEF Next
<1> QED  BY <1>1, <1>3, PTL DEF Spec

\* The lock has one owner, which is the installer exactly while it works, and every
\* variable of the two modules keeps its type.
THEOREM TypeCorrect == Spec => []TypeOK
<1>1. IInv => TypeOK  BY DEF IInv
<1> QED  BY <1>1, Invariance, PTL

\* install(): the old version of every owned path is in its place or its backup until
\* the new one is complete, wherever the installer fails or is killed; and who gets
\* the lock afterwards finds the old version or the new one, unless there was an
\* interrupt or an incomplete rollback was reported.
THEOREM OldOrNewHolds == Spec => []OldOrNew
<1>1. IInv => OldOrNew
  <2> SUFFICES ASSUME IInv PROVE OldOrNew  OBVIOUS
  <2> USE DEF IInv, TypeOK, PathInv, Ended, Replacing
  <2>1. ASSUME op = "install", target # New, NEW k \in Paths
        PROVE  Safe(k)
    <3>1. CASE at \in {"stage", "check"}
      BY <2>1, <3>1 DEF BeforeInv, Untouched, Safe
    <3>2. CASE at \in Replacing  BY <2>1, <3>2, CutOff
    <3>3. CASE at = "rollback"  BY <2>1, <3>3 DEF RollbackInv
    <3>4. CASE at \in {"idle", "backups", "remove"} \cup {"done", "failed", "killed"}
      BY <2>1, <3>4 DEF AfterInv
    <3> QED  BY <3>1, <3>2, <3>3, <3>4
  <2>2. ASSUME lock \in Pids, op = "install", Clean
        PROVE  target \in {before, New}
    <3>1. at \in Ended  BY <2>2
    <3> QED  BY <2>2, <3>1 DEF AfterInv
  <2> QED  BY <2>1, <2>2 DEF OldOrNew, Safe, Clean
<1> QED  BY <1>1, Invariance, PTL

-----------------------------------------------------------------------------
(* The socket and the status.                                                *)

\* A step of a viewer that may change a socket is of the one that has the lock.
LEMMA SocketSteps ==
  ASSUME TypeOK, LockInv, OwnSocket, Next
  PROVE  OwnSocket'
<1> USE DEF TypeOK, InstanceTypeOK, LockInv, OwnSocket, Holding, Goes
<1>1. CASE UNCHANGED <<proc, socket>>
  BY <1>1
<1>2. ASSUME NEW p \in Pids, UNCHANGED socket,
             Launch(p) \/ TryLock(p) \/ Declare(p) \/ Finish(p) \/ Killed(p)
      PROVE  OwnSocket'
  BY <1>2 DEF Launch, TryLock, Declare, Finish, Killed
<1>3. ASSUME NEW p \in Pids, Run(p) \/ Stop(p)
      PROVE  OwnSocket'
  BY <1>3 DEF Run, Stop
<1>4. ASSUME NEW p \in Pids, ClearSockets(p) \/ Serve(p)
      PROVE  OwnSocket'
  BY <1>4 DEF ClearSockets, Serve
<1>5. ASSUME NEW p \in Pids, Close(p)
      PROVE  OwnSocket'
  <2>1. CASE Goes(p, {"over"}, "closing") /\ socket' = Nobody
    BY <2>1
  <2>2. CASE Goes(p, {"closing"}, "dead") /\ UNCHANGED socket
    BY <2>2
  <2> QED  BY <1>5, <2>1, <2>2 DEF Close, CloseOrder
<1>6. ASSUME NEW p \in Pids,
             Launch(p) \/ TryLock(p) \/ Declare(p) \/ Finish(p) \/ Killed(p)
      PROVE  UNCHANGED socket
  BY <1>6 DEF Launch, TryLock, Declare, Finish, Killed
<1>7. ASSUME Reap \/ IsActive \/ MainPid \/ ReadState \/ PidIsAlive
      PROVE  UNCHANGED <<proc, socket>>
  BY <1>7 DEF Reap, IsActive, MainPid, ReadState, PidIsAlive, Ask
<1>8. ASSUME InstallNext
      PROVE  UNCHANGED <<proc, socket>>
  BY <1>8 DEF InstallNext, Begin, Staged, CheckStopped, Save, Saved, Commit, Committed, Chmod,
     RemoveBackup, Raises, RollbackRemove, RollbackRestore, Remove, RemoveNext, Ends, Cut,
     Free, instanceVars
<1> QED
  BY <1>1, <1>2, <1>3, <1>4, <1>5, <1>6, <1>7, <1>8 DEF Next, InstanceNext

\* lifecycle.py: the viewer that serves has its own socket, so that a command reaches it.
THEOREM OwnSocketHolds == Spec => []OwnSocket
<1>1. Init => OwnSocket  BY DEF Init, InstanceInit, OwnSocket
<1>2. IInv /\ OwnSocket /\ [Next]_vars => OwnSocket'
  <2> SUFFICES ASSUME IInv, OwnSocket, [Next]_vars PROVE OwnSocket'  OBVIOUS
  <2>1. CASE Next  BY <2>1, SocketSteps DEF IInv
  <2>2. CASE UNCHANGED vars  BY <2>2 DEF vars, instanceVars, OwnSocket
  <2> QED  BY <2>1, <2>2
<1> QED  BY <1>1, <1>2, Invariance, PTL DEF Spec

\* A process that state.json calls running runs, or has been killed since.
FileInv == file.name = "running" => file.pid \in Pids /\ proc[file.pid] \in {"running", "dead"}

\* What the query has read was true then, or its process is dead and stays so.
QueryInv ==
  /\ query.at # "idle" => query.answer = "none"
  /\ query.at = "alive" /\ query.file.name = "running" =>
       query.live \/ (query.file.pid \in Pids /\ proc[query.file.pid] = "dead")

StatusInv == FileInv /\ QueryInv /\ StatusIsTrue

\* A viewer's step keeps what the file and the query say of it.
LEMMA ViewerStatus ==
  ASSUME TypeOK, StatusInv, NEW p \in Pids,
         \/ Launch(p) \/ TryLock(p) \/ ClearSockets(p) \/ Declare(p) \/ Serve(p) \/ Run(p)
         \/ Stop(p) \/ Finish(p) \/ Close(p) \/ Killed(p)
  PROVE  StatusInv'
<1> USE DEF TypeOK, InstanceTypeOK, Goes
<1>1. UNCHANGED query
  BY DEF Launch, TryLock, ClearSockets, Declare, Serve, Run, Stop, Finish, Close, Killed
<1>2. \A q \in Pids : proc[q] = "dead" /\ proc'[q] # "dead" => q # query.file.pid /\ q # file.pid
  BY DEF Launch, TryLock, ClearSockets, Declare, Serve, Run, Stop, Finish, Close, Killed
<1>3. QueryInv' /\ StatusIsTrue'
  BY <1>1, <1>2 DEF StatusInv, QueryInv, StatusIsTrue, Holding
<1>4. FileInv'
  <2>1. ASSUME UNCHANGED file, \A q \in Pids : proc[q] = "running" => proc'[q] \in {"running", "dead"}
        PROVE  FileInv'
    BY <1>2, <2>1 DEF StatusInv, FileInv, Holding
  <2>2. CASE Launch(p) \/ TryLock(p) \/ ClearSockets(p) \/ Serve(p) \/ Close(p) \/ Killed(p)
    BY <2>1, <2>2 DEF Launch, TryLock, ClearSockets, Serve, Close, Killed, Holding
  <2>3. CASE Declare(p) \/ Stop(p) \/ (Finish(p) /\ Update(p, "over"))
    BY <2>3 DEF Declare, Stop, Finish, Update, FileInv
  <2>4. CASE Finish(p) /\ UNCHANGED file
    BY <2>1, <2>4 DEF Finish, Holding
  <2>5. CASE Run(p)
    BY <2>5 DEF Run, Update, FileInv
  <2>6. Finish(p) => Update(p, "over") \/ UNCHANGED file
    BY DEF Finish
  <2> QED  BY <2>2, <2>3, <2>4, <2>5, <2>6
<1> QED  BY <1>3, <1>4 DEF StatusInv

\* A step of the status command
LEMMA QueryStatus ==
  ASSUME TypeOK, StatusInv, IsActive \/ MainPid \/ ReadState \/ PidIsAlive
  PROVE  StatusInv'
<1> USE DEF TypeOK, InstanceTypeOK, StatusInv
<1>1. UNCHANGED <<proc, file>>
  BY DEF IsActive, MainPid, ReadState, PidIsAlive, Ask
<1>2. FileInv'  BY <1>1 DEF FileInv
<1>3. CASE IsActive
  <2>1. \/ query'.at = "idle" /\ query'.answer = "stopped"
        \/ query'.at = "pid" /\ query'.answer = "none"
    BY <1>3 DEF IsActive, Ask, NoQuery
  <2> QED  BY <1>2, <2>1 DEF QueryInv, StatusIsTrue
<1>4. CASE MainPid
  BY <1>2, <1>4 DEF MainPid, Ask, QueryInv, StatusIsTrue
<1>5. CASE ReadState
  <2>1. /\ query.at = "state" /\ query'.at = "alive" /\ query'.file = file
        /\ query'.answer = query.answer
        /\ query'.live = (file.pid # Nobody /\ proc[file.pid] = "running")
    BY <1>5 DEF ReadState, Ask
  <2>2. query'.file.name = "running" =>
          query'.live \/ (query'.file.pid \in Pids /\ proc'[query'.file.pid] = "dead")
    BY <1>1, <2>1 DEF FileInv
  <2> QED  BY <1>2, <2>1, <2>2 DEF QueryInv, StatusIsTrue
<1>6. CASE PidIsAlive
  <2>1. query.at = "alive" /\ query'.at = "idle" /\ query'.live = query.live
    BY <1>6 DEF PidIsAlive, Ask, Answered, NoQuery
  <2>2. query'.answer = "running" =>
          query.file.name = "running" /\ query.file.pid = query.main /\ proc[query.main] # "dead"
    BY <1>6 DEF PidIsAlive, Ask, Answered, NoQuery, ProcessValid
  <2>3. query'.answer = "running" => query.live
    BY <2>1, <2>2 DEF QueryInv
  <2> QED  BY <1>2, <2>1, <2>3 DEF QueryInv, StatusIsTrue
<1> QED  BY <1>2, <1>3, <1>4, <1>5, <1>6

\* cli.py: "running" is answered only of a process that was running meanwhile; a file
\* that a killed viewer left does not deceive it.
THEOREM StatusIsTrueHolds == Spec => []StatusIsTrue
<1>1. Init => StatusInv
  BY DEF Init, InstanceInit, NoFile, NoQuery, StatusInv, FileInv, QueryInv, StatusIsTrue
<1>2. IInv /\ StatusInv /\ [Next]_vars => StatusInv'
  <2> SUFFICES ASSUME IInv, StatusInv, [Next]_vars PROVE StatusInv'  OBVIOUS
  <2>1. TypeOK  BY DEF IInv
  <2>2. ASSUME UNCHANGED <<proc, file, query>> PROVE StatusInv'
    BY <2>2 DEF StatusInv, FileInv, QueryInv, StatusIsTrue
  <2>3. CASE InstallNext
    BY <2>2, <2>3 DEF InstallNext, Begin, Staged, CheckStopped, Save, Saved, Commit, Committed,
       Chmod, RemoveBackup, Raises, RollbackRemove, RollbackRestore, Remove, RemoveNext, Ends,
       Cut, Free, instanceVars
  <2>4. CASE InstanceNext
    BY <2>1, <2>2, <2>4, ViewerStatus, QueryStatus DEF InstanceNext, Reap
  <2>5. CASE UNCHANGED vars  BY <2>2, <2>5 DEF vars, instanceVars
  <2> QED  BY <2>3, <2>4, <2>5 DEF Next
<1>3. StatusInv => StatusIsTrue  BY DEF StatusInv
<1> QED  BY <1>1, <1>2, <1>3, Invariance, PTL DEF Spec

=============================================================================
