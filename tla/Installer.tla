------------------------------- MODULE Installer -------------------------------
(***************************************************************************)
(* install() and uninstall() of src/packaging/install_support.py, beside   *)
(* the viewers of LinuxInstance, whose lock they hold meanwhile.           *)
(*                                                                         *)
(* Each owned path is moved to its backup and the prepared one put in its  *)
(* place.  A call may raise before it takes effect, and an interrupt or a  *)
(* kill may come between any two steps, so what was done and the list that *)
(* records it are steps of their own.                                      *)
(***************************************************************************)
EXTENDS LinuxInstance

CONSTANTS
  Owned,    \* how many owned paths there are; the first is the app directory
  Obsolete  \* those that are removed and not made again

ASSUME OwnedAssumption == Owned \in Nat \ {0} /\ Obsolete \subseteq 2..Owned

VARIABLES
  at, op,      \* where the installer is, and whether it installs or uninstalls
  index,       \* the path it deals with
  target,      \* what is at each path: old, new, a part, or nothing
  backup,      \* what is at its backup
  committed, saved,  \* the lists of install()
  recovery,    \* recovery_errors
  before,      \* history: what was at each path
  cut          \* history: the installer was interrupted or killed

installVars == <<at, op, index, target, backup, committed, saved, recovery, before, cut>>
vars == <<instanceVars, installVars>>

Paths == 1..Owned
Replacing == {"save", "saved", "commit", "committed", "chmod"}
Ended == {"idle", "done", "failed", "killed"}

TypeOK ==
  /\ InstanceTypeOK
  /\ lock = Installer <=> at \notin Ended
  /\ at \in Ended \cup Replacing \cup {"stage", "check", "rollback", "backups", "remove"}
  /\ op \in {"none", "install", "uninstall"} /\ index \in Paths
  /\ target \in [Paths -> {"old", "new", "part", "none"}]
  /\ backup \in [Paths -> {"old", "none"}] /\ before \in [Paths -> {"old", "none"}]
  /\ committed \subseteq Paths /\ saved \subseteq Paths /\ recovery \subseteq Paths
  /\ cut \in BOOLEAN

Init ==
  /\ InstanceInit
  /\ at = "idle" /\ op = "none" /\ index = 1
  /\ before \in [Paths -> {"old", "none"}] /\ target = before
  /\ backup = [k \in Paths |-> "none"]
  /\ committed = {} /\ saved = {} /\ recovery = {} /\ cut = FALSE

Free == lock' = Nobody /\ UNCHANGED <<proc, socket, file, main, query>>

-----------------------------------------------------------------------------

\* operation_lock() and application_guard()
Begin ==
  /\ at = "idle" /\ lock = Nobody /\ lock' = Installer
  /\ op' \in {"install", "uninstall"}
  /\ at' = IF op' = "install" THEN "stage" ELSE "check"
  /\ UNCHANGED <<proc, socket, file, main, query, index, target, backup, committed, saved,
                 recovery, before, cut>>

\* The new files are made beside the old ones.
Staged ==
  /\ at = "stage" /\ at' = "check"
  /\ UNCHANGED <<instanceVars, op, index, target, backup, committed, saved, recovery,
                 before, cut>>

\* require_stopped()
CheckStopped ==
  /\ at = "check" /\ main = Nobody
  /\ at' = IF op = "install" THEN "save" ELSE "remove"
  /\ index' = IF op = "install" THEN 1 ELSE Owned
  /\ UNCHANGED <<instanceVars, op, target, backup, committed, saved, recovery, before, cut>>

\* os.replace(target, backups[key])
Save ==
  /\ at = "save"
  /\ at' = IF target[index] = "none" THEN "commit" ELSE "saved"
  /\ target' = [target EXCEPT ![index] = "none"]
  /\ backup' = [backup EXCEPT ![index] = target[index]]
  /\ UNCHANGED <<instanceVars, op, index, committed, saved, recovery, before, cut>>

\* saved.append(key)
Saved ==
  /\ at = "saved" /\ at' = "commit" /\ saved' = saved \cup {index}
  /\ UNCHANGED <<instanceVars, op, index, target, backup, committed, recovery, before, cut>>

\* os.replace(prepared[key], target)
Commit ==
  /\ at = "commit" /\ at' = "committed"
  /\ target' = IF index \in Obsolete THEN target ELSE [target EXCEPT ![index] = "new"]
  /\ UNCHANGED <<instanceVars, op, index, backup, committed, saved, recovery, before, cut>>

\* committed.append(key), and the next path
Committed ==
  /\ at = "committed" /\ committed' = committed \cup {index}
  /\ at' = IF index = Owned THEN "chmod" ELSE "save"
  /\ index' = IF index = Owned THEN index ELSE index + 1
  /\ UNCHANGED <<instanceVars, op, target, backup, saved, recovery, before, cut>>

Chmod ==
  /\ at = "chmod" /\ at' = "backups"
  /\ UNCHANGED <<instanceVars, op, index, target, backup, committed, saved, recovery,
                 before, cut>>

\* The installation has succeeded: the backups go, one after the other.
RemoveBackup ==
  /\ at = "backups"
  /\ \E k \in Paths :
       /\ backup[k] # "none" /\ \A j \in 1..(k - 1) : backup[j] = "none"
       /\ backup' = [backup EXCEPT ![k] = "none"]
  /\ UNCHANGED <<instanceVars, at, op, index, target, committed, saved, recovery, before,
                 cut>>

\* A call raises, or an interrupt comes after any step.
Raises ==
  /\ \/ at \in {"save", "commit", "chmod"} /\ UNCHANGED cut
     \/ at \in Replacing /\ cut' = TRUE
  /\ at' = "rollback"
  /\ UNCHANGED <<instanceVars, op, index, target, backup, committed, saved, recovery,
                 before>>

LastOf(S, k) == k \in S /\ \A j \in S : j <= k

\* The rollback removes what was put in place, the last one first.
RollbackRemove ==
  /\ at = "rollback"
  /\ \E k \in Paths :
        /\ LastOf(committed, k) /\ committed' = committed \ {k}
        /\ \/ target' = [target EXCEPT ![k] = "none"] /\ UNCHANGED recovery
           \/ /\ target[k] # "none" /\ recovery' = recovery \cup {k}
              /\ target' = IF k = 1 THEN [target EXCEPT ![k] = "part"] ELSE target
  /\ UNCHANGED <<instanceVars, at, op, index, backup, saved, before, cut>>

\* Mutated: the rollback restores before it has removed.
MayRestoreMutant == saved # {}

MayRestore == saved # {} /\ committed = {}

\* Then it puts the backups back; a directory is not replaced by a rename.
RollbackRestore ==
  /\ at = "rollback" /\ MayRestore
  /\ \E k \in Paths :
        /\ LastOf(saved, k) /\ saved' = saved \ {k}
        /\ \/ /\ k # 1 \/ target[k] = "none"
              /\ target' = [target EXCEPT ![k] = backup[k]]
              /\ backup' = [backup EXCEPT ![k] = "none"] /\ UNCHANGED recovery
           \/ recovery' = recovery \cup {k} /\ UNCHANGED <<target, backup>>
  /\ UNCHANGED <<instanceVars, at, op, index, committed, before, cut>>

\* remove_exact of an owned path
Remove ==
  /\ at = "remove" /\ target[index] # "none"
  /\ target' = [target EXCEPT ![index] = "none"]
  /\ UNCHANGED <<instanceVars, at, op, index, backup, committed, saved, recovery, before,
                 cut>>

RemoveNext ==
  /\ at = "remove" /\ target[index] = "none" /\ index > 1 /\ index' = index - 1
  /\ UNCHANGED <<instanceVars, at, op, target, backup, committed, saved, recovery, before,
                 cut>>

\* Both locks are freed as their blocks are left.
Ends ==
  /\ Free
  /\ \/ /\ at' = "done"
        /\ \/ at = "backups" /\ \A k \in Paths : backup[k] = "none"
           \/ at = "remove" /\ index = 1 /\ target[1] = "none"
     \/ /\ at' = "failed"
        /\ \/ at \in {"stage", "remove", "backups"}
           \/ at = "check"
           \/ at = "rollback" /\ committed = {} /\ saved = {}
  /\ UNCHANGED <<op, index, target, backup, committed, saved, recovery, before, cut>>

\* A kill, or an interrupt of the rollback itself.
Cut ==
  /\ at \notin Ended /\ at' = "killed" /\ cut' = TRUE /\ Free
  /\ UNCHANGED <<op, index, target, backup, committed, saved, recovery, before>>

InstallNext ==
  \/ Begin \/ Staged \/ CheckStopped \/ Save \/ Saved \/ Commit \/ Committed \/ Chmod
  \/ RemoveBackup \/ Raises \/ RollbackRemove \/ RollbackRestore \/ Remove \/ RemoveNext
  \/ Ends \/ Cut

Next == \/ InstanceNext /\ UNCHANGED installVars
        \/ InstallNext

Spec == Init /\ [][Next]_vars

-----------------------------------------------------------------------------
(* Properties.                                                               *)

New == [k \in Paths |-> IF k \in Obsolete THEN "none" ELSE "new"]

\* install(): what was installed is at its path or in its backup until all of the
\* new version is in place, whatever fails and whenever it is killed; and a viewer
\* that has the lock finds the old version or the new one, unless the installer was
\* interrupted or has said that its rollback is incomplete.
OldOrNew ==
  /\ op = "install" /\ target # New =>
       \A k \in Paths : before[k] = "old" => "old" \in {target[k], backup[k]}
  /\ lock \in Pids /\ op = "install" /\ ~cut /\ recovery = {} => target \in {before, New}

=============================================================================
