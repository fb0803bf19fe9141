----------------------------- MODULE LinuxInstance -----------------------------
(***************************************************************************)
(* Viewer processes on Linux and the runtime directory they share: Runtime *)
(* of src/lifecycle.py with its lock, sockets and state.json, the process  *)
(* that src/mirror.py makes of it, and `iphone-mirror status` of           *)
(* src/cli.py, which looks at systemd, the file and the process one after  *)
(* the other.  A process may be killed at any moment: the system frees its *)
(* lock, and what it left in the directory stays.                          *)
(***************************************************************************)
EXTENDS FiniteSets, Sequences, Naturals

CONSTANTS
  Pids,      \* process identifiers
  Nobody,    \* no process
  Installer  \* who else takes the instance lock

ASSUME PidsAssumption == /\ IsFiniteSet(Pids) /\ Nobody \notin Pids
                         /\ Installer \notin Pids \cup {Nobody}

VARIABLES
  proc,    \* where each process is in its life
  lock,    \* who holds instance.lock
  socket,  \* who made the control.sock that is there
  file,    \* state.json: [pid, name]
  main,    \* the service's main process as systemd knows it
  query    \* a status command: [at, main, file, live, answer]

instanceVars == <<proc, lock, socket, file, main, query>>

Holding == {"locked", "cleared", "starting", "serving", "running", "stopping", "over",
            "closing"}
NoFile == [pid |-> Nobody, name |-> "none"]
NoQuery == [at |-> "idle", main |-> Nobody, file |-> NoFile, live |-> FALSE,
            answer |-> "none"]
Names == {"none", "starting", "running", "stopping", "over"}
Files == [pid : Pids \cup {Nobody}, name : Names]

\* The lock has the one owner that acquire() made, for as long as it needs it.
InstanceTypeOK ==
  /\ proc \in [Pids -> {"dead", "launched"} \cup Holding]
  /\ lock \in Pids \cup {Nobody, Installer}
  /\ \A p \in Pids : proc[p] \in Holding \ {"closing"} => lock = p
  /\ socket \in Pids \cup {Nobody} /\ file \in Files /\ main \in Pids \cup {Nobody}
  /\ query \in [at : {"idle", "pid", "state", "alive"}, main : Pids \cup {Nobody},
                file : Files, live : BOOLEAN,
                answer : {"none", "running", "starting", "stopped", "error"}]

InstanceInit ==
  /\ proc = [p \in Pids |-> "dead"] /\ lock = Nobody /\ socket = Nobody
  /\ file = NoFile /\ main = Nobody /\ query = NoQuery

-----------------------------------------------------------------------------
(* A viewer's life.                                                          *)

Goes(p, from, to) == proc[p] \in from /\ proc' = [proc EXCEPT ![p] = to]

\* The service is started, which does nothing if it is active, or mirror.py by
\* hand.  A pid is not used again while state.json or the query names it.
Launch(p) ==
  /\ Goes(p, {"dead"}, "launched")
  /\ p \notin {file.pid, query.main, query.file.pid, main}
  /\ main' \in {main} \cup (IF main = Nobody THEN {p} ELSE {})
  /\ UNCHANGED <<lock, socket, file, query>>

\* Mutated: a lock that another viewer holds is taken over.
MayLockMutant == lock # Installer

MayLock == lock = Nobody

\* acquire(): flock, or AlreadyRunning and the process ends
TryLock(p) ==
  /\ IF MayLock THEN Goes(p, {"launched"}, "locked") /\ lock' = p
                ELSE Goes(p, {"launched"}, "dead") /\ UNCHANGED lock
  /\ UNCHANGED <<socket, file, main, query>>

\* acquire(): the sockets that a killed viewer left
ClearSockets(p) ==
  /\ Goes(p, {"locked"}, "cleared") /\ socket' = Nobody
  /\ UNCHANGED <<lock, file, main, query>>

Update(p, name) == file' = [pid |-> p, name |-> name]

Declare(p) ==
  /\ Goes(p, {"cleared"}, "starting") /\ Update(p, "starting")
  /\ UNCHANGED <<lock, socket, main, query>>

\* run(): the control socket is bound.
Serve(p) ==
  /\ Goes(p, {"starting"}, "serving") /\ socket' = p
  /\ UNCHANGED <<lock, file, main, query>>

Run(p) ==
  /\ Goes(p, {"serving"}, "running") /\ Update(p, "running")
  /\ UNCHANGED <<lock, socket, main, query>>

\* A stop, or a failure, also while it is starting.
Stop(p) ==
  /\ Goes(p, {"serving", "running"}, "stopping") /\ Update(p, "stopping")
  /\ UNCHANGED <<lock, socket, main, query>>

\* The end of run(), which a startup without a tunnel reaches with no cleanup, or
\* run() raises because the control socket cannot be bound.
Finish(p) ==
  /\ \/ Goes(p, {"serving", "stopping"}, "over") /\ Update(p, "over")
     \/ Goes(p, {"starting"}, "over") /\ UNCHANGED file
  /\ UNCHANGED <<lock, socket, main, query>>

\* Mutated: the lock is freed first.
CloseOrderMutant == <<"release", "unlink">>

\* close(): the sockets are removed while the lock is still held.
CloseOrder == <<"unlink", "release">>

Close(p) ==
  /\ \E i \in {1, 2} :
       /\ Goes(p, IF i = 1 THEN {"over"} ELSE {"closing"}, IF i = 1 THEN "closing" ELSE "dead")
       /\ IF CloseOrder[i] = "unlink" THEN socket' = Nobody /\ UNCHANGED lock
                                      ELSE lock' = Nobody /\ UNCHANGED socket
  /\ UNCHANGED <<file, main, query>>

\* SIGKILL, as systemd sends it when a stop takes longer than TimeoutStopSec.
Killed(p) ==
  /\ Goes(p, {"launched"} \cup Holding, "dead")
  /\ lock' = IF lock = p THEN Nobody ELSE lock
  /\ UNCHANGED <<socket, file, main, query>>

\* systemd notices that the main process has gone.
Reap ==
  /\ main # Nobody /\ proc[main] = "dead" /\ main' = Nobody
  /\ UNCHANGED <<proc, lock, socket, file, query>>

-----------------------------------------------------------------------------
(* current_status()                                                          *)

Ask(at, next) == query.at = at /\ query' = next /\ UNCHANGED <<proc, lock, socket, file, main>>

Answered(answer) == [NoQuery EXCEPT !.answer = answer, !.live = query.live]

IsActive ==
  Ask("idle", IF main = Nobody THEN [NoQuery EXCEPT !.answer = "stopped"]
                               ELSE [NoQuery EXCEPT !.at = "pid"])

MainPid == Ask("pid", [query EXCEPT !.at = "state", !.main = main])

\* `live` is history: the process that the file names was running at this moment.
ReadState ==
  Ask("state", [query EXCEPT !.at = "alive", !.file = file,
                             !.live = file.pid # Nobody /\ proc[file.pid] = "running"])

\* Mutated: the process is not looked at.
ProcessValidMutant(alive) == query.main # Nobody /\ query.file.pid = query.main

ProcessValid(alive) == query.main # Nobody /\ query.file.pid = query.main /\ alive

PidIsAlive ==
  LET alive == query.main # Nobody /\ proc[query.main] # "dead"
  IN Ask("alive",
         Answered(IF alive /\ query.file.pid # query.main THEN "starting"
                  ELSE IF ~ProcessValid(alive) THEN "error"
                  ELSE IF query.file.name = "running" THEN "running"
                  ELSE "stopped"))

InstanceNext ==
  \/ \E p \in Pids :
       \/ Launch(p) \/ TryLock(p) \/ ClearSockets(p) \/ Declare(p) \/ Serve(p) \/ Run(p)
       \/ Stop(p) \/ Finish(p) \/ Close(p) \/ Killed(p)
  \/ Reap \/ IsActive \/ MainPid \/ ReadState \/ PidIsAlive

-----------------------------------------------------------------------------
(* Properties.                                                               *)

\* lifecycle.py: a viewer that serves commands keeps the socket it made, whichever
\* other viewers come, find it locked, end or are killed meanwhile; so "stop" and
\* "focus" always reach the one viewer that there is.
OwnSocket ==
  \A p \in Pids : proc[p] \in {"serving", "running", "stopping"} => socket = p

\* cli.py: "running" is answered only of a process that was running while the
\* command looked, not of what a killed one left in state.json.
StatusIsTrue == query.answer = "running" => query.live

=============================================================================
