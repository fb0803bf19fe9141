----------------------------- MODULE WorkerProtocol -----------------------------
(***************************************************************************)
(* The application's end of the worker's standard streams:                 *)
(* WorkerProtocolClient (src/src/iPhoneMirror.Core/WorkerProtocolClient.cs)*)
(* with the worker process as its environment.                             *)
(*                                                                         *)
(* Commands are numbered in the order the application calls.  Its calls    *)
(* and continuations are turns of the user interface's thread; the reader  *)
(* of standard output, the exit of the process and what the process does   *)
(* come between any two steps of a turn.  The process may stop taking      *)
(* commands and may exit at any time.                                      *)
(***************************************************************************)
EXTENDS Naturals, Sequences, FiniteSets

CONSTANTS
  MaxCalls,   \* bound: commands sent, the shutdown of DisposeAsync included
  PipeSize,   \* commands that standard input holds before a write blocks
  None        \* no command

ASSUME SizeAssumption == MaxCalls \in Nat \ {0} /\ PipeSize \in Nat \ {0}
ASSUME NoneAssumption == None \notin Nat

VARIABLES
  calls,      \* number of commands called
  kind,       \* of each command
  call,       \* where each call is
  outcome,    \* of each call
  answer,     \* of each call, its TaskCompletionSource
  pending,    \* _pending
  queue,      \* _writeLock: its holder, then those that wait for it
  stdin,      \* the pipe to the process
  stdinOpen,  \* the application has not closed it
  stdout,     \* the answers in the pipe from the process
  alive,      \* the process has not exited
  handling,   \* the command that the process handles
  received,   \* history: the commands it has taken
  reading,    \* ReadStdoutAsync has not ended
  told,       \* OnExited has run
  lifetime,   \* _lifetime has not been cancelled
  dispose     \* where DisposeAsync is

clientVars == <<calls, kind, call, outcome, answer, pending, queue, stdinOpen,
                reading, told, lifetime, dispose>>
processVars == <<stdin, stdout, alive, handling, received>>
vars == <<clientVars, processVars>>

Calls == 1 .. MaxCalls

TypeOK ==
  /\ calls \in 0 .. MaxCalls
  /\ kind \in [Calls -> {"none", "wait", "noWait", "shutdown"}]
  /\ call \in [Calls -> {"none", "checked", "queued", "waiting", "done"}]
  /\ outcome \in [Calls -> {"none", "refused", "sent", "failed", "result", "timeout"}]
  /\ answer \in [Calls -> {"none", "result", "failed"}]
  /\ pending \in SUBSET {r \in Calls : call[r] \in {"queued", "waiting"}}
  /\ queue \in Seq(Calls) /\ stdin \in Seq(Calls) /\ stdout \in Seq(Calls)
  /\ received \in Seq(Calls)
  /\ handling \in Calls \cup {None}
  /\ stdinOpen \in BOOLEAN /\ alive \in BOOLEAN /\ reading \in BOOLEAN
  /\ told \in BOOLEAN /\ lifetime \in BOOLEAN
  /\ dispose \in {"none", "asking", "grace", "join", "done"}
  /\ Len(stdin) <= PipeSize

Init ==
  /\ calls = 0
  /\ kind = [r \in Calls |-> "none"] /\ call = [r \in Calls |-> "none"]
  /\ outcome = [r \in Calls |-> "none"] /\ answer = [r \in Calls |-> "none"]
  /\ pending = {} /\ queue = <<>>
  /\ stdin = <<>> /\ stdout = <<>> /\ received = <<>> /\ handling = None
  /\ stdinOpen = TRUE /\ alive = TRUE /\ reading = TRUE
  /\ told = FALSE /\ lifetime = TRUE /\ dispose = "none"

-----------------------------------------------------------------------------
(* The process.                                                              *)

Take ==
  /\ alive /\ handling = None /\ stdin # <<>>
  /\ handling' = Head(stdin)
  /\ stdin' = Tail(stdin)
  /\ received' = Append(received, Head(stdin))
  /\ UNCHANGED <<clientVars, stdout, alive>>

Reply ==
  /\ alive /\ handling # None
  /\ stdout' = Append(stdout, handling)
  /\ handling' = None
  /\ UNCHANGED <<clientVars, stdin, alive, received>>

\* It crashes, is killed by somebody else, or ends after a shutdown or end of
\* file.  What it has written can still be read.
ProcessExit ==
  /\ alive /\ alive' = FALSE
  /\ UNCHANGED <<clientVars, stdin, stdout, handling, received>>

-----------------------------------------------------------------------------
(* SendCommandAsync and SendCommandNoWaitAsync.                              *)

\* No call is in the middle of its first turn.
ThreadFree == \A r \in Calls : call[r] # "checked"

\* Mutated: the registration outlives the call.
EndMutant(r, result) ==
  /\ call' = [call EXCEPT ![r] = "done"]
  /\ outcome' = [outcome EXCEPT ![r] = result]
  /\ UNCHANGED pending

\* A call ends, and the finally forgets its registration.
End(r, result) ==
  /\ call' = [call EXCEPT ![r] = "done"]
  /\ outcome' = [outcome EXCEPT ![r] = result]
  /\ pending' = pending \ {r}

\* A call finds the client disposed or the process gone, or goes on.
Begin(k) ==
  LET r == calls + 1 IN
  /\ ThreadFree /\ calls < MaxCalls
  /\ calls' = r
  /\ kind' = [kind EXCEPT ![r] = k]
  /\ IF lifetime /\ alive
     THEN call' = [call EXCEPT ![r] = "checked"] /\ UNCHANGED <<outcome, pending>>
     ELSE End(r, "refused")
  /\ UNCHANGED <<answer, queue, stdinOpen, reading, told, lifetime, processVars>>

\* The last number is kept for the shutdown.
Call ==
  /\ calls + 1 < MaxCalls \/ dispose # "none"
  /\ Begin("wait") \/ Begin("noWait")
  /\ UNCHANGED dispose

\* Mutated: the last to ask for the lock is the first to get it.
EnqueueMutant(r) == <<r>> \o queue

\* The semaphore serves its waiters in their order.
Enqueue(r) == Append(queue, r)

\* The rest of the first turn: the process may have exited since the check.
\* A call that does not wait for its answer is not registered.
Register(r) ==
  /\ call[r] = "checked"
  /\ pending' = IF kind[r] = "noWait" THEN pending ELSE pending \cup {r}
  /\ queue' = Enqueue(r)
  /\ call' = [call EXCEPT ![r] = "queued"]
  /\ UNCHANGED <<calls, kind, outcome, answer, stdinOpen, reading, told,
                 lifetime, dispose, processVars>>

Holder(r) == queue # <<>> /\ Head(queue) = r

\* Mutated: the lock is kept when the write has failed.
ReleaseMutant ==
  queue' = IF alive /\ stdinOpen THEN Tail(queue) ELSE queue

\* _writeLock.Release, whether the write failed or not.  It throws once
\* DisposeAsync has disposed of the lock; those who wait are then never woken.
Release == queue' = IF dispose = "done" THEN <<>> ELSE Tail(queue)

\* The holder's write completes when the pipe has room.  Its time-out starts
\* only now.
Write(r) ==
  /\ ThreadFree /\ Holder(r) /\ call[r] = "queued"
  /\ alive /\ stdinOpen /\ Len(stdin) < PipeSize
  /\ stdin' = Append(stdin, r)
  /\ Release
  /\ IF kind[r] = "noWait"
     THEN End(r, "sent")
     ELSE call' = [call EXCEPT ![r] = "waiting"] /\ UNCHANGED <<outcome, pending>>
  /\ UNCHANGED <<calls, kind, answer, stdinOpen, reading, told, lifetime, dispose,
                 stdout, alive, handling, received>>

\* The process or the stream is gone.
WriteFails(r) ==
  /\ ThreadFree /\ Holder(r) /\ call[r] = "queued"
  /\ ~(alive /\ stdinOpen)
  /\ Release /\ End(r, "failed")
  /\ UNCHANGED <<calls, kind, answer, stdinOpen, reading, told, lifetime, dispose,
                 processVars>>

Return(r) ==
  /\ ThreadFree /\ call[r] = "waiting" /\ answer[r] # "none"
  /\ End(r, answer[r])
  /\ UNCHANGED <<calls, kind, answer, queue, stdinOpen, reading, told, lifetime,
                 dispose, processVars>>

\* WaitAsync gives up, at its time limit or when _lifetime is cancelled.
Timeout(r) ==
  /\ ThreadFree /\ call[r] = "waiting"
  /\ End(r, "timeout")
  /\ UNCHANGED <<calls, kind, answer, queue, stdinOpen, reading, told, lifetime,
                 dispose, processVars>>

-----------------------------------------------------------------------------
(* Standard output and the exit of the process.                              *)

\* TrySetResult and TrySetException: the first one counts.
Complete(rs, result) ==
  answer' = [r \in Calls |->
               IF r \in rs /\ answer[r] = "none" THEN result ELSE answer[r]]

\* Mutated: an answer is taken for whichever request is pending.
AddresseeMutant(r) == pending

\* HandleLine looks the answer's id up; nobody may be waiting for it any more.
Addressee(r) == pending \cap {r}

ReadLine ==
  /\ reading /\ stdout # <<>>
  /\ Complete(Addressee(Head(stdout)), "result")
  /\ stdout' = Tail(stdout)
  /\ UNCHANGED <<calls, kind, call, outcome, pending, queue, stdinOpen, reading,
                 told, lifetime, dispose, stdin, alive, handling, received>>

\* End of file, or the client is being disposed of.
ReadEnds ==
  /\ reading
  /\ (~alive /\ stdout = <<>>) \/ ~lifetime
  /\ reading' = FALSE
  /\ UNCHANGED <<calls, kind, call, outcome, answer, pending, queue, stdinOpen,
                 told, lifetime, dispose, processVars>>

\* A line that is JSON but no message, or a broken stream, ends the loop.
ReadFails ==
  /\ reading
  /\ reading' = FALSE
  /\ Complete(pending, "failed")
  /\ UNCHANGED <<calls, kind, call, outcome, pending, queue, stdinOpen, told,
                 lifetime, dispose, processVars>>

\* Mutated: the exit is announced and nothing is failed.
FailPendingMutant == UNCHANGED answer

FailPending == Complete(pending, "failed")

OnExited ==
  /\ ~alive /\ ~told
  /\ told' = TRUE
  /\ FailPending
  /\ UNCHANGED <<calls, kind, call, outcome, pending, queue, stdinOpen, reading,
                 lifetime, dispose, processVars>>

-----------------------------------------------------------------------------
(* DisposeAsync.                                                             *)

\* _lifetime.Cancel; the stream is closed unless a write is using it.
CloseStreams ==
  /\ lifetime' = FALSE
  /\ stdinOpen' \in IF queue = <<>> THEN {FALSE} ELSE {FALSE, stdinOpen}
  /\ dispose' = IF alive THEN "grace" ELSE "join"

Dispose ==
  /\ dispose = "none" /\ ThreadFree
  /\ \/ /\ alive /\ Begin("shutdown") /\ dispose' = "asking"
     \/ /\ ~alive /\ CloseStreams
        /\ UNCHANGED <<calls, kind, call, outcome, answer, pending, queue, reading,
                       told, processVars>>

\* The shutdown command has been answered or not: it makes no difference.
ShutdownAsked ==
  /\ dispose = "asking" /\ ThreadFree
  /\ \A r \in Calls : kind[r] = "shutdown" => call[r] = "done"
  /\ CloseStreams
  /\ UNCHANGED <<calls, kind, call, outcome, answer, pending, queue, reading, told,
                 processVars>>

\* WaitForExit(2000), then Kill and WaitForExitAsync.
GraceEnds ==
  /\ dispose = "grace" /\ ThreadFree
  /\ alive' = FALSE
  /\ dispose' = "join"
  /\ UNCHANGED <<calls, kind, call, outcome, answer, pending, queue, stdinOpen,
                 reading, told, lifetime, stdin, stdout, handling, received>>

\* The reader has ended; the process, the lock and the lifetime are disposed of.
Disposed ==
  /\ dispose = "join" /\ ThreadFree /\ ~reading
  /\ dispose' = "done"
  /\ UNCHANGED <<calls, kind, call, outcome, answer, pending, queue, stdinOpen,
                 reading, told, lifetime, processVars>>

DisposeSteps == ShutdownAsked \/ GraceEnds \/ Disposed

-----------------------------------------------------------------------------

Finished ==
  /\ dispose = "done" /\ UNCHANGED vars

CallSteps(r) ==
  Register(r) \/ Write(r) \/ WriteFails(r) \/ Return(r) \/ Timeout(r)

Reader == ReadLine \/ ReadEnds

Next ==
  \/ Take \/ Reply \/ ProcessExit
  \/ Call \/ \E r \in Calls : CallSteps(r)
  \/ Reader \/ ReadFails \/ OnExited
  \/ Dispose \/ DisposeSteps \/ Finished

\* The client's threads run and its timers expire.  Nothing obliges the process
\* to take a command, to answer it or to exit.
Fairness ==
  /\ \A r \in Calls : WF_vars(CallSteps(r))
  /\ WF_vars(Reader) /\ WF_vars(OnExited) /\ WF_vars(DisposeSteps)

Spec == Init /\ [][Next]_vars /\ Fairness

-----------------------------------------------------------------------------
(* Properties.                                                               *)

Increasing(s) == \A i, j \in 1 .. Len(s) : i < j => s[i] < s[j]

\* Input goes out without waiting for answers, so the worker must get a touch
\* and the lift that follows it in the order they were made, although any of
\* the calls may be waiting for the lock or fail (the comment on
\* SendCommandNoWaitAsync promises it).
ReceivedInOrder == Increasing(received)

\* A result is the worker's answer to that very command: the late answer to a
\* call that has timed out is not taken for the next one's.
AnswersAreOwn ==
  \A r \in Calls : answer[r] = "result" =>
    /\ \E i \in 1 .. Len(received) : received[i] = r
    /\ handling # r

\* The exit of the worker fails every call that waits for an answer, and a call
\* that passed the check just before the exit is not left to its time-out.
ExitFailsAll ==
  told => \A r \in Calls : call[r] = "waiting" => answer[r] # "none"

\* A full pipe is emptied, or its process exits.
PipeMoves == []<>(Len(stdin) < PipeSize \/ ~alive)

\* As long as writes do not block for ever, every call ends, whatever the
\* worker does, unless the client has been disposed of under it; and disposal
\* ends, with a worker that does not answer too.
CallsEnd ==
  PipeMoves =>
    /\ \A r \in Calls :
         call[r] = "checked" ~> call[r] = "done" \/ dispose = "done"
    /\ dispose # "none" ~> dispose = "done"

=============================================================================
