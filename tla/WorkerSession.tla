----------------------------- MODULE WorkerSession -----------------------------
(***************************************************************************)
(* The life of mirroring sessions in the Windows worker process:           *)
(* Worker.main and Worker.handle (src/worker/worker.py), which take one    *)
(* command at a time, and MirrorSession.run and cleanup                    *)
(* (src/worker/session.py), which run as a task of the same event loop.    *)
(*                                                                         *)
(* A step is the code between two awaits.  Every await of run() may raise, *)
(* the exit of the tunnel included; which exception it is does not matter  *)
(* here, only how far the session got.  A closing that fails is suppressed *)
(* and not tried again: the connections and the socket are dropped in any  *)
(* case, the tunnel and the phone's stream may stay.  Time limits (12 s to *)
(* stop, 15 s for the first frame) are steps that may be taken whenever    *)
(* what they wait for has not happened.                                    *)
(***************************************************************************)
EXTENDS Naturals, Sequences, FiniteSets

CONSTANTS
  MaxSessions,   \* bound: sessions started over the life of the worker
  MaxAttempts,   \* display handshakes tried before giving up (4 in the code)
  None           \* no session

ASSUME BoundsAssumption == MaxSessions \in Nat /\ MaxAttempts \in Nat \ {0}
ASSUME NoneAssumption == None \notin Nat

VARIABLES
  main,          \* the command loop: [pc, waitsFor]
  session,       \* worker.session and worker.session_task
  shutdown,      \* worker.shutdown
  reply,         \* the last response to a lifecycle command
  started,       \* number of sessions started
  pc,            \* where each session task is
  attempt,       \* display handshakes that have failed while it connects
  stopEvent,     \* session.stop_event
  errorCode,     \* session.error_code is set
  raised,        \* what raised the exception that leaves run(), if one does
  owned,         \* what a session has opened and not yet tried to close
  left,          \* of the tunnel and the stream, what it could not close
  lost,          \* the writer thread has posted on_stop("player_disconnected")
  events         \* history: the state events of each session, in order

mainVars == <<main, session, shutdown, reply, started>>
sessionVars ==
  <<pc, attempt, stopEvent, errorCode, raised, owned, left, lost, events>>
vars == <<main, session, shutdown, reply, started, pc, attempt, stopEvent,
          errorCode, raised, owned, left, lost, events>>

Sessions == 1 .. MaxSessions

\* An "orphan" is a stream that the phone sends and whose id the session never
\* learned.
Resources == {"tunnel", "display", "transport", "stream", "orphan", "tasks",
              "sink", "hid"}

\* Where run() is before, inside and after its try block.
Startup == {"select", "tunnel", "display", "media", "stream", "ready", "warm"}
Cleanup == {"stopping", "closeInput", "stopStream", "cancel", "closeSink",
            "closeMedia"}
Places == {"none", "loop", "leave", "ended"} \cup Startup \cup Cleanup

Live(s) == pc[s] \notin {"none", "ended"}

TypeOK ==
  /\ main \in [pc : {"idle", "setup", "stopWait", "shutWait", "exitWait", "done"},
               waitsFor : Sessions \cup {None}]
  /\ session \in Sessions \cup {None}
  /\ shutdown \in BOOLEAN
  /\ reply \in {"none", "started", "stopped", "error", "shutdown"}
  /\ started \in 0 .. MaxSessions
  /\ pc \in [Sessions -> Places]
  /\ attempt \in [Sessions -> 0 .. MaxAttempts]
  /\ stopEvent \in [Sessions -> BOOLEAN] /\ errorCode \in [Sessions -> BOOLEAN]
  /\ raised \in [Sessions -> {"nothing", "startup", "exit"}]
  /\ owned \in [Sessions -> SUBSET Resources]
  /\ left \in [Sessions -> SUBSET {"tunnel", "stream"}]
  /\ lost \in [Sessions -> BOOLEAN]
  /\ events \in [Sessions ->
       Seq({"starting", "running", "stopping", "stopped", "error"})]

Init ==
  /\ main = [pc |-> "idle", waitsFor |-> None]
  /\ session = None /\ shutdown = FALSE /\ reply = "none" /\ started = 0
  /\ pc = [s \in Sessions |-> "none"]
  /\ attempt = [s \in Sessions |-> 0]
  /\ stopEvent = [s \in Sessions |-> FALSE]
  /\ errorCode = [s \in Sessions |-> FALSE]
  /\ raised = [s \in Sessions |-> "nothing"]
  /\ owned = [s \in Sessions |-> {}] /\ left = [s \in Sessions |-> {}]
  /\ lost = [s \in Sessions |-> FALSE]
  /\ events = [s \in Sessions |-> <<>>]

-----------------------------------------------------------------------------
(* Session tasks: MirrorSession.run.                                         *)

Goto(s, place) == pc' = [pc EXCEPT ![s] = place]
Own(s, things) == owned' = [owned EXCEPT ![s] = @ \cup things]
Emit(s, es) == events' = [events EXCEPT ![s] = @ \o es]

\* Those of `things` that are open are closed; the `failing` ones stay.
Close(s, things, failing) ==
  /\ owned' = [owned EXCEPT ![s] = @ \ things]
  /\ left' = [left EXCEPT ![s] = @ \cup (failing \cap owned[s])]

\* Services of the phone can be reached.
TunnelUp(s) == "tunnel" \in owned[s] \cup left[s]

\* Mutated: only a stop with a code ends the session.
StopWithMutant(s, coded) ==
  /\ stopEvent' = [stopEvent EXCEPT ![s] = coded]
  /\ errorCode' = [errorCode EXCEPT ![s] = @ \/ coded]

\* session.stop(code): the event is set with or without a code.
StopWith(s, coded) ==
  /\ stopEvent' = [stopEvent EXCEPT ![s] = TRUE]
  /\ errorCode' = [errorCode EXCEPT ![s] = @ \/ coded]

\* Mutated: the runner forgets to free the slot.
FreeSlotMutant(s) == UNCHANGED session

\* _session_runner's finally: the slot is freed if it is still this session's.
FreeSlot(s) == session' = IF session = s THEN None ELSE session

\* An exception leaves the tunnel's block, if it was entered, on its way to
\* the finally.
Raise(s) ==
  /\ raised' = [raised EXCEPT ![s] = "startup"]
  /\ Goto(s, IF "tunnel" \in owned[s] THEN "leave" ELSE "stopping")

\* select_connection, before the try: its error has no cleanup to run.
Select(s) ==
  /\ pc[s] = "select"
  /\ \/ /\ Goto(s, "tunnel") /\ Emit(s, <<"starting">>)
        /\ UNCHANGED session
     \/ /\ Goto(s, "ended") /\ Emit(s, <<"error">>) /\ FreeSlot(s)
  /\ UNCHANGED <<main, shutdown, reply, started, attempt, stopEvent, errorCode,
                 raised, owned, left, lost>>

\* One step of the startup that opens `thing` and goes on to `next`.
Open(s, place, thing, next) ==
  /\ pc[s] = place
  /\ \/ Own(s, thing) /\ Goto(s, next) /\ UNCHANGED raised
     \/ Raise(s) /\ UNCHANGED owned
  /\ UNCHANGED <<mainVars, attempt, stopEvent, errorCode, left, lost, events>>

EnterTunnel(s) == Open(s, "tunnel", {"tunnel"}, "display")

\* Mutated: one delay too many.
MayRetryMutant(s) == attempt[s] <= MaxAttempts

MayRetry(s) == attempt[s] + 1 < MaxAttempts

\* _connect_display: a failed handshake closes its service; a transient one
\* is tried again after a delay, as long as delays are left.
ConnectDisplay(s) ==
  /\ pc[s] = "display"
  /\ \/ /\ Own(s, {"display"}) /\ Goto(s, "media")
        /\ attempt' = [attempt EXCEPT ![s] = 0]
        /\ UNCHANGED raised
     \/ /\ MayRetry(s)
        /\ attempt' = [attempt EXCEPT ![s] = @ + 1]
        /\ UNCHANGED <<pc, owned, raised>>
     \/ /\ Raise(s)
        /\ attempt' = [attempt EXCEPT ![s] = 0]
        /\ UNCHANGED owned
  /\ UNCHANGED <<mainVars, stopEvent, errorCode, left, lost, events>>

OpenMedia(s) == Open(s, "media", {"transport"}, "stream")

\* start_video_stream answers and the media tasks are created; or it raises with
\* nothing started, or after the phone began to stream (the 12 s limit, an answer
\* without an id), or what follows the id raises, before there are tasks.
StartStream(s) ==
  /\ pc[s] = "stream"
  /\ \/ Own(s, {"stream", "tasks"}) /\ Goto(s, "ready") /\ UNCHANGED raised
     \/ \E begun \in {{}, {"orphan"}, {"stream"}} : Own(s, begun) /\ Raise(s)
  /\ UNCHANGED <<mainVars, attempt, stopEvent, errorCode, left, lost, events>>

\* The receiver task has decoded the parameter sets and built the sink, which
\* it may do for as long as it has not been cancelled.
SinkReady(s) ==
  /\ "tasks" \in owned[s] /\ "sink" \notin owned[s]
  /\ Own(s, {"sink"})
  /\ UNCHANGED <<mainVars, pc, attempt, stopEvent, errorCode, raised, left, lost,
                 events>>

\* wait_for(video_ready, 15)
AwaitVideo(s) ==
  /\ pc[s] = "ready"
  /\ \/ "sink" \in owned[s] /\ Goto(s, "warm") /\ UNCHANGED raised
     \/ "sink" \notin owned[s] /\ Raise(s)
  /\ UNCHANGED <<mainVars, attempt, stopEvent, errorCode, owned, left, lost, events>>

\* warm_input connects the input or not, and never fails the session; then the
\* session is announced running, even if a stop has been requested meanwhile.
WarmInput(s) ==
  /\ pc[s] = "warm"
  /\ \E got \in {{}, {"hid"}} : Own(s, got)
  /\ Goto(s, "loop") /\ Emit(s, <<"running">>)
  /\ UNCHANGED <<mainVars, attempt, stopEvent, errorCode, raised, left, lost>>

\* A pass of the supervision loop finds the stream ended, silent or stalled.
StreamFails(s) ==
  /\ pc[s] = "loop" /\ ~stopEvent[s]
  /\ StopWith(s, TRUE)
  /\ UNCHANGED <<mainVars, pc, attempt, raised, owned, left, lost, events>>

\* Mutated: the loop leaves for failures only.
LoopDoneMutant(s) == errorCode[s]

LoopDone(s) == stopEvent[s]

EndLoop(s) ==
  /\ pc[s] = "loop" /\ LoopDone(s)
  /\ Goto(s, "leave")
  /\ UNCHANGED <<mainVars, attempt, stopEvent, errorCode, raised, owned, left, lost,
                 events>>

\* The end of `async with get_tunnel(...)`: the tunnel goes before cleanup(), or
\* its exit raises, whatever has become of it.
LeaveTunnel(s) ==
  /\ pc[s] = "leave"
  /\ \/ Close(s, {"tunnel"}, {}) /\ UNCHANGED raised
     \/ /\ \E failing \in SUBSET {"tunnel"} : Close(s, {"tunnel"}, failing)
        /\ raised' = [raised EXCEPT ![s] = IF @ = "nothing" THEN "exit" ELSE @]
  /\ Goto(s, "stopping")
  /\ UNCHANGED <<mainVars, attempt, stopEvent, errorCode, lost, events>>

\* The player is lost while the writer thread has its pipe open.
LosePlayer(s) ==
  /\ "sink" \in owned[s] /\ ~lost[s]
  /\ lost' = [lost EXCEPT ![s] = TRUE]
  /\ UNCHANGED <<mainVars, pc, attempt, stopEvent, errorCode, raised, owned, left,
                 events>>

\* The callback it posted runs, in whatever state the session then is.
PlayerDisconnected(s) ==
  /\ lost[s] /\ Live(s)
  /\ lost' = [lost EXCEPT ![s] = FALSE]
  /\ StopWith(s, TRUE)
  /\ UNCHANGED <<mainVars, pc, attempt, raised, owned, left, events>>

-----------------------------------------------------------------------------
(* Session tasks: the finally block, cleanup() and the end of the task.      *)

Stopping(s) ==
  /\ pc[s] = "stopping"
  /\ Emit(s, <<"stopping">>) /\ Goto(s, "closeInput")
  /\ UNCHANGED <<mainVars, attempt, stopEvent, errorCode, raised, owned, left, lost>>

\* One step of cleanup(), which closes `thing`, if there is one, and goes on even
\* if that fails.
Release(s, place, thing, failing, next) ==
  /\ pc[s] = place
  /\ Close(s, {thing}, failing) /\ Goto(s, next)
  /\ UNCHANGED <<mainVars, attempt, stopEvent, errorCode, raised, lost, events>>

\* release_input and _close_input_services
CloseInput(s) == Release(s, "closeInput", "hid", {}, "stopStream")

\* stop_media_stream, which has 5 s, if a session id is known: a request to the
\* phone, from which the tunnel has been left.
StopStream(s) ==
  \E failing \in SUBSET {"stream"} :
    /\ TunnelUp(s) \/ failing = {"stream"}
    /\ Release(s, "stopStream", "stream", failing, "cancel")

\* cancel() and gather()
CancelTasks(s) == Release(s, "cancel", "tasks", {}, "closeSink")

\* to_thread(sink.close)
CloseSink(s) == Release(s, "closeSink", "sink", {}, "closeMedia")

\* Mutated: the display service is forgotten.
LastClosedMutant == {"transport"}

LastClosed == {"transport", "display"}

\* Mutated: a stream failure is announced as the error and as the end.
FinalEventsMutant(s) ==
  (IF errorCode[s] THEN <<"error">> ELSE <<>>) \o <<"stopped">>

\* The final state event and, if run() raised, _session_runner's error event.
FinalEvents(s) == <<IF errorCode[s] THEN "error" ELSE "stopped">>
                    \o (IF raised[s] = "nothing" THEN <<>> ELSE <<"error">>)

\* transport.close, service.close, the last events, and the runner's finally.
Finish(s) ==
  /\ pc[s] = "closeMedia"
  /\ Close(s, LastClosed, {}) /\ Goto(s, "ended")
  /\ Emit(s, FinalEvents(s)) /\ FreeSlot(s)
  /\ UNCHANGED <<main, shutdown, reply, started, attempt, stopEvent, errorCode,
                 raised, lost>>

RunStep(s) ==
  \/ Select(s) \/ EnterTunnel(s) \/ ConnectDisplay(s) \/ OpenMedia(s)
  \/ StartStream(s) \/ AwaitVideo(s) \/ WarmInput(s) \/ EndLoop(s)
  \/ LeaveTunnel(s) \/ Stopping(s) \/ CloseInput(s) \/ StopStream(s)
  \/ CancelTasks(s) \/ CloseSink(s) \/ Finish(s)

Mishap(s) == SinkReady(s) \/ StreamFails(s) \/ LosePlayer(s) \/ PlayerDisconnected(s)

-----------------------------------------------------------------------------
(* The command loop: Worker.handle and main.  It reads the next command only *)
(* when the last one has been answered.                                      *)

Reading == main.pc = "idle" /\ ~shutdown

\* Mutated: the slot is not looked at.
SlotFreeMutant == TRUE

\* What start_session and setup require of the session slot.
SlotFree == session = None

StartSession ==
  /\ Reading
  /\ \/ /\ SlotFree /\ started < MaxSessions
        /\ started' = started + 1
        /\ session' = started + 1
        /\ pc' = [pc EXCEPT ![started + 1] = "select"]
        /\ reply' = "started"
     \/ /\ ~SlotFree
        /\ reply' = "error"
        /\ UNCHANGED <<started, session, pc>>
  /\ UNCHANGED <<main, shutdown, attempt, stopEvent, errorCode, raised, owned,
                 left, lost, events>>

\* setup changes the phone and is refused while a session runs.
Setup ==
  /\ Reading /\ SlotFree
  /\ main' = [main EXCEPT !.pc = "setup"]
  /\ UNCHANGED <<session, shutdown, reply, started, sessionVars>>

SetupDone ==
  /\ main.pc = "setup"
  /\ main' = [main EXCEPT !.pc = "idle"]
  /\ UNCHANGED <<session, shutdown, reply, started, sessionVars>>

\* self.session.stop() if there is a session; then wait for its task, or not.
StopThenWait(waiting, after) ==
  IF session = None
  THEN /\ main' = [pc |-> after, waitsFor |-> None]
       /\ UNCHANGED <<stopEvent, errorCode>>
  ELSE /\ main' = [pc |-> waiting, waitsFor |-> session]
       /\ StopWith(session, FALSE)

StopSession ==
  /\ Reading
  /\ StopThenWait("stopWait", "idle")
  /\ reply' = IF session = None THEN "stopped" ELSE reply
  /\ UNCHANGED <<session, shutdown, started, pc, attempt, raised, owned, left, lost,
                 events>>

\* Mutated: the stop flag is taken for the end of the task.
TaskDoneMutant(s) == stopEvent[s]

TaskDone(s) == pc[s] = "ended"

\* wait_for(shield(session_task), 12) returns or times out; the session, being
\* shielded, goes on in either case.
StopAnswer ==
  /\ main.pc = "stopWait"
  /\ reply' = IF TaskDone(main.waitsFor) THEN "stopped" ELSE "error"
  /\ main' = [pc |-> "idle", waitsFor |-> None]
  /\ UNCHANGED <<session, shutdown, started, sessionVars>>

Shutdown ==
  /\ Reading
  /\ StopThenWait("shutWait", "idle")
  /\ shutdown' = (session = None)
  /\ reply' = IF session = None THEN "shutdown" ELSE reply
  /\ UNCHANGED <<session, started, pc, attempt, raised, owned, left, lost, events>>

\* The task has ended or the 12 s have passed: shutdown goes on regardless.
ShutdownAnswer ==
  /\ main.pc = "shutWait"
  /\ shutdown' = TRUE /\ reply' = "shutdown"
  /\ main' = [pc |-> "idle", waitsFor |-> None]
  /\ UNCHANGED <<session, started, sessionVars>>

\* A touch or a key connects the input service that is not there, at any time of
\* the session's life at which the phone can be reached, its cleanup() included.
InputConnects(s) ==
  /\ Reading /\ session = s /\ TunnelUp(s) /\ "hid" \notin owned[s]
  /\ Own(s, {"hid"})
  /\ UNCHANGED <<mainVars, pc, attempt, stopEvent, errorCode, raised, left, lost,
                 events>>

\* A touch or a key fails, and closes it: _mark_input_failed.
InputFails(s) ==
  /\ Reading /\ session = s /\ "hid" \in owned[s]
  /\ Close(s, {"hid"}, {})
  /\ UNCHANGED <<mainVars, pc, attempt, stopEvent, errorCode, raised, lost, events>>

\* End of file, or the loop condition after shutdown: main stops the session
\* and waits for its task without a limit.
LeaveMain ==
  /\ main.pc = "idle"
  /\ StopThenWait("exitWait", "done")
  /\ UNCHANGED <<session, shutdown, reply, started, pc, attempt, raised, owned,
                 left, lost, events>>

Exit ==
  /\ main.pc = "exitWait" /\ TaskDone(main.waitsFor)
  /\ main' = [pc |-> "done", waitsFor |-> None]
  /\ UNCHANGED <<session, shutdown, reply, started, sessionVars>>

\* The process has ended.
Stopped == main.pc = "done" /\ UNCHANGED vars

MainStep ==
  \/ StartSession \/ Setup \/ SetupDone \/ StopSession \/ StopAnswer
  \/ Shutdown \/ ShutdownAnswer \/ LeaveMain \/ Exit \/ Stopped

\* What the command loop does without being told anything.
MainProceeds ==
  SetupDone \/ StopAnswer \/ ShutdownAnswer \/ Exit \/ (shutdown /\ LeaveMain)

Input(s) == InputConnects(s) \/ InputFails(s)

Next == MainStep \/ \E s \in Sessions : RunStep(s) \/ Mishap(s) \/ Input(s)

\* The event loop runs both tasks and every awaited call returns or raises.
Fairness == WF_vars(MainProceeds) /\ \A s \in Sessions : WF_vars(RunStep(s))

Spec == Init /\ [][Next]_vars /\ Fairness

-----------------------------------------------------------------------------
(* Properties.                                                               *)

Announced(s) ==
  \E i \in 1 .. Len(events[s]) : events[s][i] \in {"stopped", "error"}

\* Only one party uses the phone at a time: one live session, or one setup
\* action, whatever the order of commands, time-outs and session ends.
PhoneHasOneUser ==
  /\ \A s, t \in Sessions : Live(s) /\ Live(t) => s = t
  /\ main.pc = "setup" => \A s \in Sessions : ~Live(s)

\* What is not cleanup()'s to close: a stream that has no id to be stopped by, and
\* an input service connected, after the others were closed, through a tunnel whose
\* exit has failed.
Excused(s) ==
  {"orphan"} \cup (IF "tunnel" \in left[s] THEN {"hid"} ELSE {})

\* A terminal state event tells the application that it may start again: by then
\* the session has tried to close everything it opened, however far the startup
\* got, although the receiver may build its sink, and commands may connect the
\* input again, during cleanup().
TriedBeforeEnd ==
  \A s \in Sessions : Announced(s) => owned[s] \subseteq Excused(s)

\* A positive answer to stop_session means the slot is free: the start_session
\* that follows it is not refused.  A timed out wait is answered with an error.
StoppedMeansFree == reply = "stopped" => session = None

\* A stop is never lost, even one that arrives in the middle of the startup,
\* which looks at the stop event only when it has finished.
StopEnds == \A s \in Sessions : stopEvent[s] ~> pc[s] = "ended"

\* After end of file or a shutdown command the process ends.
MainEnds == (shutdown \/ main.pc = "exitWait") ~> main.pc = "done"

-----------------------------------------------------------------------------
(* Refinement: what the application may know of the sessions.                *)

PhaseOf(s) ==
  CASE pc[s] \in {"none", "ended"} -> pc[s]
    [] pc[s] = "select" -> "accepted"
    [] pc[s] \in Startup \ {"select"} -> "starting"
    [] pc[s] = "loop" -> "running"
    [] pc[s] \in {"leave", "stopping"} ->
         IF raised[s] = "startup" THEN "starting" ELSE "running"
    [] OTHER -> IF raised[s] = "startup" THEN "failing" ELSE "stopping"

Contract == INSTANCE WorkerContract WITH
  phase <- [s \in Sessions |-> PhaseOf(s)],
  ending <- stopEvent,
  setting <- main.pc = "setup",
  alive <- main.pc # "done"

\* To the application the worker is WorkerContract: sessions are accepted when
\* the phone is free and refused when it is not, their state events come in one
\* of the few orders it knows, and the process never ends under a session.
KeepsContract == Contract!Safe

\* However its start-up is cut short and whenever it is stopped, the state events of a
\* session are one of the words of the contract, whose end is heard only when the
\* session has ended.
HeardInWords == Contract!EventsInWords

=============================================================================
