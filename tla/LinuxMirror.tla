------------------------------ MODULE LinuxMirror ------------------------------
(***************************************************************************)
(* The Linux viewer's session (src/mirror.py and close_session of          *)
(* src/lifecycle.py): the capture task, which connects, supervises and     *)
(* cleans up; run(), which starts it and stops it; the receiver that makes *)
(* the player; the thread that writes to the player; and the input task.   *)
(*                                                                         *)
(* A step of the capture task is the code between two awaits.  What the    *)
(* session has opened and not closed is `open`.                            *)
(***************************************************************************)
EXTENDS Naturals

CONSTANT MaxTries  \* len(delays) + 1 of connect_service

ASSUME TriesAssumption == MaxTries \in Nat \ {0}

VARIABLES
  pc,         \* where capture() is
  result,     \* how capture() leaves: none, ok, raised or cancelled
  run,        \* where run() is
  cancelled,  \* capture.cancel() has been called and not yet taken effect
  posted,     \* stop_event.set is scheduled by call_soon_threadsafe
  stopEvent,  \* self.stop_event is set
  cleaningUp, \* self.cleaning_up
  error,      \* what self.error says: nothing, or what kind of failure
  tries,      \* attempts of connect_service
  todo,       \* the steps close_session has left
  open,       \* what is open
  player,     \* mpv: none, alive, hung, or how it exited
  told,       \* the writer thread has reported the player's end
  input,      \* the input task
  silent,     \* no packet for 15 seconds
  shown,      \* the state in state.json
  labels,     \* the steps of the cleanup that failed
  late,       \* history: a player was made after the cleanup began
  stuck,      \* history: the input task did not end when it was cancelled
  causes      \* history: what happened before the cleanup, and its failures

stopVars == <<run, cancelled, posted, stopEvent, error>>
captureVars == <<pc, result, cleaningUp, tries, todo, labels>>
playerVars == <<player, told, late>>
vars == <<stopVars, captureVars, playerVars, open, input, silent, shown, stuck, causes>>

Startup == {"select", "tunnel", "service", "start", "player", "bridge"}
Order == [input |-> 1, bridge |-> 2, stream |-> 3, receivers |-> 4, player |-> 5, service |-> 6]
Steps == {"input", "bridge", "stream", "receivers", "player", "service"}
Resources == Steps \cup {"tunnel"}
Failures == {"phone", "player", "input", "startup", "cleanup"}
Causes == {"user", "crash", "backlog", "phone", "startup", "input", "cleanup",
           "record",  \* state.json could not be written when the cleanup began
           "tunnel"}  \* leaving the tunnel raised

TypeOK ==
  /\ pc \in Startup \cup {"loop", "cleanup", "done"}
  /\ result \in {"none", "ok", "raised", "cancelled"}
  /\ run \in {"wait", "await", "done"}
  /\ cancelled \in BOOLEAN /\ posted \in BOOLEAN /\ stopEvent \in BOOLEAN
  /\ cleaningUp \in BOOLEAN /\ told \in BOOLEAN /\ silent \in BOOLEAN
  /\ late \in BOOLEAN /\ stuck \in BOOLEAN
  /\ error \in Failures \cup {"none"}
  /\ tries \in 0..MaxTries
  /\ todo \subseteq Steps
  /\ open \subseteq Resources /\ labels \subseteq open /\ causes \subseteq Causes
  /\ player \in {"none", "alive", "hung", "closed", "crashed"}
  /\ input \in {"none", "starting", "ready", "refused", "eof", "failed"}
  /\ shown \in {"starting", "running", "stopping", "stopped", "error", "disconnected"}

Init ==
  /\ pc = "select" /\ result = "none" /\ run = "wait"
  /\ cancelled = FALSE /\ posted = FALSE /\ stopEvent = FALSE /\ cleaningUp = FALSE
  /\ error = "none" /\ tries = 0 /\ todo = {} /\ open = {}
  /\ player = "none" /\ told = FALSE /\ input = "none" /\ silent = FALSE
  /\ shown = "starting" /\ labels = {}
  /\ late = FALSE /\ stuck = FALSE /\ causes = {}

Cause(c) == causes' = IF cleaningUp THEN causes ELSE causes \cup {c}

\* Mutated: a failure counts until the stop event is set.
RecordsMutant(e) == e # "none" /\ error = "none" /\ ~stopEvent

\* stop(error) keeps the first error, and none once a stop or a cleanup is on.
Records(e) == e # "none" /\ error = "none" /\ ~stopEvent /\ ~cleaningUp

\* stop(error), from any thread
Stop(e) == /\ error' = IF Records(e) THEN e ELSE error
           /\ posted' = TRUE

-----------------------------------------------------------------------------
(* capture().                                                                *)

At(here) == pc = here /\ ~cancelled

\* The step of the startup ends and the next one is awaited.
Opened(here, next, what) ==
  /\ At(here) /\ pc' = next /\ open' = open \cup what
  /\ UNCHANGED <<stopVars, result, cleaningUp, todo, labels, playerVars, silent, stuck,
                 causes>>

SelectConnection == Opened("select", "tunnel", {}) /\ UNCHANGED <<shown, tries, input>>

EnterTunnel ==
  /\ Opened("tunnel", "service", {"tunnel"}) /\ tries' = 1 /\ UNCHANGED <<shown, input>>

\* connect_service: the handshake, tried again after a transient failure
ConnectService ==
  /\ Opened("service", "start", {"service"}) /\ UNCHANGED <<shown, tries, input>>

\* Mutated: one attempt more than there are delays.
MayRetryMutant == tries <= MaxTries

MayRetry == tries < MaxTries

RetryService ==
  /\ MayRetry /\ Opened("service", "service", {})
  /\ tries' = tries + 1 /\ UNCHANGED <<shown, input>>

\* The phone has accepted the stream; the receiver's tasks are created.
StartStream ==
  /\ Opened("start", "player", {"stream", "receivers"})
  /\ UNCHANGED <<shown, tries, input>>

\* The player is there: the input bridge is made and its task created.
StartBridge ==
  /\ player # "none" /\ Opened("player", "bridge", {"bridge", "input"})
  /\ input' = "starting" /\ UNCHANGED <<shown, tries>>

Runs ==
  /\ input \in {"ready", "eof", "failed"} /\ Opened("bridge", "loop", {}) /\ shown' = "running" /\ UNCHANGED <<tries, input>>

\* Mutated: the session id is the one of the phone's answer.
NeededMutant(step) ==
  CASE step = "stream" -> "receivers" \in open
    [] OTHER -> step \in open

\* The session id is set before the stream is asked for, and a request that
\* failed may have been accepted, so the stream is stopped all the same.
Needed(step) ==
  CASE step = "stream" -> "service" \in open
    [] OTHER -> step \in open

\* The try is left for its finally, or there is none to leave.  The finally first
\* writes the state: if that fails, close_session is not called at all.
Leave(how, why) ==
  IF pc \in {"select", "tunnel"}
  THEN /\ pc' = "done" /\ result' = how /\ causes' = causes \cup why
       /\ UNCHANGED <<todo, cleaningUp, shown, open>>
  ELSE /\ open' \in {open} \cup (IF pc = "start" THEN {open \cup {"stream"}} ELSE {})
       /\ pc' = "cleanup" /\ cleaningUp' = TRUE
       /\ \/ /\ result' = how /\ causes' = causes \cup why /\ shown' = "stopping"
             /\ todo' = {step \in Steps : Needed(step)}
          \/ /\ result' = "raised" /\ causes' = causes \cup why \cup {"record"}
             /\ todo' = {} /\ UNCHANGED shown

\* An await of the startup raises, in the end by its time limit.
StartupFails ==
  /\ pc \in Startup /\ At(pc) /\ Leave("raised", {"startup"})
  /\ UNCHANGED <<stopVars, tries, labels, playerVars, input, silent, stuck>>

\* What the loop has seen, in the order in which it looks.
Verdict ==
  CASE input = "failed" -> "input"
    [] input = "eof" -> "none"
    [] OTHER -> "phone"

\* One turn of the supervising loop that leaves it.
Poll ==
  /\ At("loop") /\ Leave("ok", {})
  /\ \/ stopEvent /\ UNCHANGED <<error, posted>>
     \/ /\ ~stopEvent
        /\ input \in {"eof", "failed"} \/ "receivers" \notin open \/ silent
        /\ Stop(Verdict)
  /\ UNCHANGED <<run, cancelled, stopEvent, tries, labels, playerVars, input, silent,
                 stuck>>

\* The step of close_session that comes first in its order
NextStep(step) == step \in todo /\ \A other \in todo : Order[step] <= Order[other]

\* A step of close_session ends, or fails and leaves its label.  The player it
\* closes is the one that was there when it was called.
CleanupStep ==
  /\ At("cleanup") /\ ~stuck
  /\ \E step \in todo :
       /\ NextStep(step) /\ todo' = todo \ {step}
       /\ \/ open' = open \ {step} /\ UNCHANGED <<labels, causes>>
          \/ /\ step \notin {"input", "receivers"} /\ UNCHANGED open
             /\ labels' = (labels \cup {step}) \cap open
             /\ causes' = causes \cup {"cleanup"}
       /\ told' = (told \/ step = "player")
  /\ UNCHANGED <<stopVars, pc, result, cleaningUp, tries, player, late, input, silent,
                 shown, stuck>>

\* LinuxInput!Cancel: a cancellation that the input task takes for a gesture's.
InputSurvives ==
  /\ At("cleanup") /\ NextStep("input") /\ input = "ready"
  /\ stuck' = TRUE
  /\ UNCHANGED <<stopVars, captureVars, playerVars, open, input, silent, shown, causes>>

\* The cleanup's labels are the error if there is none, and the tunnel is left,
\* which may raise instead.
LeaveTunnel ==
  /\ At("cleanup") /\ todo = {}
  /\ pc' = "done"
  /\ \/ open' = open \ {"tunnel"} /\ UNCHANGED <<result, causes>>
     \/ /\ open' \in {open, open \ {"tunnel"}}
        /\ result' = "raised" /\ causes' = causes \cup {"tunnel"}
  /\ error' = IF "cleanup" \in causes /\ error = "none" THEN "cleanup" ELSE error
  /\ UNCHANGED <<run, cancelled, posted, stopEvent, cleaningUp, tries, todo, labels,
                 playerVars, input, silent, shown, stuck>>

\* The cancellation is raised at the await where capture() is.
TakeCancel ==
  /\ cancelled /\ cancelled' = FALSE
  /\ IF pc = "cleanup"
     THEN /\ todo' = {} /\ result' = "cancelled"
          /\ UNCHANGED <<pc, cleaningUp, shown, open, causes>>
     ELSE Leave("cancelled", {})
  /\ UNCHANGED <<run, posted, stopEvent, error, tries, labels, playerVars, input, silent,
                 stuck>>

-----------------------------------------------------------------------------
(* run().                                                                    *)

\* Mutated: a capture that still starts is waited for.
CancelsMutant == pc # "done" /\ player # "none" /\ cleaningUp

\* run() cancels a capture that still starts, not one that runs or cleans up.
Cancels == pc # "done" /\ player = "none" /\ ~cleaningUp

\* The capture is over or the stop event is set.  A capture that raised counts as
\* a connection that failed, unless a stop was there first.
RunWakes ==
  /\ run = "wait" /\ (pc = "done" \/ stopEvent)
  /\ run' = "await" /\ cancelled' = Cancels
  /\ error' = IF pc = "done" /\ result = "raised" /\ error = "none" THEN "startup"
                                                                    ELSE error
  /\ UNCHANGED <<posted, stopEvent, captureVars, playerVars, open, input, silent, shown,
                 stuck, causes>>

Final == CASE error = "none" -> "stopped"
           [] error = "phone" -> "disconnected"
           [] OTHER -> "error"

\* The final state is written, or that fails as well.
RunEnds ==
  /\ run = "await" /\ pc = "done"
  /\ run' = "done" /\ shown' \in {Final, shown}
  /\ UNCHANGED <<cancelled, posted, stopEvent, error, captureVars, playerVars, open,
                 input, silent, stuck, causes>>

Over == run = "done" /\ UNCHANGED vars

-----------------------------------------------------------------------------
(* Callbacks, the receiver, the player's thread and the outside.             *)

DeliverStop ==
  /\ posted /\ posted' = FALSE /\ stopEvent' = TRUE
  /\ UNCHANGED <<run, cancelled, error, captureVars, playerVars, open, input, silent,
                 shown, stuck, causes>>

\* The control socket's "stop", and the signals.
UserStop ==
  /\ run # "done" /\ ~posted /\ ~stopEvent /\ Stop("none")
  /\ causes' = causes \cup {"user"}
  /\ UNCHANGED <<run, cancelled, stopEvent, captureVars, playerVars, open, input, silent,
                 shown, stuck>>

\* The receiver has a first frame: it makes the player, which calls ready().
MakePlayer ==
  /\ "receivers" \in open /\ player = "none"
  /\ player' = "alive" /\ open' = open \cup {"player"} /\ shown' = "starting"
  /\ late' = cleaningUp
  /\ UNCHANGED <<stopVars, captureVars, told, input, silent, stuck, causes>>

PlayerChanges ==
  /\ run # "done" /\ \/ player = "alive" /\ player' = "hung" /\ UNCHANGED causes
                     \/ /\ player \in {"alive", "hung"} /\ player' = "crashed"
                        /\ Cause("crash")
                     \/ player = "alive" /\ player' = "closed" /\ UNCHANGED causes
  /\ UNCHANGED <<stopVars, captureVars, told, late, open, input, silent, shown, stuck>>

\* The writer thread finds the player gone: idle it asks how it exited, but a
\* write that fails counts as a window that was closed.
ReportPlayer ==
  /\ player \in {"closed", "crashed"} /\ ~told /\ told' = TRUE
  /\ \/ Stop("none")
     \/ player = "crashed" /\ Stop("player")
  /\ UNCHANGED <<run, cancelled, stopEvent, captureVars, player, late, open, input,
                 silent, shown, stuck, causes>>

\* feed() finds its queue full, as the player does not read.
Backlog ==
  /\ player = "hung" /\ "receivers" \in open /\ ~told /\ ~posted
  /\ Stop("player") /\ Cause("backlog")
  /\ UNCHANGED <<run, cancelled, stopEvent, captureVars, playerVars, open, input, silent,
                 shown, stuck>>

\* The stream's task ends, or its packets do.
PhoneLost ==
  /\ "receivers" \in open /\ ~cleaningUp /\ Cause("phone")
  /\ \/ open' = open \ {"receivers"} /\ UNCHANGED silent
     \/ silent' = TRUE /\ UNCHANGED open
  /\ UNCHANGED <<stopVars, captureVars, playerVars, input, shown, stuck>>

\* The input task: connected to mpv, at the end of its file, or failed.
InputChanges ==
  /\ "input" \in open /\ ~cleaningUp
  /\ \/ input = "starting" /\ input' = "ready" /\ UNCHANGED causes
     \/ input = "ready" /\ player \in {"closed", "crashed"} /\ input' = "eof"
          /\ UNCHANGED causes
     \/ input = "starting" /\ input' = "refused" /\ UNCHANGED causes
     \/ input = "ready" /\ input' = "failed" /\ Cause("input")
  /\ UNCHANGED <<stopVars, captureVars, playerVars, open, silent, shown, stuck>>

StartupEnds == StartStream \/ StartBridge \/ Runs \/ StartupFails

Next ==
  \/ SelectConnection \/ EnterTunnel \/ ConnectService \/ RetryService \/ StartupEnds
  \/ Poll \/ CleanupStep \/ InputSurvives \/ LeaveTunnel \/ TakeCancel
  \/ RunWakes \/ RunEnds \/ DeliverStop
  \/ UserStop \/ MakePlayer \/ PlayerChanges \/ ReportPlayer \/ Backlog \/ PhoneLost
  \/ InputChanges \/ Over

\* The loop runs what is ready and its timers expire; opening the tunnel and the
\* handshake have no limit.
Fairness ==
  /\ WF_vars(RunWakes) /\ WF_vars(RunEnds) /\ WF_vars(DeliverStop)
  /\ WF_vars(Poll) /\ WF_vars(CleanupStep) /\ WF_vars(LeaveTunnel) /\ WF_vars(TakeCancel)
  /\ WF_vars(pc \in {"start", "player", "bridge"} /\ StartupEnds)
  /\ WF_vars(ReportPlayer)

Spec == Init /\ [][Next]_vars /\ Fairness

-----------------------------------------------------------------------------
(* Properties.                                                               *)

\* docs/development.md's ordered shutdown: however the session ends, at whatever
\* await it was stopped or failed, nothing is left open but what the cleanup
\* reported, in its error if there was no earlier one, the player that the receiver
\* made too late for close_session to know of it, and a tunnel whose exit raised.  A
\* state that cannot be written keeps close_session from being called: it is exempt.
AllClosed ==
  run = "done" =>
    /\ \/ open \subseteq labels \cup (IF late THEN {"player"} ELSE {})
                              \cup (IF "tunnel" \in causes THEN {"tunnel"} ELSE {})
       \/ "record" \in causes
    /\ labels # {} => error # "none"

\* What an error may be recorded for
Blamed == {<<"phone", "phone">>, <<"player", "crash">>, <<"player", "backlog">>,
           <<"input", "input">>, <<"startup", "startup">>, <<"startup", "record">>,
           <<"startup", "tunnel">>, <<"cleanup", "cleanup">>}

\* An error names something that happened before the cleanup, or the cleanup itself:
\* it never blames what the user's stop brought about, or what failed while another
\* failure was cleaned up.  A clean stop was asked for by the user or follows from the
\* player, although a lost phone or a failed startup may be forgotten for it.
BlameIsTrue ==
  /\ error # "none" => \E c \in causes : <<error, c>> \in Blamed
  /\ shown = "stopped" => "user" \in causes \/ player \notin {"none", "alive"}

\* Whatever asks for a stop, in whatever state, the viewer ends, and so it does when
\* it loses its player, unless its input task survived its cancellation.
StopEnds ==
  (posted \/ stopEvent \/ (player \in {"closed", "crashed"} /\ ~told))
    ~> (run = "done" \/ stuck)

=============================================================================
