# Windows iPhone Mirror: a TLA+ development

These modules model the program in `src/`: a mirror of an iPhone's screen on a
PC, with the mouse and the keyboard sent back to the phone.  A Windows viewer (a
WPF application in C#, a Python worker process and the mpv player) and a Linux
viewer (one Python process and mpv) share the idea and little code.

`PROJECT.json` lists the components, the runs, the source lines each definition
models, the findings, the hazards and the theorems.

## Inventory

| component | state it keeps | operations | what is hard | what makes it correct |
|---|---|---|---|---|
| video path (`worker/session.py`, `HevcPipeSink` and the loop of `run`) | bounded queue, header flag, stop flag, ages of the last write and packet | `feed`, the writer thread, `close`, `is_stalled`, the poll | two threads on one queue; a hung or dead player; closing under a write | order, freshness, bounded latency, a lost player ends the session, and only a lost player is blamed |
| session life cycle and command loop (`worker/worker.py`, `MirrorSession.run`, `cleanup`) | the session slot, its task, stop event, error code, what is open | `start_session`, `stop_session`, `setup`, `shutdown`, end of file | failures at any await, stops during startup, time-outs while cleaning up | one user of the phone, nothing open when the end is announced, honest answers, every stop ends |
| session input (`MirrorSession.touch` ... `release_input`) | services, contact, reported keys, `input_enabled` | eight input commands, warm-up, recovery, release | reports that fail or never return; two tasks on one service | the worker's record of what the phone holds is true; a click is delivered or declared lost; nothing stays held |
| device selection (`worker/connection_windows.py`) | a process-wide provider | `select_connection`, `discover_wifi`, tunnels | the provider is swapped around an await | the chosen phone is the requested one; the provider is restored |
| phone setup (`worker/setup_actions.py`, `setup-phone.py`, `phone_setup_agent.py`) | none between steps | pair, reveal, mount | external tools | no change without approval |
| protocol client (`WorkerProtocolClient.cs`) | pending requests, write lock, lifetime | send with and without waiting, read loop, exit, dispose | an answer, a time-out, an exit and a disposal race | every request completes once |
| Windows app (`MainWindow.xaml.cs`, `MpvSession.cs`) | worker, player, session flags, reconnect flag, held keys | connect, stop, worker events, reconnect, close | every handler awaits and others run meanwhile; stale events | one player; what is shown agrees with the worker; closing ends everything |
| single instance, CLI (`SingleInstanceCoordinator.cs`, `Program.cs`) | a mutex and a pipe | start, stop, status | two processes start together | one instance answers |
| Linux viewer (`mirror.py`) | player queue, flags, session | the same as the worker and player | the same, in one process | as the Windows video path; ordered shutdown |
| Linux input (`usb_input.py`) | contact, keys, gesture queue | mouse, wheel, keys, paste, release | a gesture task and an input loop share the service | as session input |
| Linux instance (`lifecycle.py`, `cli.py`) | lock, sockets, `state.json` | start, stop, restart, status | crashes, reused pids | one owner of the runtime directory |
| installer (`packaging/install_support.py`) | owned paths, backups, two locks | install, uninstall | failure between two replacements | all or nothing |

The application sends JSON lines to the worker's standard input and reads answers
and events from its standard output; input goes out without waiting for answers.
Inside the worker the command loop and the session task share one event loop; the
sink adds a writer thread, which reports to the loop by `call_soon_threadsafe`.
The video goes from the worker to the application's named pipe, which relays it to
mpv.

## Modules

**`VideoSink`**: `HevcPipeSink` and the loop that supervises it.  The event loop
and the writer thread interleave between any two calls of `queue.Queue`, so
`feed()` is five actions when the queue is full (`Feed`, `FeedKeep`, `FeedDrain`,
`FeedDrop`, `FeedRetry`) and the writer four.  Other callbacks of the event loop
(`Poll`, `UserStop`, `Close`, `DeliverNotice`) run only between feeds (`LoopFree`),
since `feed()` never awaits.  Access units are numbered, 0 being the codec header.
Times are ages that saturate; a unit does not pass without a poll, because the
code polls every 0.25 s.  `pipe` is the player's end: it reads, hangs, or is gone.
What the queue admits is `HasRoom`, its `maxsize`; that it never holds more is the part
of `TypeOK` that could fail.

**`WorkerSession`**: the command loop (`MainStep`) and the session tasks
(`RunStep`).  A step is the code between two awaits; each await of the startup may
raise, and so may the exit of the tunnel.  `owned` is what the session has opened and not
yet tried to close; `left` is what it tried and could not, the tunnel or the phone's
stream.  An `orphan` is a stream that the phone began before the answer with its id was
lost (`StartStream`).  Commands connect and drop the input at any time the phone can be
reached, during the cleanup too (`InputConnects`, `InputFails`).  `events` is the history
of the session's state events, which is what the application sees.

**`SessionInput`**: the input handlers.  `Program` gives each command's handler as
the list of operations it performs, each `Recovery` the list that replaces the rest
after a failure.  An operation that awaits the phone is issued in one step and ends
in another, so the session task's warm-up and cleanup interleave with it.  A report
that fails may have reached the phone or not.  `phone` is what the phone holds.  Until the
session has entered its tunnel `self.rsd` is None, and a connection fails at once
(`Connect`).

**`WorkerContract`**: what the worker process promises the application, without
its tasks, awaits and resources: which state events each session sends, when a start
is accepted and when a stop may be answered "stopped".  `WorkerSession` implements it
through `Contract`, an `INSTANCE` whose `phase` of a session is computed from where
its code is (`PhaseOf`).  The worker of `AppSession` follows this contract.

**`WorkerProtocol`**: `WorkerProtocolClient`, with the process as its environment.
Calls are numbered in the order in which the application makes them.  The first turn
of a call, up to its first await, runs on the user interface's thread, so that no
other call begins in the middle of it (`ThreadFree`); but the process may exit between
the check of `HasExited` and the registration of the request, which is why `Begin` and
`Register` are two actions.  `queue` is the write lock and those that wait for it, and
a write blocks while the pipe is full.  The process may stop taking commands, never
answer, or exit at any time, and the reader, the exit's handler and the time-outs come
in any order.

**`AppSession`**: the session of the window.  Its methods run on one dispatcher and
give way only at an await, so a method in progress (a *flow*) is the list of operations
it has left, `current` runs until it awaits, and any other may resume then.  `Stop`,
`Connect`, `Clear`, `Reconnect` and `Close` are the methods; `Raises` says who catches an
exception and what it skips.  The line after an awaited method may be posted although the
method ended on the dispatcher, so other methods run in between: after
`EnsureWorkerAsync` (`Ensure`) as a step of its own, after `DisposeAsync` as an await of
the player's relay that lasts so long (`Maybe`).  A connection without a Wi-Fi address
gives up after it has its worker.  A player is alive, killed, exited or closed, and the
second of two methods that dispose of one player finds `_process` null.  `inbox` is the
dispatcher's queue: the worker's events and exit, and what `Mpv_Exited` has posted.

**`LinuxInput`**: `InputBridge`.  Two tasks, the loop that reads mpv's events and the
one gesture, share the service; each handler is the list of operations of `Body`, with
`Final` and `Finally` for what a cancelled gesture still does.  A report may fail, time
out or get through without an answer; `doubt` records which of the three things held
(finger, keys, Home button) the bridge can no longer know about, and why.

**`LinuxMirror`**: `Mirror.capture` and `close_session`.  `open` is what the session has
opened and not closed, `todo` the closing steps that are left, taken in their `Order`;
each may succeed, fail or reach its time limit; a stop, a
second stop, the end of the player and the receiver's thread come at any await.  The
state file may refuse the "stopping" that precedes the cleanup, which then does not take
place, or the final state, and leaving the tunnel may raise.

**`LinuxInstance`** and **`Installer`**: viewer processes and the runtime directory
they share (`Runtime`, `iphone-mirror status`), and beside them `install()` and
`uninstall()`, which take the same lock.  Every step of the installation that can raise
does, an interrupt may come after any step, and any process may be killed.
`Installer` extends `LinuxInstance`, so that one run composes them.

`MC...` modules fix the model's constants; `..._proofs` modules hold the theorems.

## Runs

| run | instance | shows |
|---|---|---|
| `video_sink` | a queue of 3, 5 access units, thresholds 2 < 3 < 4 < 5 | order, freshness, latency, blame, and that a lost player ends the session |
| `video_sink_header` | the same | violated: the drain discards the header it means to keep |
| `worker_session` | two sessions, two handshake attempts | one user; the end is announced when everything that is the cleanup's has been tried to close; honest stop; one of seven words for all that a session sends, whatever raises; stops and shutdown end; the worker keeps its contract |
| `session_input` | one modifier, two letters, an invalid usage | the record agrees with the phone; commands do what they promise; modifiers change in reports of their own; a touch cannot block the command loop for ever |
| `worker_protocol` | three commands, `shutdown` included, a pipe of one | input in order, answers to their own commands, an exit fails all that wait, every call and the disposal end |
| `app_session` | two methods at a time, three players, one reconnection attempt, one unread event | no player outlives the methods that made it, a running stream's player is the window's; `_stopping` is taken back |
| `linux_input` | a letter, alone and with a modifier | one reporter at a time; the record agrees with the phone; what was held is released on a lost focus; nothing is pressed without the focus; a release ends |
| `linux_input_close` | one letter | violated: the cancellation of the input task is swallowed |
| `linux_mirror` | two handshake attempts | everything opened is closed or reported, with the exceptions told below; only a failure is reported as one; a stop ends |
| `linux_host` | two processes, three owned paths, one of them obsolete | old or new, never a mixture; the viewer keeps its socket; "running" is true |
| `session_input_release` | one letter | violated: the release comes after the tunnel has gone |
| `session_input_warm` | one letter | violated: a failed warm-up is not retried |

*Why the bounds are enough.*  In `VideoSink`, a queue of three overflows with one
unit in the writer's hands, and the drain passes through every number of entries
above, at and below `keep`; five units overflow it once with the writer idle and
again after it moved.  The thresholds matter only by their order (and by
`PacketFresh` being at least two units, as a transport that is polled four times per
unit is not always fresh).  In `WorkerSession`, a second start can meet any state of
the first session, and a third would meet nothing new because a slot that is refused
changes nothing.  In `SessionInput`, one modifier and two letters allow a report that
adds, drops and keeps a letter while the modifier changes; positions do not matter to
any property.  In `WorkerProtocol`, with a pipe of one the second command blocks in
its write and the third waits for the lock, and the third may be the `shutdown` of the
disposal; the late answer to a call that has timed out finds another one waiting.  In
`AppSession` the races are between two methods: one at an await while another runs from
its beginning to its end, as often as wanted, since flows and players are named anew.
What three methods can do together is left to the theorems, which hold for any number.
A second attempt of the reconnection (`Tries = 2`) begins as the first does; the run has
been made with it too, in three times the time and with the same result.
`MaxEvents` bounds only what is unread when the worker writes or the user acts; the exit
and the player's fallback come on top, in any order.  In `LinuxInput` a letter,
alone and with a modifier, and the letter of the shortcuts are the kinds of key that
reports treat differently.  In `Installer` the
three paths are the directory, a file and one that is not made again, and two processes
let one hold the lock while the other is launched, killed or has left files behind;
they are symmetric.  Apart from the sessions of `WorkerSession` and the calls of
`WorkerProtocol`, no run limits the number of commands or failures; `Installer` makes
one installation or removal.

*Fairness.*  `VideoSink`: the loop and the thread are scheduled and time passes.
`WorkerSession`: both tasks run, and each awaited call returns or raises; nothing
obliges a command to arrive, except that the loop ends after `shutdown`.
`SessionInput`: a task that can run runs, and an await ends for certain only if the
code bounds it or the tunnel is closed, which is what `TouchIsBounded` is about.

`WorkerProtocol`: the client's threads run and its timers expire, and the process owes
nothing.  `CallsEnd` has one condition, `PipeMoves`: a write does not stay blocked for
ever.  The code does not ensure it.  The time-out of a command starts when its write
has completed, so if the process stays alive and reads nothing while the pipe is full,
the holder of the lock waits for ever and so does everyone behind it, the `shutdown` of
the disposal included; the disposal would kill the process only after that command.

`LinuxInput` and `LinuxMirror`: a task that can run runs, a call that the code bounds
ends, and a cancellation is delivered; `ReleaseEnds` and `StopEnds` need no more;
`CloseSpec` adds, for `CloseEnds`, that `close_session` goes on when it can.
`StopEnds` of `LinuxMirror` exempts `stuck`, the input task that survives its
cancellation, which is finding 4.
`AppSession`, `LinuxInstance` and `Installer` state safety only.

*Deadlock* is checked in every run; the states where the system has ended loop
(`Stopped`, `Over`, `Finished`).

## Findings

1. `HeaderFirst`: `feed()` keeps one entry "for the header" but takes from the head,
   where the header is.  The player then starts on a frame that it cannot decode.
2. `ReleasedAtEnd`: `cleanup()` runs after the tunnel's block, so a session that ends
   with a finger or a key down cannot release it.  The window sends `release_input` before
   it asks for a stop (`src/src/iPhoneMirror.App/MainWindow.xaml.cs:412`), so this bites
   when a session ends otherwise: the stream or the player is lost, standard input ends, or
   that release fails.
3. `RetriesLazily`: `ensure_hid()` sets `self.hid` before it has connected, so after a
   failed warm-up the first click is lost and disables the input.
4. `CloseEnds`: `release()` of the Linux viewer suppresses `CancelledError` around the
   gesture it waits for.  A shutdown that cancels the input task at that moment is
   swallowed, and the `gather()` that waits for the task without a limit keeps the
   stream, the player and the tunnel open.

What the models show without a run of its own, because nothing in the repository says
otherwise or because a property names it as its exception:

- `WorkerSession`: `cleanup()` runs when the tunnel has been left, so its
  `stop_media_stream` reaches the phone only if the exit of the tunnel failed; it is tried,
  given 5 s, and its failure is suppressed.  A stream that began before the 12 s limit, or
  whose answer has no id, is not even tried (`orphan`).  `TriedBeforeEnd` therefore says
  "has tried to close", and excuses the orphan and an input service connected late through
  a tunnel that stayed.  If the exit of the tunnel raises after the session ran, the end
  is announced twice, by `run()` and by the task's wrapper (`src/worker/worker.py:117`),
  as it is whenever a startup raises: two of the seven words.
- `AppSession`: a "stopped" event and the answer to `stop_session` come together, so the
  event's handler and `StopSessionAsync` dispose of one player at the same time.  If
  both await its exit, the second dereferences the null `_process`; from a button this
  ends the application (`crashed`).  Two connections that wait for the host's window
  together each make a player, and `_mpv = null` after an await may forget a newer one
  (`dropped`, which `OneViewer` exempts).
  Three methods can leave a player behind in another way, which the run of two does not
  reach.  It was found by the proof: without this exemption `OneViewer` is false.  The
  reconnection's attempt fails and its catch block's stop awaits the exit of the player;
  the handler of an event disposes of that player meanwhile and sets `_mpv` to null; a
  connection by the button, which had passed its own stop before, then makes a new player,
  its start fails, and the stop of its catch block returns at once, because `_stopping` is
  still set (`src/src/iPhoneMirror.App/MainWindow.xaml.cs:408`).  The first stop resumes,
  finds `_process` null and raises, which the reconnection swallows: the new player plays
  nothing and belongs to no method until the next connection, stop or close.
  `Disposed` counts that as `dropped`.  With two methods it cannot happen.
  If a session ends before the answer to its
  `start_session` is processed, `_sessionActive` stays true.
- `LinuxInput`: a gesture cancelled in its last report leaves the finger or the Home
  button as it was (`doubt` is "release"); the Home button never comes back after a
  failed connection, because `indigo` is not reset (`src/usb_input.py:199`); a cancelled
  connection in `ensure_hid` leaves a service that is set and not connected.
- `LinuxMirror`: a player that the receiver makes after `close_session` has read
  `self.player` is not closed (`late`); a stop during the cleanup of a failed startup
  makes `run()` forget the failure; the sum of the closing limits can exceed
  `TimeoutStopSec`.  If state.json cannot be written as the cleanup begins
  (`src/mirror.py:239`) nothing is closed at all, and if `run()` was already waiting for the
  end of the capture the exception is suppressed with it: "record", which `AllClosed`
  exempts.  An exit of the tunnel that raises is suppressed in the same way ("tunnel").
- `Installer`: an interrupt between a rename and the list that records it leaves a path
  moved without a message (`cut`, which `OldOrNew` exempts from its second part but not
  from its first); a viewer that has loaded its code before an installation runs old
  code over new files.

## Proofs

Assumptions are those of the modules (`CapacityAssumption`, `TimeAssumption`,
`BoundsAssumption`, `SizeAssumption`, `NoneAssumption`, `PidsAssumption`,
`OwnedAssumption`, `TriesAssumption`, `KeysAssumption`, `BadAssumption`,
`ChordAssumption`, `AppAssumption`), which TLC evaluates on every run.

`VideoSink_proofs`, for every queue size of at least two and every feed:
`TypeCorrect`; `PipeOrder` and `LatencyBound` from `OrderInv` (what is written, held
by the writer and queued are three increasing pieces of the feed, in that order, all
older than the unit being placed) and `PutInv` (at the final put the drain has left
at most one entry); `NewestKept`, inductive with `OrderInv`; `CloseSilent` from
`BlameInv`, which adds the notice that has been posted and not yet run.  `WritesInOrder`
alone is not inductive: it says nothing of the entries still queued.

`WorkerSession_proofs`, for any number of sessions: `TypeCorrect`; `OneUser` and
`StopIsHonest` from `SlotInv` (the slot names exactly the live session, and a waiting
command waits for it or for one that has left the slot); `CleanedUpFirst`, of
`TriedBeforeEnd`, from `OwnInv` (what a session may still own at each place of its code,
and `Beyond` it what no step of the cleanup closes) and `EventInv` (a terminal event is
sent only by a session that has ended).

The same module proves the refinement, `WorkerKeepsContract`: every step of
`WorkerSession` is a step of the contract's `Safe` or a stutter.  It rests on `SlotInv`
and on `WindInv` (a session that winds down has been told to stop or has failed, which
the contract calls `ending`), one lemma for the steps of a session and one for those of
the command loop.  The contract's own fairness is not part of it.  `ContractSpeaks` then
shows what an abstract specification is for: the contract alone, with none of the
worker's tasks and resources, implies that what a session sends is one of seven words
("error"; "starting", "stopping", "stopped" or "error", and "error"; or "starting",
"running", "stopping" and "stopped" or "error", with or without the "error" of a tunnel
whose exit raised), never more than its phase has come to.
`WordInv` is the contract's invariant for it: `HeardInWords` with the types, and that a
session beyond the count has said nothing.  `WorkerSpeaks` follows for the worker.

`WorkerProtocol_proofs`, for any number of calls and any pipe: `TypeCorrect`, with
`NumberInv` (exactly the calls beyond the count have not begun, and only the last can be
in its first turn); `InputInOrder` from `OrderInv`,
which says that what the process has taken, what is in the pipe and what waits for the
lock are three pieces of the calling order, since `ReceivedInOrder` alone says nothing of
the commands still on their way; `ResultsAreOwn` from `AnswerInv` (an answer in the pipe
is to a command that was taken and is no longer handled); `NoneLeftWaiting` from
`ExitInv` (every call that waits, or will wait, for its answer is registered; once the
exit has been announced no write can succeed, so no call begins to wait).

`Installer_proofs`, for any number of viewer processes and of owned paths (with
`PidsAssumption` and `OwnedAssumption`): `TypeCorrect`, with `LockInv` (a viewer has the
lock from its acquisition until it frees it, which `InstanceTypeOK` says only until it
closes) and `PathInv`, because a backup has its type only if what was moved there was
old; `OldOrNewHolds` from `PathInv`; `OwnSocketHolds`, inductive with `LockInv`, since
whoever removes a socket has the lock; `StatusIsTrueHolds` from `StatusInv` (a process
that the file calls running runs or is dead, and what the query has read was true or its
process is dead, and stays so while its pid is not used again).  `PathInv` says of each
path where it is in its life: `Untouched` after the index, `Replaced` before it, and
`Between` at it, where the lists are one step behind.  `OldOrNew` alone says nothing of
the lists, so a rollback that begins could not be shown to undo what was done; `CutOff`
is the lemma that the lists say enough wherever the replacement is cut off.

`LinuxMirror_proofs`, for any number of handshake attempts: `TypeCorrect`;
`EverythingClosed` from `OpenInv` (at each place of the cleanup what is open is still to
be closed, has a label, is the late player or a tunnel that could not be left, unless the
cleanup was skipped) and `PlaceInv` (only a startup is
cancelled, so no cleanup is cut short); `TrueBlame` from `CauseInv` (each sign that the
code looks at was caused by what it is taken for) and `StopInv` (a stop has an error or
was asked for).  `AllClosed` alone says nothing before the end, and `BlameIsTrue` nothing
of the signs, so neither is inductive.

`SessionInput` and `LinuxInput` keep what a task has left to do as a list of operations.
Their proofs say of such a list only which operation may follow which (`After`, and
`Chain` for a whole list), so that a step needs to know the operation it
performs and those that can come next, never the position in a command.  What an
operation relies on is then said once, for that operation at the head of a list.

`SessionInput_proofs`, for any sets of modifiers and letters: `TypeCorrect`; `InSyncHolds`
from `SyncOk`, which says before each operation (`TouchBefore`, `KeysBefore`) and while it
awaits the phone (`TouchDuring`) what the service believes and the phone holds;
`CommandDoneHolds` with `DoneOk` (a list that has met no failure still ends in the
command's own last report); `ModifiersApartHolds` with `ApartOk`, from the order of the
reports of a change of keys.  `InSync` says nothing while a command runs and `CommandDone`
nothing before its end, so neither is inductive.  The session's own task interferes only
where the handler awaits, and while the tunnel is open it does no more than warm up the
keyboard; `Quiet` is what such a step leaves alone.  Everything is claimed only until the
tunnel is closed or a release has been lost (`Live`), as the properties are.

`LinuxInput_proofs`, with the same generality: `TypeCorrect`, `OneReporterHolds`,
`InSyncHolds`, `ReleasedHolds` and the action property `NoInputUnfocusedHolds`.  The
invariant has six parts.
- `Typed`.
- `Shape`: what the lists of the two tasks are, and `Apart`, what the loop may have left
  to do beside the gesture there is.  While a shortcut or a press of Home goes on the loop
  has no report left to make, a scroll allows only typed keys, and once the loop has
  joined the gesture it is alone.  A gesture that has not been cancelled has the focus, or
  the loop is about to cancel it: this is what `NoInputUnfocused` needs, and
  `OneReporter` follows from it.
- `TouchOk`: the contact agrees with the phone but during a report of it, which is one
  task's alone; past the `lift` of a release there is none.
- `KeysOk`: what was reported is what the phone has, as far as the last report did not
  fail.  The service and the keyboard are there when keys are sent, or the list connects
  them first (`Armed`).  Past the `clearKeys` of a release nothing is down.
- `HeldOk`: what is reported is what is held whenever the loop is between two changes of
  keys and no shortcut has changed them; a change under way ends in what is held
  (`RunOf`).
- `ButtonOk`: while Home is down a gesture has yet to let go of it.

`InSync` and `Released` speak of the loop only between two events.  `Settled` carries the
second past the end of the loop: an interruption by `close_session` empties the loop's
list anywhere, and what is known then must not be more than what was.  `Released` says
"reached the phone or failed" of each release, so `doubt` is part of every clause.

`AppSession_proofs`, for any number of methods in progress, of players and of attempts to
reconnect: `AppTypes`, `StopEndsHolds` and `OneViewerHolds`, from the eight parts of
`IInv` (`AppInvariant`).  Here too a method is known only by which operation may follow
which (`Chained`), as `Clear \o <<"react">>`, `Reconnect` and what `After` leaves are all
chained.
- `AppType`, and `Tidy`: who has the dispatcher, or awaits, has something left to do.
- `DoomInv`: the player that a stop or a clearing has at hand has lost its pipe, and is
  closed once its exit has been awaited.
- `FreshInv`: the player just made is `_mpv` and no other method's, from `NewPlayer` to
  `Start`.
- `HeldInv`: a player that is not closed, or whose pipe the worker has or will have, is
  `_mpv`.
- `OwnedInv`: while `_stopping` is set some method is in `StopSessionAsync`, between its
  first line and its end.  `StopEnds` names only some method that has a stop left, which
  a connection that has not begun also has: the invariant has to say which.
- `MournedInv`: if `_mpv` is closed, a method that has it at hand goes on to put it right.
- `CaredInv`: a player for which no session is believed active belongs to somebody, a
  connection before its answer, or a stop or clearing under way.

`OneViewer` speaks only of a window at rest, so it says nothing of any step that leads
there.  Steps that leave the players and what the methods have at hand alone (most of
the worker's and the inbox's) are taken together by one lemma each for what is quiet and
what stands still.  `HeldInv`, `MournedInv` and `CaredInv` are claimed only until a
player is `dropped`, as `OneViewer` is; the attempt to prove them with `dropped` as it
was before, the overwritten player only, is what brought out the case of three methods
told above.

Liveness (`PlayerLossEndsSession`, `StopEnds` of the worker and of the Linux viewer,
`MainEnds`, `TouchIsBounded`, `CallsEnd`, `ReleaseEnds`) is beyond the prover and is
model-checked only; every other property of a passing run is the subject of a theorem.

## Not modelled

The phone, its services and pymobiledevice3 are an environment: awaited calls return
or raise, and the phone is not assumed to release anything by itself.  Rendering,
wording, logging, settings and the timing log are left out, and the operating system's
windows and focus.  `PROJECT.json` says of each component what is missing.

- In `AppSession`: two callers of `EnsureWorkerAsync` that start a worker each
  (`src/src/iPhoneMirror.App/MainWindow.xaml.cs:248`), a player that cannot be started,
  the routing of input (geometry and tables), the refresh of the devices.  What threads and
  processes do during a run of the dispatcher is seen after it (`Between`).
- In `LinuxInput`: the awaits of mpv's own pipe (`show-text` and `drain`) and the sleeps
  between two reports of a gesture, which change nothing that a property sees and at which
  a cancellation has the effect it has at the report before or after; and `closeService` is
  a step also where there is no service to close.
- In `LinuxMirror`: an update of state.json that raises inside the supervising loop
  (`src/mirror.py:219`); it leaves the loop as a failure of the startup leaves the startup.
- In `LinuxInstance`: `restart`, which is a stop and a start, two concurrent `start`
  commands that write `launch.json`, and a state.json that cannot be written (which is in
  `LinuxMirror`).  A pid is not used again while a file or a query names it (`Launch`), so
  that half of the hazard at `src/cli.py:141` is not covered.
- Device selection (`connection_windows.py`): asynchronous calls of pymobiledevice3 whose
  outcome is data; its one hazard, the provider that is swapped around an await, is listed.
- Phone setup on both systems: a sequence of prompts and calls to external programs, run
  once, without state between its steps.
- Windows core utilities, the player's host window and the toolbar, the single-instance
  pipe and the Omarchy plugin: wrappers of the operating system, and pure functions that
  the repository's unit tests cover.

## What is left

| module | code | properties, with the hazard they aim at |
|---|---|---|
| `DeviceSelection` | `connection_windows.py` | the provider is restored on every path, and a discovery that runs meanwhile does not use the tunnel's |
| `AppSession` | `MainWindow.xaml.cs` | a second worker started by a concurrent `EnsureWorkerAsync` |

Liveness is what the theorems leave out; nothing else that the runs check is unproved.
