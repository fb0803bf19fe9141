------------------------------ MODULE AppSession ------------------------------
(***************************************************************************)
(* The session of the Windows window (MainWindow.xaml.cs), its player      *)
(* (MpvSession.cs) and the worker process that runs the stream.  All       *)
(* methods run on one dispatcher and give way only at an await, so several *)
(* may be in progress: a connection, a disconnection, the handler of a     *)
(* worker's event, the automatic reconnection, the window's close.         *)
(*                                                                         *)
(* A method in progress, a flow, is the operations it has left; `current`  *)
(* runs until it awaits.  The worker is its contract, WorkerContract: its  *)
(* sessions and the events and answers it writes, in their order.          *)
(***************************************************************************)
EXTENDS Naturals, SequencesExt

CONSTANTS
  Flows,     \* names for the methods in progress, so many at a time
  Players,   \* names for the players that there are at a time
  None,      \* no flow, no player
  Tries,     \* attempts of AutomaticReconnectAsync
  MaxEvents  \* bound on what the worker has written and the window not yet read

ASSUME AppAssumption == /\ None \notin Flows \cup Players
                        /\ Tries \in Nat \ {0} /\ MaxEvents \in Nat \ {0}

VARIABLES
  stopping, active, running,  \* _stopping, _sessionActive, _sessionRunning
  mpv,           \* _mpv
  player,        \* each player's process and the window's handle on it: none, alive,
                 \* killed, exited, closed
  reconnecting,  \* _automaticReconnect: the attempt it is at, 0 when there is none
  closing,       \* no, yes (_closing), closed
  flow,          \* for each flow its kind (none, button, event, reconnect, close), the
                 \* operations todo, the player it has at hand, whether it runs or
                 \* awaits, and the answer it was given (none, ok, failed)
  current,       \* the flow that has the dispatcher
  exited,        \* the Exited handler of _mpv has not run yet
  worker,        \* _worker: none, up or exited
  commands,      \* commands that the worker has not taken
  session,       \* the worker's session: its phase (none, accepted, starting, running),
                 \* whether it was told to end, and the player at its pipe
  inbox,         \* what the worker has written, its exit and the player's
  crashed,       \* an exception has left an async void method
  dropped        \* history: another method's player was lost: _mpv was overwritten, or
                 \* a stop given up, although it was there

window == <<stopping, active, running, mpv, reconnecting, closing>>
process == <<worker, commands, session, inbox>>
vars == <<window, player, flow, current, exited, process, crashed, dropped>>

Absent == [kind |-> "none", todo |-> <<>>, obj |-> None, at |-> "run", answer |-> "none"]
NoSession == [phase |-> "none", ending |-> FALSE, player |-> None]

-----------------------------------------------------------------------------
(* The methods, as lists of operations.                                      *)

Stop == <<"stop?", "release", "stop", "dispose", "relay", "stopped">>

Connect == <<"connect?", "release", "stop", "dispose", "relay", "stopped",
             "ensure", "host", "player", "start", "connected">>

\* Mutated: a failed connection leaves what it had opened.
CaughtMutant == <<>>

\* catch of ConnectAsync
Caught == Stop

Clear == <<"clear", "relay", "cleared">>

Reconnect == <<"delay">> \o Connect \o <<"watch", "reconnected">>

Close == Stop \o <<"closeWorker", "closed">>

Init ==
  /\ stopping = FALSE /\ active = FALSE /\ running = FALSE /\ mpv = None
  /\ player = [p \in Players |-> "none"] /\ reconnecting = 0 /\ closing = "no"
  /\ flow = [f \in Flows |-> Absent] /\ current = None /\ exited = FALSE
  /\ worker = "up" /\ commands = <<>> /\ session = NoSession /\ inbox = <<>>
  /\ crashed = FALSE /\ dropped = FALSE

\* What follows the loss of a player is not followed.
Over == crashed \/ closing = "closed" \/ dropped

-----------------------------------------------------------------------------
(* The dispatcher.                                                           *)

\* Threads and processes move between two of the dispatcher's runs: all that a run sees
\* of them is who has exited, and Kill lets a player exit under it.
Between == current = None /\ ~Over

Op(f) == Head(flow[f].todo)
Rest(f) == Tail(flow[f].todo)

After(todo, mark) ==
  SubSeq(todo, (CHOOSE i \in DOMAIN todo : todo[i] = mark) + 1, Len(todo))

\* A method is called from the message loop.
Begin(kind, todo) ==
  /\ Between
  /\ \E f \in Flows : /\ flow[f] = Absent /\ current' = f
                      /\ flow' = [flow EXCEPT ![f].kind = kind, ![f].todo = todo]

\* f runs into one of the operations, or its await of one is over.
Runs(f, ops) == current = f /\ ~Over /\ Op(f) \in ops
Resumes(f, ops) == Between /\ flow[f].at = "await" /\ Op(f) \in ops

\* A method remembers its player from the kill until it has put _mpv right.
Goes(f, todo) ==
  IF todo = <<>> THEN flow' = [flow EXCEPT ![f] = Absent] /\ current' = None
  ELSE /\ flow' = [flow EXCEPT ![f].todo = todo, ![f].at = "run", ![f].answer = "none",
                               ![f].obj = IF Head(todo) \in {"relay", "stopped", "cleared"}
                                          THEN @ ELSE None]
       /\ current' = f
Awaits(f) == /\ flow' = [flow EXCEPT ![f].at = "await", ![f].answer = "none"]
             /\ current' = None

\* The end of the method that f is in
Ending(f) == IF Op(f) = "clear" THEN "cleared" ELSE "stopped"

\* Mutated: an exception leaves _stopping as it is.
StillStoppingMutant(f) == stopping

\* finally of StopSessionAsync
StillStopping(f) == stopping /\ Op(f) # "dispose"

\* What ConnectAsync still has to do catches what is raised in it.
Catches(f) == "connected" \in ToSet(flow[f].todo)

\* f's operation raises: ConnectAsync, the reconnection and the tasks of the handlers
\* catch it; the buttons do not.
Raises(f) ==
  /\ stopping' = StillStopping(f)
  /\ Goes(f, CASE Catches(f) -> Caught \o After(flow[f].todo, "connected")
               [] ~Catches(f) /\ flow[f].kind = "reconnect" -> <<"reconnected">>
               [] OTHER -> <<>>)
  /\ UNCHANGED <<active, running, mpv, reconnecting, closing>>
  /\ crashed' = (~Catches(f) /\ flow[f].kind \in {"button", "close"})

Continues(f) == Goes(f, Rest(f)) /\ UNCHANGED <<window, crashed>>

-----------------------------------------------------------------------------
(* StopSessionAsync, ClearSessionResourcesAsync and MpvSession.DisposeAsync. *)

\* The session is asked of the worker only if there is one.
Believed == worker = "up" /\ active

\* _stopping turns a connection away, or a stop.
Enter(f) ==
  /\ Runs(f, {"connect?", "stop?"}) /\ stopping' = TRUE
  /\ LET todo == flow[f].todo
         end == IF Op(f) = "stop?" THEN "stopped" ELSE "connected"
     IN Goes(f, CASE stopping -> After(todo, end)
                  [] ~stopping /\ Believed -> Rest(f)
                  [] OTHER -> After(todo, "stop"))
  /\ UNCHANGED <<active, running, mpv, reconnecting, closing, player, exited, process,
                 crashed, dropped>>

\* release_input and stop_session
AskWorker(f) ==
  /\ Runs(f, {"release", "stop"})
  /\ IF Believed
     THEN /\ Awaits(f)
          /\ commands' = IF Op(f) = "release" THEN commands
                         ELSE Append(commands, [what |-> "stop", by |-> f, player |-> None])
     ELSE Goes(f, Rest(f)) /\ UNCHANGED commands
  /\ UNCHANGED <<window, player, exited, worker, session, inbox, crashed, dropped>>

\* What is still to be answered to f will not be looked at.
Unlinked(s, f) == [i \in DOMAIN s |-> IF s[i].by = f THEN [s[i] EXCEPT !.by = None] ELSE s[i]]
Unlink(f) == /\ commands' = Unlinked(commands, f) /\ inbox' = Unlinked(inbox, f)
             /\ UNCHANGED <<worker, session>>

\* Answered, failed, or out of time: the last only up to a bound on what the worker has
\* not taken.
Returned(f) == flow[f].answer # "none" \/ Op(f) = "release" \/ Len(commands) <= MaxEvents

Asked(f) ==
  /\ Resumes(f, {"release", "stop"}) /\ Returned(f) /\ Continues(f) /\ Unlink(f)
  /\ UNCHANGED <<player, exited, dropped>>

\* A player whose pipe is gone can be named anew.
Unpiped(p) ==
  /\ commands' = [i \in DOMAIN commands |->
                    IF commands[i].player = p THEN [commands[i] EXCEPT !.player = None]
                    ELSE commands[i]]
  /\ session' = IF session.player = p THEN [session EXCEPT !.player = None] ELSE session

\* The process is killed, and its exit awaited unless it has ended by then.
Kill(f) ==
  /\ Runs(f, {"dispose", "clear"})
  /\ active' = FALSE /\ running' = (running /\ Op(f) = "dispose")
  /\ stopping' = (stopping /\ (mpv # None \/ Op(f) = "clear"))
  /\ IF mpv = None
     THEN /\ Goes(f, After(flow[f].todo, Ending(f)))
          /\ UNCHANGED <<player, exited, commands, session>>
     ELSE /\ Unpiped(mpv)
          /\ \/ /\ player[mpv] \in {"alive", "killed"}
                /\ player' = [player EXCEPT ![mpv] = "killed"]
                /\ flow' = [flow EXCEPT ![f].at = "await", ![f].obj = mpv]
                /\ current' = None /\ UNCHANGED exited
             \/ /\ player' = [player EXCEPT ![mpv] = "closed"]
                /\ flow' = [flow EXCEPT ![f].todo = Rest(f), ![f].obj = mpv]
                /\ exited' \in {exited, exited \/ player[mpv] \in {"alive", "killed"}}
                /\ UNCHANGED current
  /\ UNCHANGED <<mpv, reconnecting, closing, worker, inbox, crashed, dropped>>

\* The exit was awaited: whoever comes second finds _process set to null, and raises,
\* and if nothing catches that before _mpv is another player leaves that one behind.
Disposed(f) ==
  /\ Resumes(f, {"dispose", "clear"})
  /\ LET now == player[flow[f].obj]
     IN /\ now \in {"exited", "closed"}
        /\ player' = [player EXCEPT ![flow[f].obj] = "closed"]
        /\ IF now = "closed" /\ Op(f) = "dispose"
           THEN /\ Raises(f)
                /\ dropped' = (~Catches(f) /\ mpv \notin {None, flow[f].obj})
           ELSE Continues(f) /\ UNCHANGED dropped
  /\ UNCHANGED <<exited, process>>

\* The relay's task, and the host's handle, may be there already.  That the line after
\* DisposeAsync is posted is an await of the relay that lasts so long: nothing that
\* another method sees is between the two.
Maybe(f) ==
  /\ Runs(f, {"relay", "host"})
  /\ Goes(f, Rest(f)) \/ Awaits(f)
  /\ UNCHANGED <<window, player, exited, process, crashed, dropped>>

Ready(f) ==
  /\ \/ Resumes(f, {"relay", "host"}) /\ Continues(f)
     \/ Resumes(f, {"host"}) /\ Raises(f)
  /\ UNCHANGED <<player, exited, process, dropped>>

\* _mpv is set to null, whichever player it is by now; its Exited handler has nothing
\* left to do.
Drop(f) ==
  /\ Runs(f, {"stopped", "cleared"}) /\ mpv' = None
  /\ stopping' = (stopping /\ Op(f) # "stopped")
  /\ dropped' = (mpv \notin {None, flow[f].obj}) /\ exited' = FALSE
  /\ player' = [p \in Players |->
                 IF player[p] = "closed" /\ \A g \in Flows \ {f} : flow[g].obj # p
                 THEN "none" ELSE player[p]]
  /\ Goes(f, Rest(f))
  /\ UNCHANGED <<active, running, reconnecting, closing, process, crashed>>

-----------------------------------------------------------------------------
(* ConnectAsync and AutomaticReconnectAsync.                                 *)

\* EnsureWorkerAsync, before which the line after the stop may have been posted; that
\* two of its callers start a worker each is left out.
Ensure(f) ==
  /\ Runs(f, {"ensure"})
  /\ (worker = "up" /\ Goes(f, Rest(f))) \/ Awaits(f)
  /\ UNCHANGED <<window, player, exited, process, crashed, dropped>>

\* A connection over Wi-Fi without an address looks for one, and is over.
Ensured(f) ==
  /\ Resumes(f, {"ensure"})
  /\ \/ Continues(f) /\ worker' = "up"
     \/ Raises(f) /\ UNCHANGED worker
     \/ /\ Goes(f, After(flow[f].todo, "connected")) /\ worker' \in {worker, "up"}
        /\ UNCHANGED <<window, crashed>>
  /\ UNCHANGED <<player, exited, commands, session, inbox, dropped>>

\* What a new player is not called.
Named == {mpv} \cup {flow[g].obj : g \in Flows}

NewPlayer(f) ==
  /\ Runs(f, {"player"})
  /\ \E p \in Players \ Named :
       /\ player[p] \in {"none", "closed"}
       /\ player' = [player EXCEPT ![p] = "alive"] /\ mpv' = p
       /\ flow' = [flow EXCEPT ![f].todo = Rest(f), ![f].obj = p]
  /\ dropped' = (mpv # None) /\ exited' = FALSE
  /\ UNCHANGED <<stopping, active, running, reconnecting, closing, current, process,
                 crashed>>

Start(f) ==
  /\ Runs(f, {"start"})
  /\ IF worker = "up"
     THEN /\ Awaits(f) /\ UNCHANGED <<window, crashed>>
          /\ commands' = Append(commands, [what |-> "start", by |-> f,
                                           player |-> flow[f].obj])
     ELSE Raises(f) /\ UNCHANGED commands
  /\ UNCHANGED <<player, exited, worker, session, inbox, dropped>>

\* start_session is answered, or it is refused or out of time.
Started(f) ==
  /\ Resumes(f, {"start"}) /\ Returned(f)
  /\ IF flow[f].answer = "ok"
     THEN /\ active' = TRUE /\ Goes(f, After(flow[f].todo, "connected"))
          /\ UNCHANGED <<stopping, running, mpv, reconnecting, closing, crashed>>
     ELSE Raises(f)
  /\ Unlink(f) /\ UNCHANGED <<player, exited, dropped>>

\* StartAutomaticReconnect
React(f) ==
  /\ Runs(f, {"react"})
  /\ IF reconnecting > 0 \/ closing # "no"
     THEN Goes(f, Rest(f)) /\ UNCHANGED reconnecting
     ELSE /\ reconnecting' = 1 /\ current' = f
          /\ flow' = [flow EXCEPT ![f].kind = "reconnect", ![f].todo = Reconnect]
  /\ UNCHANGED <<stopping, active, running, mpv, closing, player, exited, process, crashed,
                 dropped>>

Reconnected(f) ==
  /\ Runs(f, {"reconnected"}) /\ reconnecting' = 0 /\ Goes(f, Rest(f))
  /\ UNCHANGED <<stopping, active, running, mpv, closing, player, exited, process, crashed,
                 dropped>>

Delay(f) ==
  /\ \/ Runs(f, {"delay"}) /\ Awaits(f)
     \/ /\ Resumes(f, {"delay"})
        /\ Goes(f, IF closing = "yes" THEN <<"reconnected">> ELSE Rest(f))
  /\ UNCHANGED <<window, player, exited, process, crashed, dropped>>

\* Forty looks at the session, and the next attempt
Watch(f) ==
  /\ \/ /\ Runs(f, {"watch"}) /\ ~running /\ closing = "no" /\ active
        /\ Awaits(f) /\ UNCHANGED reconnecting
     \/ /\ \/ Resumes(f, {"watch"})
           \/ Runs(f, {"watch"}) /\ (running \/ closing = "yes" \/ ~active)
        /\ IF running \/ closing = "yes" \/ reconnecting = Tries
           THEN Goes(f, Rest(f)) /\ UNCHANGED reconnecting
           ELSE Goes(f, Reconnect) /\ reconnecting' = reconnecting + 1
  /\ UNCHANGED <<stopping, active, running, mpv, closing, player, exited, process, crashed,
                 dropped>>

-----------------------------------------------------------------------------
(* The user, the events and the window's close.                              *)

\* Bound: the user acts when no more than so much is pending.
Patient == Len(commands) < MaxEvents /\ Len(inbox) <= MaxEvents

UserConnects ==
  /\ Patient /\ Begin("button", Connect)
  /\ UNCHANGED <<window, player, exited, process, crashed, dropped>>

UserDisconnects ==
  /\ Patient /\ Begin("button", Stop)
  /\ UNCHANGED <<window, player, exited, process, crashed, dropped>>

UserCloses ==
  /\ closing = "no" /\ closing' = "yes" /\ Begin("close", Close)
  /\ UNCHANGED <<stopping, active, running, mpv, reconnecting, player, exited, process,
                 crashed, dropped>>

\* What waits for an answer gets none.
Abandoned(flows) ==
  [f \in Flows |-> IF /\ flows[f].at = "await" /\ flows[f].answer = "none"
                      /\ Head(flows[f].todo) \in {"start", "stop"}
                   THEN [flows[f] EXCEPT !.answer = "failed"] ELSE flows[f]]
Forget(s) == [i \in DOMAIN s |-> [s[i] EXCEPT !.by = None]]

CloseWorker(f) ==
  \/ /\ Runs(f, {"closeWorker"})
     /\ IF worker = "none" THEN Goes(f, Rest(f)) ELSE Awaits(f)
     /\ UNCHANGED <<window, player, exited, process, crashed, dropped>>
  \/ /\ Resumes(f, {"closeWorker"})
     /\ flow' = Abandoned([flow EXCEPT ![f].todo = Rest(f), ![f].at = "run"])
     /\ current' = f /\ worker' = "none" /\ commands' = <<>> /\ session' = NoSession
     /\ inbox' = Forget(inbox)
     /\ UNCHANGED <<window, player, exited, crashed, dropped>>

Closed(f) ==
  /\ Runs(f, {"closed"}) /\ Goes(f, Rest(f)) /\ closing' = "closed"
  /\ UNCHANGED <<stopping, active, running, mpv, reconnecting, player, exited, process,
                 crashed, dropped>>

\* The next event is handled, or an answer handed to the command that waits for it.
Read(whats) == /\ Between /\ inbox # <<>> /\ Head(inbox).what \in whats
               /\ inbox' = Tail(inbox)
               /\ UNCHANGED <<worker, commands, session, player, exited, crashed, dropped>>

Answered ==
  /\ Read({"ok", "failed"})
  /\ LET m == Head(inbox)
     IN flow' = IF m.by = None THEN flow ELSE [flow EXCEPT ![m.by].answer = m.what]
  /\ UNCHANGED <<window, current>>

SessionStarts ==
  /\ Read({"starting", "running"})
  /\ running' = (Head(inbox).what = "running")
  /\ UNCHANGED <<stopping, active, mpv, reconnecting, closing, flow, current>>

\* The terminal events and the exit of the worker; after some errors of a session
\* that was believed to be there, the window reconnects.
SessionEnds ==
  /\ Read({"stopped", "error", "exit"})
  /\ \E react \in {<<>>} \cup (IF Head(inbox).what = "error" /\ (running \/ active)
                               THEN {<<"react">>} ELSE {}) :
       Begin("event", Clear \o react)
  /\ running' = FALSE
  /\ UNCHANGED <<stopping, active, mpv, reconnecting, closing>>

\* Mpv_Exited, on another thread, looks whose exit it is: what it decides is done by
\* the dispatcher later.
PlayerExited ==
  /\ exited /\ Between /\ exited' = FALSE
  /\ IF ~stopping /\ active
     THEN \E i \in 1..(Len(inbox) + 1) :
            inbox' = InsertAt(inbox, i, [what |-> "fallback", by |-> None])
     ELSE UNCHANGED inbox
  /\ UNCHANGED <<window, player, flow, current, worker, commands, session, crashed,
                 dropped>>

\* Software decoding is tried if hardware decoding was preferred and not yet given up.
Fallback ==
  /\ Read({"fallback"})
  /\ Begin("event", Connect) \/ Begin("event", Clear)
  /\ UNCHANGED window

PlayerDies(p) ==
  /\ player[p] \in {"alive", "killed"} /\ Between
  /\ player' = [player EXCEPT ![p] = "exited"] /\ exited' = (exited \/ p = mpv)
  /\ UNCHANGED <<window, flow, current, process, crashed, dropped>>

-----------------------------------------------------------------------------
(* The worker, as WorkerContract has it.                                     *)

Writes(es) ==
  /\ Between /\ worker = "up"
  /\ inbox' = inbox \o es
  /\ UNCHANGED <<window, player, flow, current, exited, worker, crashed, dropped>>

Event(name) == [what |-> name, by |-> None]

TakeStart ==
  /\ commands # <<>> /\ Head(commands).what = "start" /\ commands' = Tail(commands)
  /\ LET c == Head(commands)
         free == session.phase = "none"
     IN /\ Writes(<<[what |-> IF free THEN "ok" ELSE "failed", by |-> c.by]>>)
        /\ session' = IF free THEN [phase |-> "accepted", ending |-> FALSE,
                                    player |-> c.player] ELSE session

\* stop_session is answered when the session has ended, or with an error.
TakeStop ==
  /\ commands # <<>> /\ Head(commands).what = "stop"
  /\ LET ended == session.phase = "none"
     IN \/ /\ ~ended /\ ~session.ending /\ session' = [session EXCEPT !.ending = TRUE]
           /\ Writes(<<>>) /\ UNCHANGED commands
        \/ /\ ended \/ session.ending
           /\ Writes(<<[what |-> IF ended THEN "ok" ELSE "failed",
                        by |-> Head(commands).by]>>)
           /\ commands' = Tail(commands) /\ UNCHANGED session

Passes(from, phase, es) ==
  /\ session.phase = from /\ Len(inbox) < MaxEvents /\ Writes(es) /\ UNCHANGED commands
  /\ session' = IF phase = "none" THEN NoSession ELSE [session EXCEPT !.phase = phase]

Proceeds ==
  \/ Passes("accepted", "starting", <<Event("starting")>>)
  \/ Passes("accepted", "none", <<Event("error")>>)
  \/ Passes("starting", "running", <<Event("running")>>)
  \/ \E e \in {"stopped", "error"} : Passes("starting", "none", <<Event(e), Event("error")>>)

\* A running session ends when it is stopped, its player's pipe is closed or the phone
\* is lost, and ends with an error as well if its tunnel does.
Ends == \E e \in {"stopped", "error"} :
          /\ e = "stopped" => session.ending
          /\ \E more \in {<<>>, <<Event("error")>>} :
               Passes("running", "none", <<Event(e)>> \o more)

WorkerExits ==
  /\ Between /\ worker = "up" /\ Len(inbox) < MaxEvents
  /\ worker' = "exited" /\ commands' = <<>> /\ session' = NoSession
  /\ \E i \in 1..(Len(inbox) + 1) : inbox' = InsertAt(Forget(inbox), i, Event("exit"))
  /\ flow' = Abandoned(flow)
  /\ UNCHANGED <<window, player, current, exited, crashed, dropped>>

-----------------------------------------------------------------------------

Dispatch(f) ==
  \/ Enter(f) \/ AskWorker(f) \/ Asked(f) \/ Kill(f) \/ Disposed(f) \/ Maybe(f) \/ Ready(f)
  \/ Drop(f) \/ Ensure(f) \/ Ensured(f) \/ NewPlayer(f) \/ Start(f) \/ Started(f)
  \/ React(f) \/ Delay(f) \/ Watch(f) \/ Reconnected(f) \/ CloseWorker(f) \/ Closed(f)

Next ==
  \/ \E f \in Flows : Dispatch(f)
  \/ UserConnects \/ UserDisconnects \/ UserCloses
  \/ Answered \/ SessionStarts \/ SessionEnds \/ Fallback
  \/ PlayerExited \/ \E p \in Players : PlayerDies(p)
  \/ TakeStart \/ TakeStop \/ Proceeds \/ Ends \/ WorkerExits
  \/ Over /\ UNCHANGED vars

Spec == Init /\ [][Next]_vars

-----------------------------------------------------------------------------
(* Properties.                                                               *)

AtRest == /\ \A f \in Flows : flow[f] = Absent
          /\ inbox = <<>> /\ commands = <<>> /\ ~exited /\ ~Over

\* Whatever was in progress together, when all of it is over no player is left
\* behind, there is one only for a session that is active, and a stream with a
\* player that shows it is the active one: unless a method has overwritten another
\* one's player, or was to dispose of it and raised.
OneViewer ==
  AtRest =>
    /\ \A p \in Players : player[p] \in {"alive", "killed", "exited"} => p = mpv
    /\ mpv # None => active
    /\ session.phase = "running" /\ session.player # None =>
         active /\ mpv = session.player

\* Whoever raised and wherever, _stopping is taken back: it is never left to a method
\* that is over, and the buttons do not answer "Busy" for ever.
StopEnds == stopping => \E f \in Flows : "stopped" \in ToSet(flow[f].todo)

=============================================================================
