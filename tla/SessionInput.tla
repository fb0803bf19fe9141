----------------------------- MODULE SessionInput -----------------------------
(***************************************************************************)
(* The input path of a Windows mirroring session (src/worker/session.py):  *)
(* touch, gestures, keys, Home and paste, the recovery from a failed       *)
(* report, and the release of what the phone still holds.                  *)
(*                                                                         *)
(* Two tasks of one event loop run this code: the command handler, which   *)
(* takes one command at a time (so input_lock is never contended), and the *)
(* session, which warms the input up and cleans it up.  A task is the list *)
(* of operations it has left; it runs them without giving way until one    *)
(* awaits the phone, and only then can the other task run.                 *)
(*                                                                         *)
(* A report that fails or times out may have reached the phone or not.     *)
(* The phone holds what the last report it received says; it is not        *)
(* assumed to let go when a channel is closed.  Positions are left out: a  *)
(* contact is there or not.                                                *)
(***************************************************************************)
EXTENDS FiniteSets, Sequences

CONSTANTS
  Mods,      \* modifier usages, 224..231
  Letters,   \* the other usages a keyboard report may hold
  Cmd,       \* 227, the modifier of the spotlight and paste shortcuts
  HotKey,    \* 44 (Space) or 25 (V), their letter
  BadUsage   \* a usage above 255 or below 0

ASSUME KeysAssumption == /\ Cmd \in Mods /\ HotKey \in Letters
                         /\ Mods \cap Letters = {} /\ IsFiniteSet(Mods \cup Letters)
ASSUME BadAssumption == BadUsage \notin Mods \cup Letters

VARIABLES
  phase,         \* how far the session is
  tunnel,        \* the tunnel of `async with get_tunnel`
  inputEnabled,  \* input_enabled
  hid,           \* self.hid: none, new (not connected) or open
  keyboard,      \* self.keyboard is set
  indigo,        \* self.indigo, the service of the Home button
  contact,       \* self.contact is set
  reported,      \* self.reported_keys
  task,          \* for each task, what it has left: [todo, at]
  command,       \* the command being handled: [name, keys, failed]
  phone,         \* what the phone holds: [contact, keys, button]
  lost,          \* history: a release has not reached a phone that held something
  fault          \* history: a report or a connection failed in an open tunnel

serviceVars == <<hid, keyboard, indigo>>
heldVars == <<contact, reported>>
historyVars == <<lost, fault>>
vars == <<phase, tunnel, inputEnabled, hid, keyboard, indigo, contact, reported,
          task, command, phone, lost, fault>>

Usages == Mods \cup Letters

Op(name) == [op |-> name, keys |-> {}]
Keys(name, keys) == [op |-> name, keys |-> keys]

\* A connection, or a report to the phone, that may fail.
Fragile == {"ensure", "reconnect", "contact", "drag", "release", "keyboard",
            "keys", "pasteboard", "indigo", "press", "unpress"}
\* The same under contextlib.suppress.
Suppressed == {"warm", "lift", "relContact", "relKeys", "closeHid", "closeIndigo"}
\* Assignments.
Local == {"enable", "report", "disable", "clear", "noKeyboard"}

Operation == [op : Fragile \cup Suppressed \cup Local, keys : SUBSET Usages]

Commands ==
  [name : {"down", "move", "up", "gesture", "spotlight", "paste", "home",
           "release_input"}, keys : {{}}]
    \cup [name : {"key_state"}, keys : SUBSET (Usages \cup {BadUsage})]

NoCommand == [name |-> "none", keys |-> {}]
Idle == [todo |-> <<>>, at |-> "run"]
Tasks == {"handler", "session"}

TypeOK ==
  /\ phase \in {"startup", "warming", "running", "cleanup", "ended"}
  /\ tunnel \in {"none", "open", "closed"}
  /\ inputEnabled \in BOOLEAN
  /\ hid \in {"none", "new", "open"} /\ indigo \in {"none", "new", "open"}
  /\ keyboard \in BOOLEAN
  /\ contact \in BOOLEAN /\ reported \in SUBSET Usages
  /\ task \in [Tasks -> [todo : Seq(Operation), at : {"run", "await", "stale"}]]
  /\ command.failed \in BOOLEAN
  /\ [name |-> command.name, keys |-> command.keys] \in Commands \cup {NoCommand}
  /\ phone \in [contact : BOOLEAN, keys : SUBSET Usages, button : BOOLEAN]
  /\ lost \in BOOLEAN /\ fault \in BOOLEAN

Init ==
  /\ phase = "startup" /\ tunnel = "none" /\ inputEnabled = TRUE
  /\ hid = "none" /\ indigo = "none" /\ keyboard = FALSE
  /\ contact = FALSE /\ reported = {}
  /\ task = [t \in Tasks |-> Idle]
  /\ command = [name |-> "none", keys |-> {}, failed |-> FALSE]
  /\ phone = [contact |-> FALSE, keys |-> {}, button |-> FALSE]
  /\ lost = FALSE /\ fault = FALSE

-----------------------------------------------------------------------------
(* What each handler does, as a list of operations.                          *)

\* Mutated: the keyboard is forgotten.
ReleaseMutant == <<Op("relContact"), Op("clear")>>

\* release_input()
Release == <<Op("relContact"), Op("relKeys"), Op("clear")>>

\* _close_input_services()
CloseServices == <<Op("closeHid"), Op("closeIndigo"), Op("noKeyboard")>>

\* _mark_input_failed()
InputFailed == <<Op("disable")>> \o Release \o CloseServices

\* scroll() and app_switcher(): a drag of several reports, ended in a finally.
Gesture == <<Op("ensure"), Op("drag"), Op("drag"), Op("lift")>>

\* Mutated: the click only reconnects.
FreshClickMutant == <<Op("reconnect"), Op("enable")>>

\* touch("down") with input disabled: _fresh_click_reconnect(), then the click.
FreshClick == <<Op("reconnect"), Op("enable"), Op("contact")>>

\* Mutated: no filter.
ValidMutant(keys) == keys

\* key_state() ignores usages that are no HID usages.
Valid(keys) == keys \cap Usages

WithKeyboard == <<Op("ensure"), Op("keyboard")>>

\* What is sent to leave the shortcut: paste lets the letter go first.
Program(c) ==
  CASE c.name = "down" -> IF inputEnabled THEN <<Op("ensure"), Op("contact")>>
                                          ELSE FreshClick
    [] c.name = "move" -> <<Op("ensure"), Op("contact")>>
    [] c.name = "up" -> <<Op("ensure"), Op("release")>>
    [] c.name = "gesture" -> Gesture
    [] c.name = "key_state" ->
         WithKeyboard \o <<Keys("report", Valid(c.keys))>>
    [] c.name = "spotlight" ->
         WithKeyboard \o <<Keys("report", {Cmd}), Keys("report", {Cmd, HotKey}),
                           Keys("report", {})>>
    [] c.name = "paste" ->
         <<Op("pasteboard")>> \o WithKeyboard
           \o <<Keys("report", {Cmd}), Keys("report", {Cmd, HotKey}),
                Keys("report", {Cmd}), Keys("report", {})>>
    [] c.name = "home" -> <<Op("indigo"), Op("press"), Op("unpress")>>
    [] c.name = "release_input" -> Release

\* With input disabled a handler returns at once, save for these.
Accepted(c) == inputEnabled \/ c.name \in {"down", "release_input"}

\* Mutated: the new state is sent at once.
KeyStatesMutant(desired) == <<Keys("keys", desired)>>

\* _report_keys: letters go first, then modifiers change, then letters come.
KeyStates(desired) ==
  LET kept == (reported \cap desired) \ Mods
  IN <<Keys("keys", kept \cup (reported \cap Mods)),
       Keys("keys", kept \cup (desired \cap Mods)),
       Keys("keys", desired)>>

\* What a handler does when one of its operations has raised.
Recovery(op) ==
  CASE op = "drag" -> <<Op("lift")>> \o InputFailed
    [] op \in {"indigo", "press", "unpress"} -> <<Op("closeIndigo")>>
    [] OTHER -> InputFailed

-----------------------------------------------------------------------------
(* Running a task.                                                           *)

Now(t) == Head(task[t].todo)
Rest(t) == Tail(task[t].todo)
Busy(t) == task[t].at = "run" /\ task[t].todo # <<>>

\* Task t may run up to its next await: the other one is not in between awaits.
MayRun(t) == \A u \in Tasks \ {t} : ~Busy(u)

Continue(t, todo) == task' = [task EXCEPT ![t] = [todo |-> todo, at |-> "run"]]
Await(t) == task' = [task EXCEPT ![t].at = "await"]

\* An operation of t raises.
Fail(t) ==
  /\ Continue(t, IF Now(t).op \in Suppressed THEN Rest(t) ELSE Recovery(Now(t).op))
  /\ command' = IF Now(t).op \in Suppressed THEN command
                                            ELSE [command EXCEPT !.failed = TRUE]

\* The operation awaits, or is left at once when there is nothing to do.
Issue(t, needed, service) ==
  IF ~needed THEN Continue(t, Rest(t)) /\ UNCHANGED command
  ELSE IF service = "none" THEN Fail(t)
  ELSE Await(t) /\ UNCHANGED command

Running(t, ops) == MayRun(t) /\ Busy(t) /\ Now(t).op \in ops

\* A service that connects: before there is a tunnel self.rsd is None, and connect()
\* raises before it awaits.
Connect(t) == IF tunnel = "none" THEN Fail(t) ELSE Await(t) /\ UNCHANGED command

\* if self.hid is None: self.hid = ...; await self.hid.connect()
EnsureHid(t) ==
  /\ Running(t, {"ensure", "reconnect", "warm"})
  /\ IF hid = "none" THEN hid' = "new" /\ Connect(t)
                     ELSE Continue(t, Rest(t)) /\ UNCHANGED <<hid, command>>
  /\ UNCHANGED <<phase, tunnel, inputEnabled, keyboard, indigo, heldVars, phone,
                 historyVars>>

EnsureIndigo(t) ==
  /\ Running(t, {"indigo"})
  /\ IF indigo = "none" THEN indigo' = "new" /\ Connect(t)
                        ELSE Continue(t, Rest(t)) /\ UNCHANGED <<indigo, command>>
  /\ UNCHANGED <<phase, tunnel, inputEnabled, hid, keyboard, heldVars, phone,
                 historyVars>>

\* self.contact is assigned before the report is sent, whatever becomes of it.
SendTouch(t) ==
  /\ Running(t, {"contact", "drag", "release", "lift", "relContact"})
  /\ LET op == Now(t).op
         needed == CASE op = "release" -> contact
                     [] op = "relContact" -> contact /\ hid # "none"
                     [] OTHER -> TRUE
     IN /\ contact' = IF needed THEN op \in {"contact", "drag"} ELSE contact
        /\ Issue(t, needed, hid)
  /\ UNCHANGED <<phase, tunnel, inputEnabled, serviceVars, reported, phone,
                 historyVars>>

\* create_keyboard_service and send_keyboard
SendKeys(t) ==
  /\ Running(t, {"keyboard", "keys", "relKeys"})
  /\ LET op == Now(t).op
         needed == CASE op = "keyboard" -> ~keyboard
                     [] op = "keys" -> Now(t).keys # reported
                     [] op = "relKeys" -> keyboard /\ hid # "none"
     IN Issue(t, needed, hid)
  /\ UNCHANGED <<phase, tunnel, inputEnabled, serviceVars, heldVars, phone,
                 historyVars>>

\* The service of the Home button, or a PasteboardService that connects.
SendOther(t) ==
  /\ Running(t, {"press", "unpress", "pasteboard"})
  /\ IF Now(t).op = "pasteboard" THEN Connect(t) ELSE Issue(t, TRUE, indigo)
  /\ UNCHANGED <<phase, tunnel, inputEnabled, serviceVars, heldVars, phone,
                 historyVars>>

\* The attribute is cleared before close() is awaited; a task that still waits
\* on the service is left with a closed one.
CloseHid(t) ==
  /\ Running(t, {"closeHid"})
  /\ hid' = "none"
  /\ task' = [u \in Tasks |->
                IF u = t THEN IF hid = "none" THEN [todo |-> Rest(t), at |-> "run"]
                                              ELSE [task[t] EXCEPT !.at = "await"]
                ELSE [task[u] EXCEPT !.at = IF @ = "await" THEN "stale" ELSE @]]
  /\ UNCHANGED <<phase, tunnel, inputEnabled, keyboard, indigo, heldVars, command,
                 phone, historyVars>>

CloseIndigo(t) ==
  /\ Running(t, {"closeIndigo"})
  /\ indigo' = "none"
  /\ Issue(t, indigo # "none", indigo)
  /\ UNCHANGED <<phase, tunnel, inputEnabled, hid, keyboard, heldVars, phone,
                 historyVars>>

Assign(t) ==
  /\ Running(t, Local)
  /\ LET op == Now(t).op
     IN /\ inputEnabled' = CASE op = "enable" -> TRUE [] op = "disable" -> FALSE
                             [] OTHER -> inputEnabled
        /\ reported' = IF op = "clear" THEN {} ELSE reported
        /\ keyboard' = IF op = "noKeyboard" THEN FALSE ELSE keyboard
        /\ Continue(t, (IF op = "report" THEN KeyStates(Now(t).keys) ELSE <<>>)
                         \o Rest(t))
  /\ UNCHANGED <<phase, tunnel, hid, indigo, contact, command, phone, historyVars>>

-----------------------------------------------------------------------------
(* The phone answers, or does not.                                           *)

Waiting(t) == task[t].at # "run"

\* Whether the operation t awaits can reach the phone.
Reachable(t) ==
  /\ tunnel = "open" /\ task[t].at = "await"
  /\ Now(t).op \in {"contact", "drag", "release", "lift", "relContact", "keyboard",
                    "keys", "relKeys"} => hid = "open"
  /\ Now(t).op \in {"press", "unpress"} => indigo = "open"

\* What the phone holds once it has received the report.
Received(t) ==
  CASE Now(t).op \in {"contact", "drag"} -> [phone EXCEPT !.contact = TRUE]
    [] Now(t).op \in {"release", "lift", "relContact"} ->
         [phone EXCEPT !.contact = FALSE]
    [] Now(t).op = "keys" -> [phone EXCEPT !.keys = Now(t).keys]
    [] Now(t).op = "relKeys" -> [phone EXCEPT !.keys = {}]
    [] Now(t).op = "press" -> [phone EXCEPT !.button = TRUE]
    [] Now(t).op = "unpress" -> [phone EXCEPT !.button = FALSE]
    [] OTHER -> phone

Succeeds(t) ==
  /\ MayRun(t) /\ Waiting(t) /\ Reachable(t)
  /\ phone' = Received(t)
  /\ LET op == Now(t).op
     IN /\ hid' = IF op \in {"ensure", "reconnect", "warm"} THEN "open" ELSE hid
        /\ indigo' = IF op = "indigo" THEN "open" ELSE indigo
        /\ keyboard' = IF op = "keyboard" THEN TRUE ELSE keyboard
        /\ reported' = IF op = "keys" THEN Now(t).keys ELSE reported
  /\ Continue(t, Rest(t))
  /\ UNCHANGED <<phase, tunnel, inputEnabled, contact, command, historyVars>>

Releases == {"release", "lift", "relContact", "relKeys"}

\* An error or a time-out; the report may have got through all the same.
Fails(t) ==
  /\ MayRun(t) /\ Waiting(t)
  /\ phone' \in {phone} \cup (IF Reachable(t) THEN {Received(t)} ELSE {})
  /\ lost' = (lost \/ (Now(t).op \in Releases /\ phone' # Received(t)))
  /\ fault' = (fault \/ Reachable(t))
  /\ Fail(t)
  /\ UNCHANGED <<phase, tunnel, inputEnabled, serviceVars, heldVars>>

-----------------------------------------------------------------------------
(* Commands and the session.                                                 *)

HandlerIdle == task["handler"] = Idle

\* Worker.handle calls a handler of the current session.
Handle(c) ==
  /\ HandlerIdle /\ MayRun("handler") /\ phase # "ended" /\ Accepted(c)
  /\ command' = [name |-> c.name, keys |-> c.keys, failed |-> FALSE]
  /\ Continue("handler", Program(c))
  /\ UNCHANGED <<phase, tunnel, inputEnabled, serviceVars, heldVars, phone,
                 historyVars>>

OpenTunnel ==
  /\ phase = "startup" /\ tunnel = "none" /\ MayRun("session")
  /\ tunnel' = "open"
  /\ UNCHANGED <<phase, inputEnabled, serviceVars, heldVars, task, command, phone,
                 historyVars>>

\* The first frame has come: warm_input().
WarmInput ==
  /\ phase = "startup" /\ tunnel = "open" /\ MayRun("session")
  /\ phase' = "warming"
  /\ Continue("session", <<Op("warm")>>)
  /\ UNCHANGED <<tunnel, inputEnabled, serviceVars, heldVars, command, phone,
                 historyVars>>

Run ==
  /\ phase = "warming" /\ task["session"] = Idle /\ MayRun("session")
  /\ phase' = "running"
  /\ UNCHANGED <<tunnel, inputEnabled, serviceVars, heldVars, task, command, phone,
                 historyVars>>

\* What cleanup() does about input.
CleanupInput == Release \o CloseServices

\* The session is stopped, or its startup raises: the tunnel's block is left,
\* then the finally runs cleanup().
LeaveTunnel ==
  /\ phase \in {"startup", "running"} /\ MayRun("session")
  /\ tunnel' = "closed" /\ phase' = "cleanup"
  /\ Continue("session", CleanupInput)
  /\ UNCHANGED <<inputEnabled, serviceVars, heldVars, command, phone, historyVars>>

End ==
  /\ phase = "cleanup" /\ task["session"] = Idle /\ MayRun("session")
  /\ phase' = "ended"
  /\ UNCHANGED <<tunnel, inputEnabled, serviceVars, heldVars, task, command, phone,
                 historyVars>>

\* No session, no command.
Over == phase = "ended" /\ HandlerIdle /\ UNCHANGED vars

TaskStep(t) ==
  \/ EnsureHid(t) \/ EnsureIndigo(t) \/ SendTouch(t) \/ SendKeys(t)
  \/ SendOther(t) \/ CloseHid(t) \/ CloseIndigo(t) \/ Assign(t)

Answer(t) == Succeeds(t) \/ Fails(t)

Next ==
  \/ \E c \in Commands : Handle(c)
  \/ \E t \in Tasks : TaskStep(t) \/ Answer(t)
  \/ OpenTunnel \/ WarmInput \/ Run \/ LeaveTunnel \/ End \/ Over

Spec0 == Init /\ [][Next]_vars

\* Mutated: the release of the keys has no time limit.
BoundedMutant(op) ==
  op \in {"warm", "reconnect", "contact", "drag", "release", "lift", "relContact",
         "closeHid", "closeIndigo", "pasteboard"}

\* The awaits under wait_for or asyncio.timeout, which end by themselves.
Bounded(op) == op \in {"warm", "reconnect", "contact", "drag", "release", "lift",
                       "relContact", "relKeys", "closeHid", "closeIndigo",
                       "pasteboard"}

\* An await without a limit ends for certain only once the tunnel is closed.
Ends(t) == Waiting(t) /\ (Bounded(Now(t).op) \/ tunnel = "closed") /\ Answer(t)

\* Both tasks run when they can; an await without a limit may last for ever.
Fairness ==
  /\ WF_vars(TaskStep("handler")) /\ WF_vars(Ends("handler"))
  /\ WF_vars(TaskStep("session"))

Spec == Spec0 /\ Fairness

-----------------------------------------------------------------------------
(* Properties.                                                               *)

\* As long as no release was lost, the worker knows what the phone holds
\* whenever it is between commands: nothing is held that it has forgotten, in
\* spite of failed connections, time-outs and recoveries.
InSync ==
  HandlerIdle /\ ~Busy("session") /\ tunnel = "open" /\ ~lost =>
    phone.contact = contact /\ phone.keys = reported

\* What a command that met no failure has made the phone hold.  For "down"
\* with input disabled this is README.md's "the next fresh click reconnects
\* the touchscreen service and is delivered after recovery".
Done(c) ==
  CASE c.name \in {"down", "move"} -> phone.contact
    [] c.name \in {"up", "gesture"} -> ~phone.contact
    [] c.name = "key_state" -> phone.keys = Valid(c.keys)
    [] c.name \in {"spotlight", "paste"} -> phone.keys = {}
    [] c.name = "home" -> ~phone.button
    [] c.name = "release_input" -> ~phone.contact /\ phone.keys = {}
    [] OTHER -> TRUE

CommandDone ==
  HandlerIdle /\ tunnel = "open" /\ ~command.failed /\ ~lost => Done(command)

\* The phone never sees a modifier and a letter change in one report, which it
\* could take for another shortcut; only a release of everything does that.
ModifiersApart ==
  [][/\ ~lost /\ phone'.keys # {}
     => \/ phone'.keys \cap Mods = phone.keys \cap Mods
        \/ phone'.keys \cap Letters = phone.keys \cap Letters]_vars

\* Once a command has come to a touch report it is answered, even when the
\* phone never answers again while the tunnel stays open: the report and all of
\* the recovery that follows are bounded, so a stale stream cannot queue input.
TouchIsBounded ==
  (~HandlerIdle /\ Now("handler").op \in {"contact", "drag", "release", "lift"})
    ~> HandlerIdle

\* README.md: input is released on disconnect and shutdown.  If nothing failed
\* while the tunnel was open, a phone is not left holding a finger or a key.
ReleasedAtEnd ==
  phase = "ended" /\ ~fault => ~phone.contact /\ phone.keys = {}

\* The comment of warm_input: a failed warm-up is not fatal, the normal path
\* connects lazily.  So a running session never sends a click on a service whose
\* connection has failed.
RetriesLazily ==
  [][/\ phase = "running" /\ ~Waiting("handler") /\ Waiting("handler")'
     /\ Now("handler").op = "contact"
     => hid = "open"]_vars

=============================================================================
