------------------------------ MODULE LinuxInput ------------------------------
(***************************************************************************)
(* The input bridge of the Linux viewer (src/usb_input.py).  Two tasks of  *)
(* one event loop share the phone's services: the loop that reads mpv's    *)
(* events one at a time, and at most one gesture (a scroll, the Home       *)
(* button, the Spotlight shortcut or a paste).  Releasing the input        *)
(* cancels the gesture and waits for it.                                   *)
(*                                                                         *)
(* A task is the operations it has left and those of its `finally`; it     *)
(* runs without giving way until it awaits.  A cancelled await leaves the  *)
(* rest out and goes to the `finally`.  A report whose await failed or was *)
(* cancelled may have reached the phone or not.  Positions are left out.   *)
(***************************************************************************)
EXTENDS FiniteSets, Sequences

CONSTANTS
  Mods,    \* modifier usages, 224..231
  Chords,  \* what key_usages makes of a typed key: a letter, perhaps modifiers
  Cmd,     \* 227, the modifier of the Spotlight and paste shortcuts
  HotKey   \* 44 (Space) or 25 (V), their letter

Usages == Mods \cup (UNION Chords) \cup {Cmd, HotKey}

ASSUME ChordAssumption == /\ Cmd \in Mods /\ HotKey \notin Mods
                          /\ \A c \in Chords : c \ Mods # {}
                          /\ IsFiniteSet(Usages)

VARIABLES
  focused, enabled,  \* self.focused, self.enabled
  hid,               \* self.hid: none, new (not connected) or open
  keyboard,          \* self.keyboard is set
  indigo,            \* self.indigo, the service of the Home button
  contact,           \* self.contact is set
  homeDown,          \* self.home_down
  held,              \* the values of self.held, at most one for each letter
  reported,          \* self.reported_keys
  gesture,           \* self.gesture_task: none, or what it does
  task,              \* for each task, [todo, final, at]
  closing,           \* how far close_session is with the bridge
  phone,             \* what the phone holds: [contact, keys, button]
  doubt              \* history, for each of these: the last report failed

services == <<hid, keyboard, indigo>>
record == <<contact, homeDown, held, reported>>
vars == <<focused, enabled, services, record, gesture, task, closing, phone, doubt>>

Tasks == {"loop", "gesture"}
Gestures == {"scroll", "home", "search", "paste"}
Op(name) == [op |-> name, keys |-> {}]
Keys(name, keys) == [op |-> name, keys |-> keys]

Holding == {"touch", "move", "drag", "keys", "press"}
Suppressed == {"lift", "clearKeys", "finalKeys", "unpress", "closeService",
               "dropHid", "dropIndigo", "closeHid", "closeIndigo"}
Awaited == Holding \cup Suppressed
  \cup {"untouch", "keyboard", "pasteboard", "sleep"}
Local == {"enable", "disable", "forget", "hold", "letGo", "reportHeld", "report",
          "finalReport", "check", "again"}
Starts == Gestures
Operation == [op : Awaited \cup Local \cup Starts \cup {"ensure", "indigo", "join"},
              keys : SUBSET Usages]

Absent == [todo |-> <<>>, final |-> <<>>, at |-> "run"]

TypeOK ==
  /\ focused \in BOOLEAN /\ enabled \in BOOLEAN /\ keyboard \in BOOLEAN
  /\ hid \in {"none", "new", "open"} /\ indigo \in {"none", "new", "open"}
  /\ contact \in BOOLEAN /\ homeDown \in BOOLEAN
  /\ held \in SUBSET Chords /\ reported \in SUBSET Usages
  /\ \A c, d \in held : c \ Mods = d \ Mods => c = d
  /\ gesture \in Gestures \cup {"none"}
  /\ task \in [Tasks -> [todo : Seq(Operation), final : Seq(Operation),
                         at : {"run", "ready", "await"}]]
  /\ closing \in {"no", "asked", "bridge", "done"}
  /\ phone \in [contact : BOOLEAN, keys : SUBSET Usages, button : BOOLEAN]
  /\ doubt \in [DOMAIN phone -> {"none", "hold", "release"}]

-----------------------------------------------------------------------------
(* The handlers, as lists of operations.                                     *)

\* Mutated: the gesture is left to end by itself.
ReleaseMutant == <<Op("lift"), Op("clearKeys")>>

\* release()
Release == <<Op("join"), Op("lift"), Op("clearKeys")>>

\* input_failed()
InputFailed ==
  <<Op("disable")>> \o Release \o <<Op("dropHid"), Op("dropIndigo"), Op("forget")>>

\* close()
Close == Release \o <<Op("closeHid"), Op("closeIndigo")>>

WithKeyboard == <<Op("ensure"), Op("keyboard")>>

Drags == <<Op("drag"), Op("drag"), Op("lift"), Op("again")>>

\* scroll_wheel, home_button, search_button and paste_text, without a finally
Body(g) ==
  CASE g = "scroll" -> <<Op("ensure"), Op("again")>>
    [] g = "home" -> <<Op("indigo"), Op("press"), Op("sleep")>>
    [] g = "search" ->
         WithKeyboard \o <<Keys("report", {Cmd, HotKey}), Op("sleep")>>
    [] g = "paste" ->
         <<Op("check"), Op("sleep"), Op("check"), Op("pasteboard"), Op("check"),
           Op("pasteboard"), Op("check")>> \o WithKeyboard
           \o <<Keys("report", {Cmd}), Keys("report", {Cmd, HotKey}), Op("sleep"),
                Keys("report", {Cmd}), Keys("report", {})>>

\* Mutated: the letters of a failed shortcut are left.
FinalMutant(g) ==
  CASE g = "scroll" -> <<Op("lift")>>
    [] g = "home" -> <<Op("unpress")>>
    [] OTHER -> <<Op("closeService")>>

\* their finally
Final(g) ==
  CASE g = "scroll" -> <<Op("lift")>>
    [] g = "home" -> <<Op("unpress")>>
    [] g = "search" -> <<Op("finalReport")>>
    [] g = "paste" -> <<Op("finalReport"), Op("closeService")>>

\* report_keys: letters go first, then modifiers change, then letters come.
KeyStates(name, desired) ==
  LET kept == (reported \cap desired) \ Mods
  IN <<Keys(name, kept \cup (reported \cap Mods)),
       Keys(name, kept \cup (desired \cap Mods)), Keys(name, desired)>>

Init ==
  /\ focused = FALSE /\ enabled = TRUE
  /\ hid = "none" /\ indigo = "none" /\ keyboard = FALSE
  /\ contact = FALSE /\ homeDown = FALSE /\ held = {} /\ reported = {}
  /\ gesture = "none" /\ closing = "no"
  /\ task = [t \in Tasks |-> IF t = "loop" THEN [Absent EXCEPT !.final = Close]
                                           ELSE Absent]
  /\ phone = [contact |-> FALSE, keys |-> {}, button |-> FALSE]
  /\ doubt = [x \in DOMAIN phone |-> "none"]

-----------------------------------------------------------------------------
(* mpv's events, one at a time.                                              *)

Busy(t) == /\ task[t].at = "run"
           /\ task[t].todo # <<>> \/ (t = "gesture" /\ gesture # "none")
MayRun(t) == \A u \in Tasks \ {t} : ~Busy(u)

Reading == task["loop"].todo = <<>> /\ task["loop"].final # <<>>
LoopEnded == task["loop"].todo = <<>> /\ task["loop"].final = <<>>

Active == focused /\ enabled

\* The loop has read an event that is handled by the program.
Handle(program) ==
  /\ Reading /\ MayRun("loop")
  /\ task' = [task EXCEPT !["loop"].todo = program]
  /\ UNCHANGED <<enabled, services, record, gesture, closing, phone, doubt>>

Focus == \E b \in BOOLEAN : /\ focused' = b
                            /\ Handle(IF b THEN <<>> ELSE Release)

\* The pointer leaves the window in the middle of a scroll or a touch.
MouseLeaves ==
  /\ gesture = "scroll" \/ (contact /\ gesture = "none")
  /\ Handle(Release) /\ UNCHANGED focused

MouseDrags ==
  /\ contact /\ gesture = "none" /\ Active
  /\ Handle(<<Op("move")>>) /\ UNCHANGED focused

\* Input is disabled: a fresh click reconnects and is not replayed.
Reconnects ==
  /\ focused /\ ~enabled
  /\ Handle(<<Op("ensure"), Op("enable")>>) /\ UNCHANGED focused

Touches ==
  /\ Active /\ gesture = "none"
  /\ \/ Handle(<<Op("ensure"), Op("touch")>>)
     \/ Handle(<<Op("ensure"), Op("touch"), Op("untouch")>>)
     \/ contact /\ Handle(<<Op("untouch")>>)
  /\ UNCHANGED focused

\* A click on the toolbar, which is also a release.
Toolbar ==
  /\ Active /\ gesture = "none"
  /\ \E g \in {"home", "search"} : Handle(Release \o <<Op(g)>>)
  /\ UNCHANGED focused

\* Ctrl+V
Pastes ==
  /\ Active /\ gesture = "none"
  /\ Handle(Release \o <<Op("paste")>>) /\ UNCHANGED focused

\* A chord that mpv cancels.
Cancelled == Active /\ Handle(Release) /\ UNCHANGED focused

Wheel ==
  /\ Active /\ gesture = "none" /\ ~contact
  /\ Handle(<<Op("scroll")>>) /\ UNCHANGED focused

\* Mutated: keys are mixed into a shortcut in progress.
TypableMutant == TRUE

\* Typed keys are not mixed into a shortcut in progress.
Typable == gesture \in {"none", "scroll"}

Types ==
  /\ Active /\ Typable
  /\ \E c \in Chords :
       LET down == WithKeyboard \o <<Keys("hold", c), Op("reportHeld")>>
           up == <<Keys("letGo", c), Op("reportHeld")>>
       IN Handle(down) \/ Handle(down \o up) \/ Handle(WithKeyboard \o up)
  /\ UNCHANGED focused

\* mpv has exited.
EndOfFile ==
  /\ Reading /\ MayRun("loop")
  /\ task' = [task EXCEPT !["loop"] = [todo |-> Close, final |-> <<>>, at |-> "run"]]
  /\ UNCHANGED <<focused, enabled, services, record, gesture, closing, phone, doubt>>

-----------------------------------------------------------------------------
(* Running a task.                                                           *)

Now(t) == Head(task[t].todo)
Rest(t) == Tail(task[t].todo)
Running(t, ops) == /\ MayRun(t) /\ task[t].at \in {"run", "ready"}
                   /\ task[t].todo # <<>> /\ Now(t).op \in ops

Continue(t, todo) ==
  task' = [task EXCEPT ![t].todo = todo, ![t].at = "run"]
Await(t) == task' = [task EXCEPT ![t].at = "await"]

\* ensure_hid, and the same for the Home button: set, then connected
Ensure(t) ==
  /\ Running(t, {"ensure", "indigo"})
  /\ LET service == IF Now(t).op = "ensure" THEN hid ELSE indigo
     IN IF service = "none" THEN Await(t) ELSE Continue(t, Rest(t))
  /\ hid' = IF Now(t).op = "ensure" /\ hid = "none" THEN "new" ELSE hid
  /\ indigo' = IF Now(t).op = "indigo" /\ indigo = "none" THEN "new" ELSE indigo
  /\ UNCHANGED <<focused, enabled, keyboard, record, gesture, closing, phone, doubt>>

\* Mutated: the keys are released if the bridge believes that some are held.
NeededMutant(t) ==
  LET op == Now(t).op
  IN CASE op = "untouch" -> contact
       [] op = "lift" -> contact /\ hid # "none"
       [] op \in {"keys", "finalKeys", "clearKeys"} -> Now(t).keys # reported
       [] op = "keyboard" -> ~keyboard
       [] op = "unpress" -> homeDown
       [] op \in {"dropHid", "closeHid"} -> hid # "none"
       [] op \in {"dropIndigo", "closeIndigo"} -> indigo # "none"
       [] OTHER -> TRUE

\* Whether there is anything to send, or to close.
Needed(t) ==
  LET op == Now(t).op
  IN CASE op = "untouch" -> contact
       [] op = "lift" -> contact /\ hid # "none"
       [] op \in {"keys", "finalKeys"} -> Now(t).keys # reported
       [] op = "clearKeys" -> keyboard /\ hid # "none"
       [] op = "keyboard" -> ~keyboard
       [] op = "unpress" -> homeDown
       [] op \in {"dropHid", "closeHid"} -> hid # "none"
       [] op \in {"dropIndigo", "closeIndigo"} -> indigo # "none"
       [] OTHER -> TRUE

\* The record of the contact and of the button changes before the report is sent.
Issue(t) ==
  /\ Running(t, Awaited)
  /\ IF Needed(t) THEN Await(t) ELSE Continue(t, Rest(t))
  /\ LET op == Now(t).op
     IN /\ contact' = IF op \in {"touch", "move", "drag"} THEN TRUE
                      ELSE contact /\ ~(op \in {"untouch", "lift"} /\ Needed(t))
        /\ homeDown' = (op = "press" \/ (homeDown /\ op # "unpress"))
        /\ hid' = IF op = "dropHid" THEN "none" ELSE hid
        /\ indigo' = IF op = "dropIndigo" THEN "none" ELSE indigo
  /\ UNCHANGED <<focused, enabled, keyboard, held, reported, gesture, closing, phone,
                 doubt>>

\* What is sent instead of an operation that only prepares others.
Expand(t) ==
  LET op == Now(t).op
  IN CASE op = "reportHeld" -> {KeyStates("keys", UNION held) \o Rest(t)}
       [] op = "report" -> {KeyStates("keys", Now(t).keys) \o Rest(t)}
       [] op = "finalReport" -> {(IF hid # "none" /\ keyboard
                                  THEN KeyStates("finalKeys", {}) ELSE <<>>) \o Rest(t)}
       [] op = "check" -> {IF Active THEN Rest(t) ELSE <<>>}
       [] op = "again" -> {<<>>} \cup (IF focused THEN {Drags} ELSE {})
       [] OTHER -> {Rest(t)}

\* Mutated: a release is matched by the text that the key displays.
WithoutMutant(chord) == held \ {chord}

\* Releases are matched by HID key: Shift+A may be released as "a".
Without(chord) == {h \in held : h \ Mods # chord \ Mods}

Prepare(t) ==
  /\ Running(t, Local)
  /\ \E todo \in Expand(t) : Continue(t, todo)
  /\ LET op == Now(t).op
     IN /\ enabled' = (op = "enable" \/ (enabled /\ op # "disable"))
        /\ held' = CASE op = "hold" -> Without(Now(t).keys) \cup {Now(t).keys}
                     [] op = "letGo" -> Without(Now(t).keys)
                     [] op = "forget" -> {}
                     [] OTHER -> held
        /\ reported' = IF op = "forget" THEN {} ELSE reported
        /\ keyboard' = (keyboard /\ op # "forget")
  /\ UNCHANGED <<focused, hid, indigo, contact, homeDown, gesture, closing, phone,
                 doubt>>

\* asyncio.create_task(...)
Start ==
  /\ Running("loop", Starts)
  /\ LET g == Now("loop").op
     IN /\ gesture' = g
        /\ task' = [loop |-> [task["loop"] EXCEPT !.todo = Rest("loop")],
                    gesture |-> [todo |-> Body(g), final |-> Final(g), at |-> "ready"]]
  /\ UNCHANGED <<focused, enabled, services, record, closing, phone, doubt>>

\* A cancelled task goes to its finally; one that has not begun never does.
Unwound(t) ==
  IF task[t].at = "ready" THEN Absent
  ELSE [todo |-> task[t].final, final |-> <<>>, at |-> "run"]

\* The gesture's body is over, or its finally: self.gesture_task = None.
Finally ==
  /\ MayRun("gesture") /\ Busy("gesture") /\ task["gesture"].todo = <<>>
  /\ gesture' = IF task["gesture"].final = <<>> THEN "none" ELSE gesture
  /\ task' = [task EXCEPT !["gesture"] = Unwound("gesture")]
  /\ UNCHANGED <<focused, enabled, services, record, closing, phone, doubt>>

-----------------------------------------------------------------------------
(* Awaits that end, fail or are cancelled.                                   *)

Waiting(t) == task[t].at = "await"

Reachable(t) ==
  /\ Now(t).op \in {"touch", "move", "drag", "untouch", "lift", "keyboard", "keys",
                    "finalKeys", "clearKeys"} => hid = "open"
  /\ Now(t).op \in {"press", "unpress"} => indigo = "open"

\* What the phone holds once it has received the report.
Received(t) ==
  LET op == Now(t).op
  IN CASE op \in {"touch", "move", "drag"} -> [phone EXCEPT !.contact = TRUE]
       [] op \in {"untouch", "lift"} -> [phone EXCEPT !.contact = FALSE]
       [] op \in {"keys", "finalKeys", "clearKeys"} -> [phone EXCEPT !.keys = Now(t).keys]
       [] op \in {"press", "unpress"} -> [phone EXCEPT !.button = (op = "press")]
       [] OTHER -> phone

\* What is now known of the last report of its kind.
Doubt(t, verdict) ==
  LET op == Now(t).op
      known(class) == IF verdict = "sure" THEN "none" ELSE class
  IN CASE op \in {"touch", "move", "drag"} -> [doubt EXCEPT !.contact = known("hold")]
       [] op \in {"untouch", "lift"} -> [doubt EXCEPT !.contact = known("release")]
       [] op \in {"keys", "finalKeys"} -> [doubt EXCEPT !.keys = known("hold")]
       [] op = "clearKeys" -> [doubt EXCEPT !.keys = known("release")]
       [] op = "press" -> [doubt EXCEPT !.button = known("hold")]
       [] op = "unpress" -> [doubt EXCEPT !.button = known("release")]
       [] OTHER -> doubt

\* close() forgets a service once it has tried to close it.
Forgets(t) ==
  /\ hid' = CASE Now(t).op = "closeHid" -> "none" [] OTHER -> hid
  /\ indigo' = CASE Now(t).op = "closeIndigo" -> "none" [] OTHER -> indigo
  /\ keyboard' = (keyboard /\ Now(t).op # "closeHid")

Succeeds(t) ==
  /\ MayRun(t) /\ Waiting(t) /\ Now(t).op # "join" /\ Reachable(t)
  /\ phone' = Received(t) /\ doubt' = Doubt(t, "sure")
  /\ LET op == Now(t).op
     IN /\ reported' = IF op \in {"keys", "finalKeys", "clearKeys"} THEN Now(t).keys
                                                                    ELSE reported
        /\ CASE op = "ensure" -> hid' = "open" /\ UNCHANGED <<keyboard, indigo>>
             [] op = "indigo" -> indigo' = "open" /\ UNCHANGED <<hid, keyboard>>
             [] op = "keyboard" -> keyboard' = TRUE /\ UNCHANGED <<hid, indigo>>
             [] OTHER -> Forgets(t)
  /\ Continue(t, Rest(t))
  /\ UNCHANGED <<focused, enabled, contact, homeDown, held, gesture, closing>>

\* The await of t does not come back with an answer.
NoAnswer(t) ==
  /\ phone' \in {phone} \cup (IF Reachable(t) THEN {Received(t)} ELSE {})
  /\ doubt' = Doubt(t, "unsure")

\* What is left after a suppressed failure: the rest of the list, but of a change of
\* keys that failed none, and only paste_text then has a service to close.
Remaining(t) ==
  IF Now(t).op # "finalKeys" THEN Rest(t)
  ELSE IF \E i \in DOMAIN Rest(t) : Rest(t)[i].op = "closeService"
       THEN <<Op("closeService")>> ELSE <<>>

Fails(t) ==
  /\ MayRun(t) /\ Waiting(t) /\ Now(t).op \notin {"join", "sleep"}
  /\ NoAnswer(t) /\ Forgets(t)
  /\ IF Now(t).op \in Suppressed
     THEN Continue(t, Remaining(t))
     ELSE Continue(t, IF t = "loop" THEN InputFailed ELSE <<>>)
  /\ UNCHANGED <<focused, enabled, record, gesture, closing>>

Interrupt(t) ==
  /\ task' = [task EXCEPT ![t] = Unwound(t),
                          !["loop"].at = IF t = "gesture" THEN "await" ELSE "run"]
  /\ IF Waiting(t) THEN NoAnswer(t) ELSE UNCHANGED <<phone, doubt>>

\* release() cancels the gesture and waits for it, then forgets the held keys.
Join ==
  /\ Running("loop", {"join"})
  /\ gesture' = "none"
  /\ IF gesture = "none"
     THEN /\ Continue("loop", Rest("loop")) /\ held' = {}
          /\ UNCHANGED <<phone, doubt>>
     ELSE Interrupt("gesture") /\ UNCHANGED held
  /\ UNCHANGED <<focused, enabled, services, contact, homeDown, reported, closing>>

Joined ==
  /\ MayRun("loop") /\ Waiting("loop") /\ Now("loop").op = "join"
  /\ task["gesture"] = Absent
  /\ Continue("loop", Rest("loop")) /\ held' = {}
  /\ UNCHANGED <<focused, enabled, services, contact, homeDown, reported, gesture,
                 closing, phone, doubt>>

-----------------------------------------------------------------------------
(* close_session: the input task is cancelled, awaited and closed once more. *)

\* Cancelling a task that waits for another cancels the other; release() then
\* takes the loop's own cancellation for the gesture's, and goes on.
Cancel ==
  /\ closing = "no" /\ closing' = "asked"
  /\ \A t \in Tasks : ~Busy(t)
  /\ CASE LoopEnded -> UNCHANGED <<task, phone, doubt>>
       [] Waiting("loop") /\ Now("loop").op = "join" ->
            IF task["gesture"] = Absent THEN UNCHANGED <<task, phone, doubt>>
                                        ELSE Interrupt("gesture")
       [] OTHER -> Interrupt("loop")
  /\ UNCHANGED <<focused, enabled, services, record, gesture>>

BridgeClose ==
  /\ closing = "asked" /\ LoopEnded /\ closing' = "bridge"
  /\ task' = [task EXCEPT !["loop"].todo = Close]
  /\ UNCHANGED <<focused, enabled, services, record, gesture, phone, doubt>>

\* It has closed, or it has not within four seconds.
BridgeClosed ==
  /\ closing = "bridge" /\ closing' = "done"
  /\ IF LoopEnded THEN UNCHANGED <<task, phone, doubt>>
                  ELSE Waiting("loop") /\ Interrupt("loop")
  /\ UNCHANGED <<focused, enabled, services, record, gesture>>

Over == closing = "done" /\ UNCHANGED vars

TaskStep(t) == Ensure(t) \/ Issue(t) \/ Prepare(t)
LoopStep == TaskStep("loop") \/ Start \/ Join \/ Joined
GestureStep == TaskStep("gesture") \/ Finally
Answer(t) == Succeeds(t) \/ Fails(t)

Next ==
  \/ Focus \/ MouseLeaves \/ MouseDrags \/ Reconnects \/ Touches \/ Toolbar
  \/ Pastes \/ Cancelled \/ Wheel \/ Types \/ EndOfFile
  \/ LoopStep \/ GestureStep \/ \E t \in Tasks : Answer(t)
  \/ Cancel \/ BridgeClose \/ BridgeClosed \/ Over

Spec0 == Init /\ [][Next]_vars

\* Mutated: the lift has no time limit.
BoundedMutant == (Suppressed \ {"lift"}) \cup {"sleep", "pasteboard"}

\* The awaits under wait_for or asyncio.timeout, which end by themselves.
Bounded == Suppressed \cup {"sleep", "pasteboard"}

Ends(t) == Waiting(t) /\ Now(t).op \in Bounded /\ Answer(t)

\* The tasks run when they can; a report without a limit may last for ever, and
\* mpv owes no event.
Fairness ==
  /\ WF_vars(LoopStep) /\ WF_vars(GestureStep)
  /\ \A t \in Tasks : WF_vars(Ends(t))

Spec == Spec0 /\ Fairness

\* close_session goes on with the bridge when it can.
CloseSpec == Spec /\ WF_vars(BridgeClose) /\ WF_vars(BridgeClosed)

-----------------------------------------------------------------------------
(* Properties.                                                               *)

TouchReports == {"touch", "move", "drag", "untouch", "lift"}
KeyReports == {"keys", "finalKeys", "clearKeys"}

\* The two tasks are never both in the middle of a touch report, or of a report
\* of the keys: reports of one kind cannot overtake each other.
OneReporter ==
  \A kind \in {TouchReports, KeyReports} :
    \E t \in Tasks : ~(Waiting(t) /\ Now(t).op \in kind)

\* Between two events, and without a gesture, the bridge knows what the phone
\* holds, but for the things whose last report failed; and the keys that it
\* reported are those that are held.
InSync ==
  Reading /\ gesture = "none" /\ task["gesture"] = Absent =>
    /\ doubt.contact = "none" => phone.contact = contact
    /\ doubt.keys = "none" => phone.keys = reported /\ reported = UNION held
    /\ doubt.button = "none" => ~phone.button

\* release() when the focus is lost: the phone holds nothing, in spite of failed
\* presses, time-outs and cancelled gestures, unless the release itself failed
\* or was cut short.
Released ==
  Reading /\ ~focused =>
    /\ doubt.contact # "release" => ~phone.contact
    /\ doubt.keys # "release" => phone.keys = {}
    /\ doubt.button # "release" => ~phone.button

\* paste_text and key(): nothing is pressed, by either task, while the window is
\* out of focus or the input disabled; what a cancelled gesture still sends only
\* lets go.
NoInputUnfocused ==
  [][\A t \in Tasks :
       task'[t].at = "await" /\ Head(task'[t].todo).op \in Holding
         /\ task[t].at # "await" => Active]_vars

\* A release that has begun ends, whatever the phone and the gesture do.
ReleaseEnds ==
  (~Reading /\ ~LoopEnded /\ Now("loop").op \in {"join", "lift", "clearKeys"})
    ~> (Reading \/ LoopEnded)

\* docs/development.md: shutdown releases input and then goes on to stop the
\* stream.  So close_session comes past the input task that it cancels.
CloseEnds == closing = "asked" ~> closing = "done"

=============================================================================
