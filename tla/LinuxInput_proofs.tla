--------------------------- MODULE LinuxInput_proofs ---------------------------
(***************************************************************************)
(* Proofs about LinuxInput: its type invariant, that the two tasks do not  *)
(* report at once, that the bridge and the phone agree between two events, *)
(* that nothing is held out of focus, and that nothing is pressed then.    *)
(*                                                                         *)
(* The lists that a task can be running are described by which operation   *)
(* may follow which.  While a gesture is there the loop has only such      *)
(* operations left as it may perform beside it, and once it has joined the *)
(* gesture it is alone.  Each operation has a precondition about what the  *)
(* phone and the bridge hold.                                              *)
(***************************************************************************)
EXTENDS LinuxInput, Integers, SequenceTheorems, TLAPS

-----------------------------------------------------------------------------
(* The lists of operations.                                                  *)

\* What a task does next.
Lead(s) == IF s = <<>> THEN "stop" ELSE Head(s).op

\* The operations that can come after x in a list of the loop, of a gesture, or of
\* what a gesture that has been cancelled still does.
LoopAfter(x) ==
  CASE x = "join" -> {"lift"}
    [] x = "lift" -> {"clearKeys"}
    [] x = "clearKeys" -> {"home", "search", "paste", "closeHid", "dropHid", "stop"}
    [] x = "closeHid" -> {"closeIndigo"}
    [] x = "dropHid" -> {"dropIndigo"}
    [] x = "dropIndigo" -> {"forget"}
    [] x = "disable" -> {"join"}
    [] x = "ensure" -> {"touch", "enable", "keyboard"}
    [] x = "touch" -> {"untouch", "stop"}
    [] x = "keyboard" -> {"hold", "letGo"}
    [] x \in {"hold", "letGo"} -> {"reportHeld"}
    [] x = "reportHeld" -> {"letGo", "stop"}
    [] x = "keys" -> {"keys", "letGo", "stop"}
    [] x \in {"closeIndigo", "forget", "enable", "move", "untouch", "home", "search",
              "paste", "scroll"} -> {"stop"}
    [] OTHER -> {}

ScrollAfter(x) ==
  CASE x = "ensure" -> {"again"}
    [] x = "again" -> {"stop"}
    [] x = "drag" -> {"drag", "lift"}
    [] x = "lift" -> {"again", "stop"}
    [] OTHER -> {}

HomeAfter(x) ==
  CASE x = "indigo" -> {"press"}
    [] x = "press" -> {"sleep"}
    [] x \in {"sleep", "unpress"} -> {"stop"}
    [] OTHER -> {}

ShortcutAfter(x) ==
  CASE x = "check" -> {"sleep", "pasteboard", "ensure"}
    [] x = "pasteboard" -> {"check"}
    [] x = "ensure" -> {"keyboard"}
    [] x = "keyboard" -> {"report"}
    [] x = "report" -> {"report", "sleep", "stop"}
    [] x = "keys" -> {"keys", "report", "sleep", "stop"}
    [] x = "sleep" -> {"check", "report", "stop"}
    [] x = "finalReport" -> {"closeService", "stop"}
    [] x = "finalKeys" -> {"finalKeys", "closeService", "stop"}
    [] x = "closeService" -> {"stop"}
    [] OTHER -> {}

FinalAfter(x) ==
  CASE x = "finalReport" -> {"closeService", "stop"}
    [] x = "finalKeys" -> {"finalKeys", "closeService", "stop"}
    [] x \in {"closeService", "unpress", "lift"} -> {"stop"}
    [] OTHER -> {}

\* The lists of the loop, of each gesture, and of a finally.
Kinds == {"loop", "final"} \cup Gestures

After(k, x) ==
  CASE k = "loop" -> LoopAfter(x)
    [] k = "scroll" -> ScrollAfter(x)
    [] k = "home" -> HomeAfter(x)
    [] k \in {"search", "paste"} -> ShortcutAfter(x)
    [] k = "final" -> FinalAfter(x)

\* Each operation of s may come after the one before it, and y after s.
Chain(k, s, y) ==
  \A i \in 1..Len(s) : (IF i = Len(s) THEN y ELSE s[i + 1].op) \in After(k, s[i].op)
Linked(k, s) == Chain(k, s, "stop")

\* s begins with the reports of one change of keys, and the last of them is goal.
RunOf(s, name, goal) ==
  Lead(s) = name =>
    \E n \in 1..Len(s) : /\ \A i \in 1..n : s[i].op = name
                         /\ s[n].keys = goal
                         /\ n < Len(s) => s[n + 1].op # name

-----------------------------------------------------------------------------
(* The inductive invariant.                                                  *)

Loop == task["loop"].todo
Gesture == task["gesture"].todo
LoopFinal == task["loop"].final
GestureFinal == task["gesture"].final
LoopAt == task["loop"].at
GestureAt == task["gesture"].at

TaskType ==
  /\ task \in [Tasks -> [todo : Seq(Operation), final : Seq(Operation),
                         at : {"run", "ready", "await"}]]
  /\ \A t \in Tasks : Waiting(t) => task[t].todo # <<>>
ModeType ==
  /\ focused \in BOOLEAN /\ enabled \in BOOLEAN
  /\ gesture \in Gestures \cup {"none"} /\ closing \in {"no", "asked", "bridge", "done"}
ServiceType ==
  /\ keyboard \in BOOLEAN /\ contact \in BOOLEAN /\ homeDown \in BOOLEAN
  /\ hid \in {"none", "new", "open"} /\ indigo \in {"none", "new", "open"}
HeldType ==
  /\ held \in SUBSET Chords /\ reported \in SUBSET Usages
  /\ \A c, d \in held : c \ Mods = d \ Mods => c = d
PhoneType ==
  /\ phone \in [contact : BOOLEAN, keys : SUBSET Usages, button : BOOLEAN]
  /\ doubt \in [{"contact", "keys", "button"} -> {"none", "hold", "release"}]

Typed == TaskType /\ ModeType /\ ServiceType /\ HeldType /\ PhoneType

\* The lists of the two tasks, and how far they are.
LoopShape ==
  /\ Linked("loop", Loop) /\ LoopFinal \in {<<>>, Close} /\ LoopAt # "ready"
  /\ closing \in {"bridge", "done"} => LoopFinal = <<>>
  /\ closing = "done" => Loop = <<>>

GestureShape ==
  /\ gesture # "none" => Linked(gesture, Gesture)
  /\ GestureFinal = <<>> => Linked("final", Gesture)
  /\ GestureFinal # <<>> => gesture # "none" /\ GestureFinal = Final(gesture)
  /\ GestureAt = "ready" => gesture # "none"

\* What the loop does for the keyboard; what it does while its input is active, and
\* what of that only without a gesture; what it does in focus only.
Typing == {"keyboard", "hold", "letGo", "reportHeld", "keys"}
Pointing == {"touch", "untouch", "move"} \cup Starts
Acts == Typing \cup Pointing
Connecting == {"ensure", "enable"}
AfterJoin == {"lift", "clearKeys", "closeHid", "closeIndigo", "dropHid", "dropIndigo",
              "forget"} \cup (Starts \ {"scroll"})

Joining == LoopAt = "await" /\ Lead(Loop) = "join"
Releasing == LoopAt = "run" /\ Lead(Loop) \in {"disable", "join"}
NoGesture == gesture = "none" /\ Gesture = <<>>

\* Whatever the loop has left to do it may do beside the gesture that there is.
ActOk(x) ==
  /\ x.op \in Acts => Active /\ gesture \in {"none", "scroll"}
  /\ x.op \in Pointing => gesture = "none"
  /\ x.op \in Connecting => focused
  /\ x.op = "hold" => x.keys \in Chords
  /\ x.op = "clearKeys" => x.keys = {}

\* Out of focus, and the loop has ended or it may be interrupted once more: all of
\* the release was done before.
Settled ==
  LoopFinal = <<>> /\ ~focused /\ (closing = "asked" => Loop = <<>>)

Apart ==
  /\ \A i \in 1..Len(Loop) : ActOk(Loop[i])
  /\ Lead(Loop) = "disable" => \A i \in 1..Len(Loop) : Loop[i].op \notin Acts
  /\ Lead(Loop) \in AfterJoin => gesture = "none"
  /\ Joining => gesture = "none"
  /\ gesture = "none" => Gesture = <<>> \/ Joining \/ closing = "done"
  /\ gesture # "none" => Active \/ Releasing
  /\ Settled => NoGesture

Shape == LoopShape /\ GestureShape /\ Apart

\* The contact.
TouchKnown ==
  /\ doubt.contact = "none" => (phone.contact <=> contact)
  /\ doubt.contact = "hold" => contact

Touching(t) == Waiting(t) /\ Now(t).op \in TouchReports

\* One of ops comes only after the operation that serves it.
Armed(s, ops, server) ==
  \A i \in 1..Len(s) : s[i].op \in ops => \E j \in 1..(i - 1) : s[j].op = server

\* What needs the HID service, and what needs the keyboard.
HidUsers == {"again", "drag", "keyboard"}
KeyUsers == {"report", "keys", "finalKeys"}

HidServed == hid # "none" \/ Armed(Gesture, HidUsers, "ensure")

\* Where the loop has let go of the contact.
Lifted == (AfterJoin \ {"lift"}) \cup (IF focused THEN {} ELSE {"stop"})

TouchOk ==
  /\ contact => hid # "none"
  /\ (\A t \in Tasks : ~Touching(t)) => TouchKnown
  /\ \A t \in Tasks : Touching(t) => (contact <=> Now(t).op \in {"touch", "move", "drag"})
  /\ Lead(Loop) \in {"touch", "move"} => hid # "none"
  /\ Lead(Loop) \in Lifted \/ Settled => ~contact
  /\ HidServed

\* The keys.
Sendable == keyboard /\ hid # "none"
KeysClear == doubt.keys # "release" => phone.keys = {} /\ reported = {}
HeldReported == doubt.keys = "none" => reported = UNION held

Cleared == (AfterJoin \ {"lift", "clearKeys"}) \cup (IF focused THEN {} ELSE {"stop"})
Resting == {"stop", "touch", "untouch", "move", "enable", "scroll", "ensure"}

\* No shortcut is about to change what is reported.
NoShortcut ==
  gesture \in {"search", "paste"} =>
    GestureFinal = <<>> /\ Lead(Gesture) \in {"closeService", "stop"}

KeysOk ==
  /\ doubt.keys = "none" => phone.keys = reported
  /\ ~Sendable => KeysClear
  /\ Lead(Loop) \in {"hold", "letGo", "reportHeld", "keys"} => Sendable
  /\ Lead(Loop) = "keyboard" => hid # "none"
  /\ Sendable \/ Armed(Gesture, KeyUsers, "keyboard")
  /\ Lead(Loop) \in Cleared \/ Settled => KeysClear

HeldOk ==
  /\ LoopAt = "await" => Lead(Loop) # "reportHeld"
  /\ GestureAt = "await" => Lead(Gesture) # "finalReport"
  /\ Lead(Loop) \in AfterJoin => held = {}
  /\ gesture \in {"home", "search", "paste"} => held = {}
  /\ RunOf(Loop, "keys", UNION held)
  /\ RunOf(Gesture, "finalKeys", {})
  /\ LoopFinal # <<>> /\ Lead(Loop) \in Resting /\ NoShortcut => HeldReported

\* The Home button.
ButtonKnown == doubt.button # "release" => ~phone.button

ButtonOk ==
  /\ homeDown => \/ gesture = "home" /\ GestureFinal # <<>>
                 \/ Lead(Gesture) = "unpress" /\ GestureAt # "await"
  /\ GestureAt = "ready" => ~homeDown
  /\ GestureAt = "await" /\ Lead(Gesture) = "press" => homeDown
  /\ ~homeDown /\ ~(GestureAt = "await" /\ Lead(Gesture) = "unpress") => ButtonKnown

IInv == Typed /\ Shape /\ TouchOk /\ KeysOk /\ HeldOk /\ ButtonOk

-----------------------------------------------------------------------------
(* Facts about lists.                                                        *)

OpNames == Awaited \cup Local \cup Starts \cup {"ensure", "indigo", "join"}

(* What LinuxInput runs of a list: the head of a non-empty list, and what is *)
(* left after it.                                                            *)
LEMMA TailFacts ==
  ASSUME NEW s \in Seq(Operation), s # <<>>
  PROVE  /\ Head(s) \in Operation /\ Tail(s) \in Seq(Operation)
         /\ Len(s) \in Nat \ {0} /\ Len(Tail(s)) = Len(s) - 1
         /\ Head(s) = s[1] /\ Lead(s) = s[1].op
         /\ \A i \in 1..Len(Tail(s)) : Tail(s)[i] = s[i + 1]
  BY DEF Lead

(* The names of operations, of which "stop" is none.                         *)
LEMMA LeadFacts ==
  ASSUME NEW s \in Seq(Operation)
  PROVE  /\ s = <<>> <=> Lead(s) = "stop"
         /\ s # <<>> => Lead(s) = Head(s).op /\ Lead(s) \in OpNames
         /\ s = <<>> <=> Len(s) = 0
         /\ "stop" \notin OpNames
<1>1. "stop" \notin OpNames
  BY DEF OpNames, Awaited, Local, Starts, Gestures, Holding, Suppressed
<1>2. ASSUME s # <<>> PROVE Lead(s) = Head(s).op /\ Lead(s) \in OpNames
  <2>1. Head(s) \in Operation
    BY <1>2
  <2> QED
    BY <1>2, <2>1 DEF Lead, Operation, OpNames
<1>3. s = <<>> <=> Len(s) = 0
  BY EmptySeq
<1> QED
  BY <1>1, <1>2, <1>3 DEF Lead

(* An operation is one whatever the keys of its report.                      *)
LEMMA OperationType ==
  ASSUME NEW name \in OpNames, NEW keys \in SUBSET Usages
  PROVE  /\ Op(name) \in Operation /\ Op(name).op = name /\ Op(name).keys = {}
         /\ Keys(name, keys) \in Operation /\ Keys(name, keys).op = name
         /\ Keys(name, keys).keys = keys
  BY DEF Op, Keys, Operation, OpNames

(* The head of a linked list may be followed by the head of its rest, and    *)
(* the rest is linked.                                                       *)
LEMMA LinkedTail ==
  ASSUME NEW s \in Seq(Operation), s # <<>>, NEW k, Linked(k, s)
  PROVE  Linked(k, Tail(s)) /\ Lead(Tail(s)) \in After(k, Lead(s))
<1> DEFINE u == Tail(s)
<1>1. /\ u \in Seq(Operation) /\ Len(s) \in Nat \ {0} /\ Len(u) = Len(s) - 1
      /\ Lead(s) = s[1].op /\ \A i \in 1..Len(u) : u[i] = s[i + 1]
  BY TailFacts
<1> HIDE DEF u
<1>2. u = <<>> <=> Len(u) = 0
  BY <1>1, EmptySeq
<1>3. u # <<>> => Lead(u) = u[1].op /\ u[1] = s[2]
  BY <1>1, <1>2, TailFacts
<1>4. Linked(k, u)
  <2> SUFFICES ASSUME NEW i \in 1..Len(u)
               PROVE  (IF i = Len(u) THEN "stop" ELSE u[i + 1].op) \in After(k, u[i].op)
    BY DEF Linked, Chain
  <2>1. i + 1 \in 1..Len(s) /\ (i = Len(u) <=> i + 1 = Len(s)) /\ u[i] = s[i + 1]
    BY <1>1
  <2>2. i # Len(u) => u[i + 1] = s[(i + 1) + 1]
    BY <1>1
  <2>3. (IF i + 1 = Len(s) THEN "stop" ELSE s[(i + 1) + 1].op) \in After(k, s[i + 1].op)
    BY <2>1 DEF Linked, Chain
  <2> QED
    BY <2>1, <2>2, <2>3
<1>5. Lead(u) \in After(k, Lead(s))
  <2>1. (IF 1 = Len(s) THEN "stop" ELSE s[1 + 1].op) \in After(k, s[1].op)
    BY <1>1 DEF Linked, Chain
  <2>2. Lead(u) = IF 1 = Len(s) THEN "stop" ELSE s[1 + 1].op
    BY <1>1, <1>2, <1>3 DEF Lead
  <2> QED
    BY <1>1, <2>1, <2>2
<1> QED
  BY <1>4, <1>5 DEF u

(* The elements of two lists together, by their places.                      *)
LEMMA ConcatFacts ==
  ASSUME NEW s \in Seq(Operation), NEW u \in Seq(Operation)
  PROVE  /\ s \o u \in Seq(Operation) /\ Len(s \o u) = Len(s) + Len(u)
         /\ Len(s) \in Nat /\ Len(u) \in Nat
         /\ \A i \in 1..Len(s) : (s \o u)[i] = s[i]
         /\ \A i \in 1..Len(u) : (s \o u)[Len(s) + i] = u[i]
  OBVIOUS

(* Two lists make one if the head of the second may follow the first.        *)
LEMMA Joined2 ==
  ASSUME NEW s \in Seq(Operation), NEW u \in Seq(Operation), NEW k, s # <<>>,
         Chain(k, s, Lead(u)), Linked(k, u)
  PROVE  /\ Linked(k, s \o u) /\ s \o u \in Seq(Operation) /\ s \o u # <<>>
         /\ Lead(s \o u) = Lead(s)
<1> DEFINE v == s \o u
<1>1. /\ v \in Seq(Operation) /\ Len(v) = Len(s) + Len(u)
      /\ \A i \in 1..Len(s) : v[i] = s[i]
      /\ \A i \in 1..Len(u) : v[Len(s) + i] = u[i]
      /\ Len(s) \in Nat \ {0} /\ Len(u) \in Nat
  OBVIOUS
<1>2. u # <<>> => Lead(u) = u[1].op
  BY TailFacts
<1>3. u = <<>> <=> Len(u) = 0
  BY EmptySeq
<1>4. v # <<>>
  BY <1>1
<1>5. Lead(v) = v[1].op /\ Lead(s) = s[1].op
  BY <1>1, <1>4, TailFacts
<1> HIDE DEF v
<1>6. ASSUME NEW i \in 1..Len(v)
      PROVE  (IF i = Len(v) THEN "stop" ELSE v[i + 1].op) \in After(k, v[i].op)
  <2>1. CASE i < Len(s)
    <3>1. (IF i = Len(s) THEN Lead(u) ELSE s[i + 1].op) \in After(k, s[i].op)
      BY <1>1, <2>1 DEF Chain
    <3>2. i # Len(s) /\ i # Len(v) /\ v[i] = s[i] /\ v[i + 1] = s[i + 1]
      BY <1>1, <2>1
    <3> QED
      BY <3>1, <3>2
  <2>2. CASE i = Len(s)
    <3>1. Lead(u) = IF i = Len(v) THEN "stop" ELSE v[i + 1].op
      BY <1>1, <1>2, <1>3, <2>2 DEF Lead
    <3>2. (IF i = Len(s) THEN Lead(u) ELSE s[i + 1].op) \in After(k, s[i].op)
      BY <1>1, <2>2 DEF Chain
    <3> QED
      BY <1>1, <2>2, <3>1, <3>2
  <2>3. CASE i > Len(s)
    <3>1. PICK j : j \in 1..Len(u) /\ i = Len(s) + j
      <4>1. i - Len(s) \in 1..Len(u) /\ i = Len(s) + (i - Len(s))
        BY <1>1, <2>3
      <4> QED
        BY <4>1
    <3>2. v[Len(s) + j] = u[j]
      BY <1>1, <3>1
    <3>3. Len(s) \in Nat /\ Len(u) \in Nat /\ Len(v) = Len(s) + Len(u)
      BY <1>1
    <3>4. /\ i = Len(v) <=> j = Len(u)
          /\ j # Len(u) => j + 1 \in 1..Len(u) /\ i + 1 = Len(s) + (j + 1)
      BY <3>1, <3>3
    <3>5. j # Len(u) => v[i + 1] = u[j + 1]
      BY <1>1, <3>4
    <3>6. (IF j = Len(u) THEN "stop" ELSE u[j + 1].op) \in After(k, u[j].op)
      BY <3>1 DEF Linked, Chain
    <3> QED
      BY <3>1, <3>2, <3>4, <3>5, <3>6
  <2> QED
    BY <1>1, <2>1, <2>2, <2>3
<1>7. Linked(k, v)
  BY <1>6 DEF Linked, Chain
<1>8. Lead(v) = Lead(s)
  BY <1>1, <1>5
<1> QED
  BY <1>1, <1>4, <1>7, <1>8 DEF v

(* The elements of a rest.                                                   *)
LEMMA TailElement ==
  ASSUME NEW s \in Seq(Operation), s # <<>>, NEW i \in 1..Len(Tail(s))
  PROVE  \E j \in 1..Len(s) : Tail(s)[i] = s[j]
<1>1. i + 1 \in 1..Len(s) /\ Tail(s)[i] = s[i + 1]
  BY TailFacts
<1> QED
  BY <1>1

(* The elements of two lists together.                                       *)
LEMMA ConcatElement ==
  ASSUME NEW s \in Seq(Operation), NEW u \in Seq(Operation), NEW i \in 1..Len(s \o u)
  PROVE  \/ \E j \in 1..Len(s) : (s \o u)[i] = s[j]
         \/ \E j \in 1..Len(u) : (s \o u)[i] = u[j]
<1>1. CASE i <= Len(s)
  <2>1. i \in 1..Len(s) /\ (s \o u)[i] = s[i]
    BY <1>1
  <2> QED
    BY <2>1
<1>2. CASE i > Len(s)
  <2>1. i - Len(s) \in 1..Len(u) /\ (s \o u)[i] = u[i - Len(s)]
    BY <1>2
  <2> QED
    BY <2>1
<1> QED
  BY <1>1, <1>2

(* A change of keys goes on with its next report, or it was the last.        *)
LEMMA RunTail ==
  ASSUME NEW s \in Seq(Operation), NEW name, NEW goal, name # "stop",
         RunOf(s, name, goal), Lead(s) = name
  PROVE  /\ RunOf(Tail(s), name, goal)
         /\ Lead(Tail(s)) # name => Head(s).keys = goal
<1> DEFINE u == Tail(s)
<1>0. s # <<>>
  BY DEF Lead
<1>1. /\ u \in Seq(Operation) /\ Len(s) \in Nat \ {0} /\ Len(u) = Len(s) - 1
      /\ Head(s) = s[1] /\ \A i \in 1..Len(u) : u[i] = s[i + 1]
  BY <1>0, TailFacts
<1> HIDE DEF u
<1>2. u = <<>> <=> Len(u) = 0
  BY <1>1, EmptySeq
<1>3. u # <<>> => Lead(u) = u[1].op /\ u[1] = s[2]
  BY <1>1, <1>2, TailFacts
<1>4. u = <<>> => Lead(u) = "stop"
  BY DEF Lead
<1>5. PICK n \in 1..Len(s) : /\ \A i \in 1..n : s[i].op = name
                             /\ s[n].keys = goal
                             /\ n < Len(s) => s[n + 1].op # name
  BY DEF RunOf
<1>6. CASE n = 1
  <2>1. Lead(u) # name
    BY <1>1, <1>2, <1>3, <1>4, <1>5, <1>6
  <2> QED
    BY <1>1, <1>5, <1>6, <2>1 DEF RunOf, u
<1>7. CASE n # 1
  <2>1. n - 1 \in 1..Len(u) /\ u # <<>>
    BY <1>1, <1>2, <1>5, <1>7
  <2>2. \A i \in 1..(n - 1) : u[i].op = name
    <3> SUFFICES ASSUME NEW i \in 1..(n - 1) PROVE u[i].op = name
      OBVIOUS
    <3>1. i \in 1..Len(u) /\ i + 1 \in 1..n
      BY <1>1, <1>5, <2>1
    <3> QED
      BY <1>1, <1>5, <3>1
  <2>3. u[n - 1].keys = goal
    <3>1. u[n - 1] = s[(n - 1) + 1] /\ (n - 1) + 1 = n
      BY <1>1, <1>5, <2>1
    <3> QED
      BY <1>5, <3>1
  <2>4. ASSUME n - 1 < Len(u) PROVE u[(n - 1) + 1].op # name
    <3>1. n < Len(s) /\ n \in 1..Len(u) /\ (n - 1) + 1 = n
      BY <1>1, <1>5, <2>4
    <3>2. u[n] = s[n + 1]
      BY <1>1, <3>1
    <3> QED
      BY <1>5, <3>1, <3>2
  <2>5. Lead(u) = name
    <3>1. 1 \in 1..(n - 1)
      BY <1>5, <1>7
    <3> QED
      BY <1>3, <2>1, <2>2, <3>1
  <2>6. RunOf(u, name, goal)
    BY <2>1, <2>2, <2>3, <2>4 DEF RunOf
  <2> QED
    BY <2>5, <2>6 DEF u
<1> QED
  BY <1>6, <1>7

-----------------------------------------------------------------------------
(* The lists that the tasks are given.                                       *)

\* An operation that the loop may always perform, and a list of such.
Harmless(x) == x.op \notin Acts \cup Connecting /\ (x.op = "clearKeys" => x.keys = {})
Quiet(s) == \A i \in 1..Len(s) : Harmless(s[i])

(* Two quiet lists make one.                                                 *)
LEMMA QuietConcat ==
  ASSUME NEW s \in Seq(Operation), NEW u \in Seq(Operation), Quiet(s), Quiet(u)
  PROVE  Quiet(s \o u)
<1> SUFFICES ASSUME NEW i \in 1..Len(s \o u) PROVE Harmless((s \o u)[i])
  BY DEF Quiet
<1>1. \/ \E j \in 1..Len(s) : (s \o u)[i] = s[j]
      \/ \E j \in 1..Len(u) : (s \o u)[i] = u[j]
  BY ConcatElement
<1> QED
  BY <1>1 DEF Quiet

(* A list of one operation.                                                  *)
LEMMA OneOp ==
  ASSUME NEW x \in Operation
  PROVE  /\ <<x>> \in Seq(Operation) /\ <<x>> # <<>> /\ Len(<<x>>) = 1
         /\ <<x>>[1] = x /\ Lead(<<x>>) = x.op
         /\ \A k : "stop" \in After(k, x.op) => Linked(k, <<x>>)
         /\ \A k, y : y \in After(k, x.op) => Chain(k, <<x>>, y)
<1> DEFINE s == <<x>>
<1>1. s \in Seq(Operation) /\ s # <<>> /\ Len(s) = 1 /\ s[1] = x
  OBVIOUS
<1> HIDE DEF s
<1>2. Lead(s) = x.op
  BY <1>1, TailFacts
<1>3. ASSUME NEW k, NEW y, y \in After(k, x.op) PROVE Chain(k, s, y)
  BY <1>1, <1>3 DEF Chain
<1> QED
  BY <1>1, <1>2, <1>3 DEF s, Linked

(* A list of the loop's operations of known names.                           *)
LEMMA NamedOps ==
  \A name \in OpNames : Op(name) \in Operation /\ Op(name).op = name
  BY OperationType

(* release() joins the gesture, lifts the finger and clears the keys; a      *)
(* gesture, or the rest of a recovery or of the close, may come after it.    *)
LEMMA ReleaseList ==
  /\ Release \in Seq(Operation) /\ Release # <<>> /\ Lead(Release) = "join"
  /\ Quiet(Release)
  /\ \A y \in {"home", "search", "paste", "closeHid", "dropHid", "stop"} :
       Chain("loop", Release, y)
  /\ Linked("loop", Release)
<1>1. /\ Op("join") \in Operation /\ Op("join").op = "join"
      /\ Op("lift") \in Operation /\ Op("lift").op = "lift"
      /\ Op("clearKeys") \in Operation /\ Op("clearKeys").op = "clearKeys"
      /\ Op("clearKeys").keys = {}
  BY DEF Op, Operation, Awaited, Suppressed
<1>2. /\ Release \in Seq(Operation) /\ Release # <<>> /\ Len(Release) = 3
      /\ Release[1].op = "join" /\ Release[2].op = "lift"
      /\ Release[3].op = "clearKeys" /\ Release[3].keys = {}
  BY <1>1 DEF Release
<1>3. ASSUME NEW y \in {"home", "search", "paste", "closeHid", "dropHid", "stop"}
      PROVE  Chain("loop", Release, y)
  BY <1>2, <1>3 DEF Chain, After, LoopAfter
<1>4. Quiet(Release)
  BY <1>2 DEF Quiet, Harmless, Connecting, Acts, Typing, Pointing, Starts, Gestures
<1> QED
  BY <1>2, <1>3, <1>4, TailFacts DEF Linked

(* close() releases, then closes the services.                               *)
LEMMA CloseList ==
  /\ Close \in Seq(Operation) /\ Close # <<>> /\ Lead(Close) = "join"
  /\ Quiet(Close) /\ Linked("loop", Close)
<1> DEFINE s == <<Op("closeHid"), Op("closeIndigo")>>
<1>1. /\ Op("closeHid") \in Operation /\ Op("closeHid").op = "closeHid"
      /\ Op("closeIndigo") \in Operation /\ Op("closeIndigo").op = "closeIndigo"
  BY DEF Op, Operation, Awaited, Suppressed
<1>2. /\ s \in Seq(Operation) /\ s # <<>> /\ Len(s) = 2
      /\ s[1].op = "closeHid" /\ s[2].op = "closeIndigo"
  BY <1>1
<1>3. Close = Release \o s
  BY DEF Close
<1> HIDE DEF s
<1>4. Lead(s) = "closeHid" /\ Linked("loop", s) /\ Quiet(s)
  BY <1>2, TailFacts
     DEF Linked, Chain, After, LoopAfter, Quiet, Harmless, Connecting, Acts, Typing,
         Pointing, Starts, Gestures
<1>5. Quiet(Close)
  BY <1>2, <1>3, <1>4, ReleaseList, QuietConcat
<1> QED
  BY <1>2, <1>3, <1>4, <1>5, ReleaseList, Joined2

(* input_failed() disables the input, releases it and drops the services.    *)
LEMMA InputFailedList ==
  /\ InputFailed \in Seq(Operation) /\ InputFailed # <<>>
  /\ Lead(InputFailed) = "disable" /\ Quiet(InputFailed)
  /\ Linked("loop", InputFailed)
<1> DEFINE d == <<Op("disable")>>
           s == <<Op("dropHid"), Op("dropIndigo"), Op("forget")>>
           u == d \o Release
<1>1. /\ Op("disable") \in Operation /\ Op("disable").op = "disable"
      /\ Op("dropHid") \in Operation /\ Op("dropHid").op = "dropHid"
      /\ Op("dropIndigo") \in Operation /\ Op("dropIndigo").op = "dropIndigo"
      /\ Op("forget") \in Operation /\ Op("forget").op = "forget"
  BY DEF Op, Operation, Awaited, Suppressed, Local
<1>2. /\ s \in Seq(Operation) /\ s # <<>> /\ Len(s) = 3
      /\ s[1].op = "dropHid" /\ s[2].op = "dropIndigo" /\ s[3].op = "forget"
  BY <1>1
<1>3. /\ d \in Seq(Operation) /\ d # <<>> /\ Len(d) = 1 /\ d[1].op = "disable"
      /\ Lead(d) = "disable" /\ Chain("loop", d, "join")
  BY <1>1, OneOp DEF After, LoopAfter
<1>4. InputFailed = d \o (Release \o s)
  <2>1. InputFailed = (d \o Release) \o s
    BY DEF InputFailed
  <2> QED
    BY <1>2, <1>3, <2>1, ReleaseList, ConcatAssociative
<1> HIDE DEF s, d
<1>5. Lead(s) = "dropHid" /\ Linked("loop", s) /\ Quiet(s)
  BY <1>2, TailFacts
     DEF Linked, Chain, After, LoopAfter, Quiet, Harmless, Connecting, Acts, Typing,
         Pointing, Starts, Gestures
<1>6. /\ Release \o s \in Seq(Operation) /\ Release \o s # <<>>
      /\ Linked("loop", Release \o s) /\ Lead(Release \o s) = "join"
  BY <1>2, <1>5, ReleaseList, Joined2
<1>7. Quiet(Release \o s)
  BY <1>2, <1>5, ReleaseList, QuietConcat
<1>8. Quiet(d)
  BY <1>3 DEF Quiet, Harmless, Connecting, Acts, Typing, Pointing, Starts, Gestures
<1>9. Quiet(InputFailed)
  BY <1>3, <1>4, <1>6, <1>7, <1>8, QuietConcat
<1> QED
  BY <1>3, <1>4, <1>6, <1>9, Joined2

(* A release and then a gesture: a click on the toolbar, or a paste.         *)
LEMMA GestureList ==
  ASSUME NEW g \in Starts \ {"scroll"}
  PROVE  LET s == Release \o <<Op(g)>>
         IN /\ s \in Seq(Operation) /\ Linked("loop", s) /\ Lead(s) = "join"
            /\ \A i \in 1..Len(s) : Harmless(s[i]) \/ s[i].op = g
<1> DEFINE u == <<Op(g)>>
<1>1. Op(g) \in Operation /\ Op(g).op = g /\ g \in {"home", "search", "paste"}
  BY OperationType DEF OpNames, Starts, Gestures
<1>2. /\ u \in Seq(Operation) /\ u # <<>> /\ Len(u) = 1 /\ u[1].op = g /\ Lead(u) = g
      /\ Linked("loop", u)
  BY <1>1, OneOp DEF After, LoopAfter
<1> HIDE DEF u
<1>3. /\ Release \o u \in Seq(Operation) /\ Linked("loop", Release \o u)
      /\ Lead(Release \o u) = "join"
  BY <1>1, <1>2, ReleaseList, Joined2
<1>4. ASSUME NEW i \in 1..Len(Release \o u)
      PROVE  Harmless((Release \o u)[i]) \/ (Release \o u)[i].op = g
  <2>1. \/ \E j \in 1..Len(Release) : (Release \o u)[i] = Release[j]
        \/ \E j \in 1..Len(u) : (Release \o u)[i] = u[j]
    BY <1>2, <1>4, ReleaseList, ConcatElement
  <2>2. \A j \in 1..Len(u) : u[j].op = g
    BY <1>2
  <2> QED
    BY <1>4, <2>1, <2>2, ReleaseList DEF Quiet
<1> QED
  BY <1>3, <1>4 DEF u

(* The lists that move or touch, and that reconnect.                         *)
LEMMA TouchLists ==
  /\ \A name \in {"move", "untouch", "scroll"} :
       LET s == <<Op(name)>>
       IN /\ s \in Seq(Operation) /\ Linked("loop", s) /\ Lead(s) = name
          /\ Len(s) = 1 /\ s[1].op = name
  /\ \A name \in {"touch", "enable"} :
       LET s == <<Op("ensure"), Op(name)>>
       IN /\ s \in Seq(Operation) /\ Linked("loop", s) /\ Lead(s) = "ensure"
          /\ Len(s) = 2 /\ s[1].op = "ensure" /\ s[2].op = name
  /\ LET s == <<Op("ensure"), Op("touch"), Op("untouch")>>
     IN /\ s \in Seq(Operation) /\ Linked("loop", s) /\ Lead(s) = "ensure"
        /\ Len(s) = 3 /\ s[1].op = "ensure" /\ s[2].op = "touch" /\ s[3].op = "untouch"
<1>1. {"move", "untouch", "scroll", "touch", "enable", "ensure"} \subseteq OpNames
  BY DEF OpNames, Awaited, Holding, Local, Starts, Gestures
<1>2. ASSUME NEW name \in {"move", "untouch", "scroll"}
      PROVE  LET s == <<Op(name)>>
             IN /\ s \in Seq(Operation) /\ Linked("loop", s) /\ Lead(s) = name
                /\ Len(s) = 1 /\ s[1].op = name
  <2>1. Op(name) \in Operation /\ Op(name).op = name
    BY <1>1, OperationType
  <2>2. "stop" \in After("loop", name)
    BY DEF After, LoopAfter
  <2> QED
    BY <2>1, <2>2, OneOp
<1>3. ASSUME NEW name \in {"touch", "enable"}
      PROVE  LET s == <<Op("ensure"), Op(name)>>
             IN /\ s \in Seq(Operation) /\ Linked("loop", s) /\ Lead(s) = "ensure"
                /\ Len(s) = 2 /\ s[1].op = "ensure" /\ s[2].op = name
  <2> DEFINE s == <<Op("ensure"), Op(name)>>
  <2>1. /\ Op(name) \in Operation /\ Op(name).op = name
        /\ Op("ensure") \in Operation /\ Op("ensure").op = "ensure"
    BY <1>1, OperationType
  <2>2. /\ s \in Seq(Operation) /\ s # <<>> /\ Len(s) = 2
        /\ s[1].op = "ensure" /\ s[2].op = name
    BY <2>1
  <2> HIDE DEF s
  <2>3. Linked("loop", s) /\ Lead(s) = "ensure"
    BY <2>2, TailFacts DEF Linked, Chain, After, LoopAfter
  <2> QED
    BY <2>2, <2>3 DEF s
<1>4. LET s == <<Op("ensure"), Op("touch"), Op("untouch")>>
      IN /\ s \in Seq(Operation) /\ Linked("loop", s) /\ Lead(s) = "ensure"
         /\ Len(s) = 3 /\ s[1].op = "ensure" /\ s[2].op = "touch" /\ s[3].op = "untouch"
  <2> DEFINE s == <<Op("ensure"), Op("touch"), Op("untouch")>>
  <2>1. /\ Op("touch") \in Operation /\ Op("touch").op = "touch"
        /\ Op("ensure") \in Operation /\ Op("ensure").op = "ensure"
        /\ Op("untouch") \in Operation /\ Op("untouch").op = "untouch"
    BY <1>1, OperationType
  <2>2. /\ s \in Seq(Operation) /\ s # <<>> /\ Len(s) = 3
        /\ s[1].op = "ensure" /\ s[2].op = "touch" /\ s[3].op = "untouch"
    BY <2>1
  <2> HIDE DEF s
  <2>3. Linked("loop", s) /\ Lead(s) = "ensure"
    BY <2>2, TailFacts DEF Linked, Chain, After, LoopAfter
  <2> QED
    BY <2>2, <2>3 DEF s
<1> QED
  BY <1>2, <1>3, <1>4

\* A list that types: it points at nothing, and holds chords.
TypesOnly(s) ==
  \A i \in 1..Len(s) : /\ s[i].op \notin Pointing /\ s[i].op # "clearKeys"
                       /\ s[i].op = "hold" => s[i].keys \in Chords

(* Two lists that type make one.                                             *)
LEMMA TypesConcat ==
  ASSUME NEW s \in Seq(Operation), NEW u \in Seq(Operation), TypesOnly(s), TypesOnly(u)
  PROVE  TypesOnly(s \o u)
<1> SUFFICES ASSUME NEW i \in 1..Len(s \o u)
             PROVE  /\ (s \o u)[i].op \notin Pointing /\ (s \o u)[i].op # "clearKeys"
                    /\ (s \o u)[i].op = "hold" => (s \o u)[i].keys \in Chords
  BY DEF TypesOnly
<1>1. \/ \E j \in 1..Len(s) : (s \o u)[i] = s[j]
      \/ \E j \in 1..Len(u) : (s \o u)[i] = u[j]
  BY ConcatElement
<1> QED
  BY <1>1 DEF TypesOnly

(* The services that a typed key needs.                                      *)
LEMMA KeyboardList ==
  /\ WithKeyboard \in Seq(Operation) /\ WithKeyboard # <<>>
  /\ Lead(WithKeyboard) = "ensure" /\ TypesOnly(WithKeyboard)
  /\ \A y \in {"hold", "letGo"} : Chain("loop", WithKeyboard, y)
  /\ \A k \in {"search", "paste"} : Chain(k, WithKeyboard, "report")
<1>1. /\ Op("ensure") \in Operation /\ Op("ensure").op = "ensure"
      /\ Op("keyboard") \in Operation /\ Op("keyboard").op = "keyboard"
  BY OperationType DEF OpNames, Awaited
<1>2. /\ WithKeyboard \in Seq(Operation) /\ WithKeyboard # <<>> /\ Len(WithKeyboard) = 2
      /\ WithKeyboard[1].op = "ensure" /\ WithKeyboard[2].op = "keyboard"
  BY <1>1 DEF WithKeyboard
<1>3. ASSUME NEW y \in {"hold", "letGo"} PROVE Chain("loop", WithKeyboard, y)
  BY <1>2, <1>3 DEF Chain, After, LoopAfter
<1>4. ASSUME NEW k \in {"search", "paste"} PROVE Chain(k, WithKeyboard, "report")
  BY <1>2, <1>4 DEF Chain, After, ShortcutAfter
<1>5. TypesOnly(WithKeyboard)
  BY <1>2 DEF TypesOnly, Pointing, Starts, Gestures
<1> QED
  BY <1>2, <1>3, <1>4, <1>5, TailFacts

(* A key that goes down or comes up.                                         *)
LEMMA TypeLists ==
  ASSUME NEW c \in Chords,
         NEW s \in LET down == WithKeyboard \o <<Keys("hold", c), Op("reportHeld")>>
                       up == <<Keys("letGo", c), Op("reportHeld")>>
                   IN {down, down \o up, WithKeyboard \o up}
  PROVE  /\ s \in Seq(Operation) /\ Linked("loop", s) /\ Lead(s) = "ensure"
         /\ TypesOnly(s)
<1> DEFINE d == <<Keys("hold", c), Op("reportHeld")>>
           u == <<Keys("letGo", c), Op("reportHeld")>>
<1>0. c \in SUBSET Usages
  BY DEF Usages
<1>1. /\ Op("reportHeld") \in Operation /\ Op("reportHeld").op = "reportHeld"
      /\ Keys("hold", c) \in Operation /\ Keys("hold", c).op = "hold"
      /\ Keys("hold", c).keys = c
      /\ Keys("letGo", c) \in Operation /\ Keys("letGo", c).op = "letGo"
  BY <1>0, OperationType DEF OpNames, Local
<1>2. /\ d \in Seq(Operation) /\ d # <<>> /\ Len(d) = 2
      /\ d[1].op = "hold" /\ d[1].keys = c /\ d[2].op = "reportHeld"
  BY <1>1
<1>3. /\ u \in Seq(Operation) /\ u # <<>> /\ Len(u) = 2
      /\ u[1].op = "letGo" /\ u[2].op = "reportHeld"
  BY <1>1
<1>4. s \in {WithKeyboard \o d, (WithKeyboard \o d) \o u, WithKeyboard \o u}
  OBVIOUS
<1> HIDE DEF d, u
<1>5. /\ Lead(d) = "hold" /\ Linked("loop", d) /\ Chain("loop", d, "letGo")
      /\ TypesOnly(d)
  BY <1>2, TailFacts
     DEF Linked, Chain, After, LoopAfter, TypesOnly, Pointing, Starts, Gestures
<1>6. Lead(u) = "letGo" /\ Linked("loop", u) /\ TypesOnly(u)
  BY <1>3, TailFacts
     DEF Linked, Chain, After, LoopAfter, TypesOnly, Pointing, Starts, Gestures
<1>7. /\ d \o u \in Seq(Operation) /\ Linked("loop", d \o u) /\ d \o u # <<>>
      /\ Lead(d \o u) = "hold" /\ TypesOnly(d \o u)
  BY <1>2, <1>3, <1>5, <1>6, Joined2, TypesConcat
<1>8. (WithKeyboard \o d) \o u = WithKeyboard \o (d \o u)
  BY <1>2, <1>3, KeyboardList, ConcatAssociative
<1>9. PICK v \in {d, u, d \o u} : s = WithKeyboard \o v
  BY <1>4, <1>8
<1>10. /\ v \in Seq(Operation) /\ Linked("loop", v) /\ Lead(v) \in {"hold", "letGo"}
       /\ TypesOnly(v)
  BY <1>2, <1>3, <1>5, <1>6, <1>7
<1> HIDE DEF d, u
<1> QED
  BY <1>9, <1>10, KeyboardList, Joined2, TypesConcat

(* The body of a gesture.                                                    *)
LEMMA BodyList ==
  ASSUME NEW g \in Gestures
  PROVE  /\ Body(g) \in Seq(Operation) /\ Body(g) # <<>> /\ Linked(g, Body(g))
         /\ Lead(Body(g)) \in {"ensure", "indigo", "check"}
<1>a. {"ensure", "again", "indigo", "press", "sleep", "check", "pasteboard", "report"}
         \subseteq OpNames
  BY DEF OpNames, Awaited, Holding, Local
<1>b. /\ {Cmd, HotKey} \in SUBSET Usages /\ {Cmd} \in SUBSET Usages
      /\ {} \in SUBSET Usages
  <2>1. Cmd \in Usages /\ HotKey \in Usages
    BY DEF Usages
  <2> QED
    BY <2>1
<1>0. /\ {"ensure", "again", "indigo", "press", "sleep", "check", "pasteboard", "report"}
           \subseteq OpNames
      /\ {Cmd, HotKey} \in SUBSET Usages /\ {Cmd} \in SUBSET Usages
      /\ {} \in SUBSET Usages
  BY <1>a, <1>b
<1>1. CASE g = "scroll"
  <2> DEFINE s == <<Op("ensure"), Op("again")>>
  <2>1. /\ Op("ensure") \in Operation /\ Op("ensure").op = "ensure"
        /\ Op("again") \in Operation /\ Op("again").op = "again"
    BY <1>0, OperationType
  <2>2. /\ s \in Seq(Operation) /\ s # <<>> /\ Len(s) = 2
        /\ s[1].op = "ensure" /\ s[2].op = "again"
    BY <2>1
  <2>3. Body(g) = s
    BY <1>1 DEF Body
  <2> HIDE DEF s
  <2>4. Linked(g, s) /\ Lead(s) = "ensure"
    BY <1>1, <2>2, TailFacts DEF Linked, Chain, After, ScrollAfter
  <2> QED
    BY <2>2, <2>3, <2>4
<1>2. CASE g = "home"
  <2> DEFINE s == <<Op("indigo"), Op("press"), Op("sleep")>>
  <2>1. /\ Op("indigo") \in Operation /\ Op("indigo").op = "indigo"
        /\ Op("press") \in Operation /\ Op("press").op = "press"
        /\ Op("sleep") \in Operation /\ Op("sleep").op = "sleep"
    BY <1>0, OperationType
  <2>2. /\ s \in Seq(Operation) /\ s # <<>> /\ Len(s) = 3
        /\ s[1].op = "indigo" /\ s[2].op = "press" /\ s[3].op = "sleep"
    BY <2>1
  <2>3. Body(g) = s
    BY <1>2 DEF Body
  <2> HIDE DEF s
  <2>4. Linked(g, s) /\ Lead(s) = "indigo"
    BY <1>2, <2>2, TailFacts DEF Linked, Chain, After, HomeAfter
  <2> QED
    BY <2>2, <2>3, <2>4
<1>3. CASE g = "search"
  <2> DEFINE u == <<Keys("report", {Cmd, HotKey}), Op("sleep")>>
  <2>1. /\ Keys("report", {Cmd, HotKey}) \in Operation
        /\ Keys("report", {Cmd, HotKey}).op = "report"
        /\ Op("sleep") \in Operation /\ Op("sleep").op = "sleep"
    BY <1>0, OperationType
  <2>2. /\ u \in Seq(Operation) /\ u # <<>> /\ Len(u) = 2
        /\ u[1].op = "report" /\ u[2].op = "sleep"
    BY <2>1
  <2>3. Body(g) = WithKeyboard \o u
    BY <1>3 DEF Body
  <2> HIDE DEF u
  <2>4. Linked(g, u) /\ Lead(u) = "report"
    BY <1>3, <2>2, TailFacts DEF Linked, Chain, After, ShortcutAfter
  <2> QED
    BY <1>3, <2>2, <2>3, <2>4, KeyboardList, Joined2
<1>4. CASE g = "paste"
  <2> DEFINE s == <<Op("check"), Op("sleep"), Op("check"), Op("pasteboard"), Op("check"),
                    Op("pasteboard"), Op("check")>>
             u == <<Keys("report", {Cmd}), Keys("report", {Cmd, HotKey}), Op("sleep"),
                    Keys("report", {Cmd}), Keys("report", {})>>
  <2>1. /\ Keys("report", {Cmd, HotKey}) \in Operation
        /\ Keys("report", {Cmd, HotKey}).op = "report"
        /\ Keys("report", {Cmd}) \in Operation /\ Keys("report", {Cmd}).op = "report"
        /\ Keys("report", {}) \in Operation /\ Keys("report", {}).op = "report"
        /\ Op("sleep") \in Operation /\ Op("sleep").op = "sleep"
        /\ Op("check") \in Operation /\ Op("check").op = "check"
        /\ Op("pasteboard") \in Operation /\ Op("pasteboard").op = "pasteboard"
    BY <1>0, OperationType
  <2>2. /\ u \in Seq(Operation) /\ u # <<>> /\ Len(u) = 5
        /\ u[1].op = "report" /\ u[2].op = "report" /\ u[3].op = "sleep"
        /\ u[4].op = "report" /\ u[5].op = "report"
    BY <2>1
  <2>3. /\ s \in Seq(Operation) /\ s # <<>> /\ Len(s) = 7
        /\ s[1].op = "check" /\ s[2].op = "sleep" /\ s[3].op = "check"
        /\ s[4].op = "pasteboard" /\ s[5].op = "check" /\ s[6].op = "pasteboard"
        /\ s[7].op = "check"
    BY <2>1
  <2>4. Body(g) = (s \o WithKeyboard) \o u
    BY <1>4 DEF Body
  <2> HIDE DEF s, u
  <2>5. Linked(g, u) /\ Lead(u) = "report"
    BY <1>4, <2>2, TailFacts DEF Linked, Chain, After, ShortcutAfter
  <2>6. Chain(g, s, "ensure") /\ Lead(s) = "check"
    BY <1>4, <2>3, TailFacts DEF Linked, Chain, After, ShortcutAfter
  <2>7. /\ WithKeyboard \o u \in Seq(Operation) /\ Linked(g, WithKeyboard \o u)
        /\ Lead(WithKeyboard \o u) = "ensure"
    BY <1>4, <2>2, <2>5, KeyboardList, Joined2
  <2>8. (s \o WithKeyboard) \o u = s \o (WithKeyboard \o u)
    BY <2>2, <2>3, KeyboardList, ConcatAssociative
  <2>9. /\ s \o (WithKeyboard \o u) \in Seq(Operation)
        /\ Linked(g, s \o (WithKeyboard \o u)) /\ s \o (WithKeyboard \o u) # <<>>
        /\ Lead(s \o (WithKeyboard \o u)) = "check"
    BY <2>3, <2>6, <2>7, Joined2
  <2> QED
    BY <2>4, <2>8, <2>9
<1> QED
  BY <1>1, <1>2, <1>3, <1>4 DEF Gestures

(* The finally of a gesture.                                                 *)
LEMMA FinalList ==
  ASSUME NEW g \in Gestures
  PROVE  /\ Final(g) \in Seq(Operation) /\ Final(g) # <<>>
         /\ Linked(g, Final(g)) /\ Linked("final", Final(g))
         /\ Lead(Final(g)) = CASE g = "scroll" -> "lift" [] g = "home" -> "unpress"
                               [] OTHER -> "finalReport"
<1>0. {"lift", "unpress", "finalReport", "closeService"} \subseteq OpNames
  BY DEF OpNames, Awaited, Suppressed, Local
<1>1. CASE g = "scroll"
  <2>1. Final(g) = <<Op("lift")>>
    BY <1>1 DEF Final
  <2>2. Op("lift") \in Operation /\ Op("lift").op = "lift"
    BY <1>0, OperationType
  <2>3. "stop" \in After(g, "lift") /\ "stop" \in After("final", "lift")
    BY <1>1 DEF After, ScrollAfter, FinalAfter
  <2>4. Lead(Final(g)) = "lift" /\ Final(g) \in Seq(Operation) /\ Final(g) # <<>>
    BY <2>1, <2>2, OneOp
  <2>5. Linked(g, Final(g)) /\ Linked("final", Final(g))
    BY <2>1, <2>2, <2>3, OneOp
  <2> QED
    BY <1>1, <2>4, <2>5
<1>2. CASE g = "home"
  <2>1. Final(g) = <<Op("unpress")>>
    BY <1>2 DEF Final
  <2>2. Op("unpress") \in Operation /\ Op("unpress").op = "unpress"
    BY <1>0, OperationType
  <2>3. "stop" \in After(g, "unpress") /\ "stop" \in After("final", "unpress")
    BY <1>2 DEF After, HomeAfter, FinalAfter
  <2>4. Lead(Final(g)) = "unpress" /\ Final(g) \in Seq(Operation) /\ Final(g) # <<>>
    BY <2>1, <2>2, OneOp
  <2>5. Linked(g, Final(g)) /\ Linked("final", Final(g))
    BY <2>1, <2>2, <2>3, OneOp
  <2> QED
    BY <1>2, <2>4, <2>5
<1>3. CASE g = "search"
  <2>1. Final(g) = <<Op("finalReport")>>
    BY <1>3 DEF Final
  <2>2. Op("finalReport") \in Operation /\ Op("finalReport").op = "finalReport"
    BY <1>0, OperationType
  <2>3. "stop" \in After(g, "finalReport") /\ "stop" \in After("final", "finalReport")
    BY <1>3 DEF After, ShortcutAfter, FinalAfter
  <2>4. Lead(Final(g)) = "finalReport" /\ Final(g) \in Seq(Operation) /\ Final(g) # <<>>
    BY <2>1, <2>2, OneOp
  <2>5. Linked(g, Final(g)) /\ Linked("final", Final(g))
    BY <2>1, <2>2, <2>3, OneOp
  <2> QED
    BY <1>3, <2>4, <2>5
<1>4. CASE g = "paste"
  <2> DEFINE s == <<Op("finalReport"), Op("closeService")>>
  <2>1. /\ Op("finalReport") \in Operation /\ Op("finalReport").op = "finalReport"
        /\ Op("closeService") \in Operation /\ Op("closeService").op = "closeService"
    BY <1>0, OperationType
  <2>2. /\ s \in Seq(Operation) /\ s # <<>> /\ Len(s) = 2
        /\ s[1].op = "finalReport" /\ s[2].op = "closeService"
    BY <2>1
  <2>3. Final(g) = s
    BY <1>4 DEF Final
  <2> HIDE DEF s
  <2>4. Linked(g, s) /\ Linked("final", s) /\ Lead(s) = "finalReport"
    BY <1>4, <2>2, TailFacts DEF Linked, Chain, After, ShortcutAfter, FinalAfter
  <2> QED
    BY <1>4, <2>2, <2>3, <2>4
<1> QED
  BY <1>1, <1>2, <1>3, <1>4 DEF Gestures

(* Two more drags and a lift, of a scroll that goes on.                      *)
LEMMA DragsList ==
  /\ Drags \in Seq(Operation) /\ Drags # <<>> /\ Lead(Drags) = "drag"
  /\ Linked("scroll", Drags)
<1>1. /\ Op("drag") \in Operation /\ Op("drag").op = "drag"
      /\ Op("lift") \in Operation /\ Op("lift").op = "lift"
      /\ Op("again") \in Operation /\ Op("again").op = "again"
  BY OperationType DEF OpNames, Awaited, Holding, Suppressed, Local
<1>2. /\ Drags \in Seq(Operation) /\ Drags # <<>> /\ Len(Drags) = 4
      /\ Drags[1].op = "drag" /\ Drags[2].op = "drag" /\ Drags[3].op = "lift"
      /\ Drags[4].op = "again"
  BY <1>1 DEF Drags
<1> QED
  BY <1>2, TailFacts DEF Linked, Chain, After, ScrollAfter

(* report_keys sends three reports, of which the last is what is desired; a  *)
(* task goes on after them as it would have after report_keys.               *)
LEMMA KeyStatesList ==
  ASSUME NEW name \in {"keys", "finalKeys"}, NEW desired \in SUBSET Usages,
         reported \in SUBSET Usages, NEW u \in Seq(Operation), Lead(u) # name
  PROVE  LET s == KeyStates(name, desired) \o u
         IN /\ s \in Seq(Operation) /\ s # <<>> /\ Lead(s) = name
            /\ RunOf(s, name, desired)
            /\ \A k \in {"loop", "search", "paste", "final"} :
                 /\ name \in After(k, name) /\ Lead(u) \in After(k, name) /\ Linked(k, u)
                 => Linked(k, s)
            /\ \A i \in 1..Len(s) :
                 s[i].op = name \/ \E j \in 1..Len(u) : s[i] = u[j]
<1> DEFINE kept == (reported \cap desired) \ Mods
           k1 == kept \cup (reported \cap Mods)
           k2 == kept \cup (desired \cap Mods)
           p == <<Keys(name, k1), Keys(name, k2), Keys(name, desired)>>
           s == p \o u
<1>1. k1 \in SUBSET Usages /\ k2 \in SUBSET Usages
  OBVIOUS
<1>2. KeyStates(name, desired) = p
  BY DEF KeyStates
<1> HIDE DEF k1, k2
<1>3. /\ Keys(name, k1) \in Operation /\ Keys(name, k1).op = name
      /\ Keys(name, k2) \in Operation /\ Keys(name, k2).op = name
      /\ Keys(name, desired) \in Operation /\ Keys(name, desired).op = name
      /\ Keys(name, desired).keys = desired
  BY <1>1, OperationType DEF OpNames, Awaited, Holding, Suppressed
<1>4. /\ p \in Seq(Operation) /\ p # <<>> /\ Len(p) = 3
      /\ p[1].op = name /\ p[2].op = name /\ p[3].op = name /\ p[3].keys = desired
  BY <1>3
<1> HIDE DEF p
<1>5. Lead(p) = name
  BY <1>4, TailFacts
<1>6. ASSUME NEW k, name \in After(k, name), Lead(u) \in After(k, name), Linked(k, u)
      PROVE  Linked(k, s)
  <2>1. Chain(k, p, Lead(u))
    BY <1>4, <1>6 DEF Chain
  <2> QED
    BY <1>4, <1>6, <2>1, Joined2
<1>7. /\ s \in Seq(Operation) /\ Len(s) = 3 + Len(u) /\ Len(u) \in Nat
      /\ s[1] = p[1] /\ s[2] = p[2] /\ s[3] = p[3]
      /\ Len(u) # 0 => s[4] = u[1]
  <2>1. /\ s \in Seq(Operation) /\ Len(s) = Len(p) + Len(u) /\ Len(u) \in Nat
        /\ \A i \in 1..Len(p) : s[i] = p[i]
        /\ \A i \in 1..Len(u) : s[Len(p) + i] = u[i]
    BY <1>4, ConcatFacts
  <2>2. Len(u) # 0 => s[3 + 1] = u[1]
    BY <1>4, <2>1
  <2>3. 3 + 1 = 4
    OBVIOUS
  <2> QED
    BY <1>4, <2>1, <2>2, <2>3
<1>8. ASSUME NEW i \in 1..Len(s)
      PROVE  s[i].op = name \/ \E j \in 1..Len(u) : s[i] = u[j]
  <2>1. \/ \E j \in 1..Len(p) : s[i] = p[j]
        \/ \E j \in 1..Len(u) : s[i] = u[j]
    BY <1>4, <1>8, ConcatElement
  <2> QED
    BY <1>4, <2>1
<1> HIDE DEF s
<1>9. s # <<>>
  BY <1>7
<1>10. Lead(s) = name
  BY <1>4, <1>7, <1>9, TailFacts
<1>11. ASSUME 3 < Len(s) PROVE s[4].op # name
  <2>1. Len(u) # 0
    BY <1>7, <1>11
  <2>2. s[4] = u[1] /\ u # <<>>
    BY <1>7, <2>1, EmptySeq
  <2> QED
    BY <2>2, TailFacts
<1>12. RunOf(s, name, desired)
  <2>1. /\ 3 \in 1..Len(s) /\ \A i \in 1..3 : s[i].op = name
        /\ s[3].keys = desired /\ (3 < Len(s) => s[3 + 1].op # name)
    BY <1>4, <1>7, <1>11
  <2> QED
    BY <2>1 DEF RunOf
<1> QED
  BY <1>2, <1>6, <1>7, <1>8, <1>9, <1>10, <1>12 DEF s


-----------------------------------------------------------------------------
(* Operations that come only after the one that serves them.                 *)

(* The rest of a list is armed unless it is the server that has gone.        *)
LEMMA ArmedTail ==
  ASSUME NEW s \in Seq(Operation), s # <<>>, NEW ops, NEW server, Armed(s, ops, server)
  PROVE  /\ Lead(s) \notin ops
         /\ Lead(s) # server => Armed(Tail(s), ops, server)
<1> DEFINE u == Tail(s)
<1>1. /\ Len(s) \in Nat \ {0} /\ Len(u) = Len(s) - 1 /\ Lead(s) = s[1].op
      /\ \A i \in 1..Len(u) : u[i] = s[i + 1]
  BY TailFacts
<1> HIDE DEF u
<1>2. Lead(s) \notin ops
  <2>1. 1 \in 1..Len(s) /\ 1..(1 - 1) = {}
    BY <1>1
  <2> QED
    BY <1>1, <2>1 DEF Armed
<1>3. ASSUME Lead(s) # server, NEW i \in 1..Len(u), u[i].op \in ops
      PROVE  \E j \in 1..(i - 1) : u[j].op = server
  <2>1. i + 1 \in 1..Len(s) /\ s[i + 1].op \in ops
    BY <1>1, <1>3
  <2>2. PICK j \in 1..((i + 1) - 1) : s[j].op = server
    BY <2>1 DEF Armed
  <2>3. j # 1
    BY <1>1, <1>3, <2>2
  <2>4. j - 1 \in 1..(i - 1) /\ j - 1 \in 1..Len(u) /\ (j - 1) + 1 = j
    BY <1>1, <1>3, <2>2, <2>3
  <2>5. u[j - 1] = s[j]
    BY <1>1, <2>4
  <2> QED
    BY <2>2, <2>4, <2>5
<1> QED
  BY <1>2, <1>3 DEF Armed, u

(* What comes first may serve what comes later.                              *)
LEMMA ArmedConcat ==
  ASSUME NEW s \in Seq(Operation), NEW u \in Seq(Operation), NEW ops, NEW server,
         Armed(s, ops, server),
         Armed(u, ops, server) \/ \E j \in 1..Len(s) : s[j].op = server
  PROVE  Armed(s \o u, ops, server)
<1> DEFINE v == s \o u
<1>1. /\ Len(v) = Len(s) + Len(u) /\ Len(s) \in Nat /\ Len(u) \in Nat
      /\ \A i \in 1..Len(s) : v[i] = s[i]
      /\ \A i \in 1..Len(u) : v[Len(s) + i] = u[i]
  BY ConcatFacts
<1> HIDE DEF v
<1> SUFFICES ASSUME NEW i \in 1..Len(v), v[i].op \in ops
             PROVE  \E j \in 1..(i - 1) : v[j].op = server
  BY DEF Armed, v
<1>2. CASE i <= Len(s)
  <2>1. i \in 1..Len(s) /\ s[i].op \in ops
    BY <1>1, <1>2
  <2>2. PICK j \in 1..(i - 1) : s[j].op = server
    BY <2>1 DEF Armed
  <2>3. j \in 1..Len(s)
    BY <1>1, <2>1, <2>2
  <2> QED
    BY <1>1, <2>2, <2>3
<1>3. CASE i > Len(s)
  <2>1. PICK k \in 1..Len(u) : i = Len(s) + k
    <3>1. i - Len(s) \in 1..Len(u) /\ i = Len(s) + (i - Len(s))
      BY <1>1, <1>3
    <3> QED
      BY <3>1
  <2>2. CASE \E j \in 1..Len(s) : s[j].op = server
    <3>1. PICK j \in 1..Len(s) : s[j].op = server
      BY <2>2
    <3>2. j \in 1..(i - 1)
      BY <1>1, <1>3, <3>1
    <3> QED
      BY <1>1, <3>1, <3>2
  <2>3. CASE Armed(u, ops, server)
    <3>1. v[Len(s) + k] = u[k]
      BY <1>1, <2>1
    <3>2. PICK j \in 1..(k - 1) : u[j].op = server
      BY <2>1, <2>3, <3>1 DEF Armed
    <3>3. j \in 1..Len(u) /\ Len(s) + j \in 1..(i - 1)
      BY <1>1, <2>1, <3>2
    <3>4. v[Len(s) + j] = u[j]
      BY <1>1, <3>3
    <3> QED
      BY <3>2, <3>3, <3>4
  <2> QED
    BY <2>2, <2>3
<1> QED
  BY <1>1, <1>2, <1>3


(* The gestures begin with the services that they use.                       *)
LEMMA BodyArmed ==
  ASSUME NEW g \in Gestures
  PROVE  /\ Armed(Body(g), HidUsers, "ensure") /\ Armed(Body(g), KeyUsers, "keyboard")
         /\ Armed(Final(g), HidUsers, "ensure") /\ Armed(Final(g), KeyUsers, "keyboard")
<1>1. CASE g = "scroll"
  <2> DEFINE s == Body(g)
             f == Final(g)
  <2>1. Len(s) = 2 /\ s[1].op = "ensure" /\ s[2].op = "again"
    BY <1>1 DEF Body, Op
  <2>2. Len(f) = 1 /\ f[1].op = "lift"
    BY <1>1 DEF Final, Op
  <2> HIDE DEF s, f
  <2>3. 1 \in 1..(2 - 1)
    OBVIOUS
  <2> QED
    BY <2>1, <2>2, <2>3 DEF Armed, HidUsers, KeyUsers, s, f
<1>2. CASE g = "home"
  <2> DEFINE s == Body(g)
             f == Final(g)
  <2>1. Len(s) = 3 /\ s[1].op = "indigo" /\ s[2].op = "press" /\ s[3].op = "sleep"
    BY <1>2 DEF Body, Op
  <2>2. Len(f) = 1 /\ f[1].op = "unpress"
    BY <1>2 DEF Final, Op
  <2> HIDE DEF s, f
  <2> QED
    BY <2>1, <2>2 DEF Armed, HidUsers, KeyUsers, s, f
<1>3. CASE g \in {"search", "paste"}
  <2>1. /\ Armed(Final(g), HidUsers, "ensure") /\ Armed(Final(g), KeyUsers, "keyboard")
    <3> DEFINE f == Final(g)
    <3>1. \A i \in 1..Len(f) : f[i].op \in {"finalReport", "closeService"}
      BY <1>3 DEF Final, Op
    <3> HIDE DEF f
    <3> QED
      BY <3>1 DEF Armed, HidUsers, KeyUsers, f
  <2>2. PICK p \in Seq(Operation), u \in Seq(Operation) :
          /\ Body(g) = p \o (WithKeyboard \o u)
          /\ \A i \in 1..Len(p) : p[i].op \in {"check", "sleep", "pasteboard"}
          /\ \A i \in 1..Len(u) : u[i].op \in {"report", "sleep"}
    <3>a. {"sleep", "check", "pasteboard", "report"} \subseteq OpNames
      BY DEF OpNames, Awaited, Local
    <3>b. /\ {Cmd, HotKey} \in SUBSET Usages /\ {Cmd} \in SUBSET Usages
          /\ {} \in SUBSET Usages
      <4>1. Cmd \in Usages /\ HotKey \in Usages
        BY DEF Usages
      <4> QED
        BY <4>1
    <3>1. CASE g = "search"
      <4> DEFINE u == <<Keys("report", {Cmd, HotKey}), Op("sleep")>>
                 p == <<>>
      <4>1. /\ Keys("report", {Cmd, HotKey}) \in Operation
            /\ Keys("report", {Cmd, HotKey}).op = "report"
            /\ Op("sleep") \in Operation /\ Op("sleep").op = "sleep"
        BY <3>a, <3>b, OperationType
      <4>2. u \in Seq(Operation) /\ \A i \in 1..Len(u) : u[i].op \in {"report", "sleep"}
        BY <4>1
      <4>3. Body(g) = WithKeyboard \o u
        BY <3>1 DEF Body
      <4> HIDE DEF u
      <4>4. Body(g) = p \o (WithKeyboard \o u)
        BY <4>2, <4>3, KeyboardList
      <4>5. /\ p \in Seq(Operation)
            /\ \A i \in 1..Len(p) : p[i].op \in {"check", "sleep", "pasteboard"}
        OBVIOUS
      <4> HIDE DEF p
      <4> QED
        BY <4>2, <4>4, <4>5
    <3>2. CASE g = "paste"
      <4> DEFINE p == <<Op("check"), Op("sleep"), Op("check"), Op("pasteboard"), Op("check"),
                        Op("pasteboard"), Op("check")>>
                 u == <<Keys("report", {Cmd}), Keys("report", {Cmd, HotKey}), Op("sleep"),
                        Keys("report", {Cmd}), Keys("report", {})>>
      <4>1. /\ Keys("report", {Cmd, HotKey}) \in Operation
            /\ Keys("report", {Cmd, HotKey}).op = "report"
            /\ Keys("report", {Cmd}) \in Operation /\ Keys("report", {Cmd}).op = "report"
            /\ Keys("report", {}) \in Operation /\ Keys("report", {}).op = "report"
            /\ Op("sleep") \in Operation /\ Op("sleep").op = "sleep"
            /\ Op("check") \in Operation /\ Op("check").op = "check"
            /\ Op("pasteboard") \in Operation /\ Op("pasteboard").op = "pasteboard"
        BY <3>a, <3>b, OperationType
      <4>2. u \in Seq(Operation) /\ \A i \in 1..Len(u) : u[i].op \in {"report", "sleep"}
        BY <4>1
      <4>3. /\ p \in Seq(Operation)
            /\ \A i \in 1..Len(p) : p[i].op \in {"check", "sleep", "pasteboard"}
        BY <4>1
      <4>4. Body(g) = (p \o WithKeyboard) \o u
        BY <3>2 DEF Body
      <4> HIDE DEF p, u
      <4>5. (p \o WithKeyboard) \o u = p \o (WithKeyboard \o u)
        BY <4>2, <4>3, KeyboardList, ConcatAssociative
      <4> QED
        BY <4>2, <4>3, <4>4, <4>5
    <3> QED
      BY <1>3, <3>1, <3>2
  <2>3. /\ WithKeyboard \in Seq(Operation) /\ Len(WithKeyboard) = 2
        /\ WithKeyboard[1].op = "ensure" /\ WithKeyboard[2].op = "keyboard"
    BY KeyboardList DEF WithKeyboard, Op
  <2>4. /\ Armed(WithKeyboard, HidUsers, "ensure")
        /\ Armed(WithKeyboard, KeyUsers, "keyboard")
    <3>1. 1 \in 1..(2 - 1)
      OBVIOUS
    <3> QED
      BY <2>3, <3>1 DEF Armed, HidUsers, KeyUsers
  <2>5. /\ WithKeyboard \o u \in Seq(Operation)
        /\ Armed(WithKeyboard \o u, HidUsers, "ensure")
        /\ Armed(WithKeyboard \o u, KeyUsers, "keyboard")
    <3>1. 1 \in 1..Len(WithKeyboard) /\ 2 \in 1..Len(WithKeyboard)
      BY <2>3
    <3> QED
      BY <2>2, <2>3, <2>4, <3>1, ArmedConcat, ConcatFacts
  <2>6. Armed(p, HidUsers, "ensure") /\ Armed(p, KeyUsers, "keyboard")
    BY <2>2 DEF Armed, HidUsers, KeyUsers
  <2> QED
    BY <2>1, <2>2, <2>5, <2>6, ArmedConcat
<1> QED
  BY <1>1, <1>2, <1>3 DEF Gestures
-----------------------------------------------------------------------------
(* What each action does to the two lists.                                   *)

\* The loop, or the gesture, has the list s left and is at `at`.
LoopMoves(s, at) ==
  Loop' = s /\ LoopAt' = at /\ UNCHANGED <<LoopFinal, Gesture, GestureAt, GestureFinal>>
GestureMoves(s, at) ==
  Gesture' = s /\ GestureAt' = at /\ UNCHANGED <<GestureFinal, Loop, LoopAt, LoopFinal>>
Moved(t, s, at) == /\ t = "loop" => LoopMoves(s, at)
                   /\ t = "gesture" => GestureMoves(s, at)

Still == UNCHANGED <<Loop, LoopAt, LoopFinal, Gesture, GestureAt, GestureFinal>>

(* A task that is at an operation.                                           *)
LEMMA NowType ==
  ASSUME TaskType, NEW t \in Tasks, task[t].todo # <<>>
  PROVE  /\ task[t].todo \in Seq(Operation)
         /\ Now(t) \in Operation /\ Rest(t) \in Seq(Operation)
         /\ Now(t).op \in OpNames /\ Now(t).keys \in SUBSET Usages
         /\ Lead(task[t].todo) = Now(t).op
<1>1. task[t].todo \in Seq(Operation)
  BY DEF TaskType
<1>2. Now(t) \in Operation /\ Rest(t) \in Seq(Operation)
  BY <1>1, TailFacts DEF Now, Rest
<1>3. Now(t).op \in OpNames /\ Now(t).keys \in SUBSET Usages
  BY <1>2 DEF Operation, OpNames
<1> QED
  BY <1>1, <1>2, <1>3 DEF Lead, Now

(* The parts of the tasks.                                                   *)
LEMMA Parts ==
  ASSUME TaskType
  PROVE  /\ Loop \in Seq(Operation) /\ Gesture \in Seq(Operation)
         /\ LoopFinal \in Seq(Operation) /\ GestureFinal \in Seq(Operation)
         /\ LoopAt \in {"run", "ready", "await"}
         /\ GestureAt \in {"run", "ready", "await"}
         /\ LoopAt = "await" => Loop # <<>>
         /\ GestureAt = "await" => Gesture # <<>>
         /\ Waiting("loop") <=> LoopAt = "await"
         /\ Waiting("gesture") <=> GestureAt = "await"
  BY DEF TaskType, Tasks, Waiting, Loop, Gesture, LoopFinal, GestureFinal, LoopAt, GestureAt

(* A task goes on with another list.                                         *)
LEMMA ContinueIs ==
  ASSUME TaskType, NEW t \in Tasks, NEW s \in Seq(Operation), Continue(t, s)
  PROVE  TaskType' /\ Moved(t, s, "run")
<1>1. /\ task' \in [Tasks -> [todo : Seq(Operation), final : Seq(Operation),
                              at : {"run", "ready", "await"}]]
      /\ task'[t].todo = s /\ task'[t].at = "run" /\ task'[t].final = task[t].final
      /\ \A u \in Tasks \ {t} : task'[u] = task[u]
  BY DEF Continue, TaskType
<1>2. TaskType'
  BY <1>1 DEF TaskType, Waiting
<1>3. Moved(t, s, "run")
  BY <1>1
     DEF Moved, LoopMoves, GestureMoves, Tasks, Loop, LoopAt, LoopFinal, Gesture, GestureAt,
         GestureFinal
<1> QED
  BY <1>2, <1>3

(* A task awaits its first operation.                                        *)
LEMMA AwaitIs ==
  ASSUME TaskType, NEW t \in Tasks, task[t].todo # <<>>, Await(t)
  PROVE  TaskType' /\ Moved(t, task[t].todo, "await")
<1>1. /\ task' \in [Tasks -> [todo : Seq(Operation), final : Seq(Operation),
                              at : {"run", "ready", "await"}]]
      /\ task'[t].todo = task[t].todo /\ task'[t].at = "await"
      /\ task'[t].final = task[t].final
      /\ \A u \in Tasks \ {t} : task'[u] = task[u]
  BY DEF Await, TaskType
<1>2. TaskType'
  BY <1>1 DEF TaskType, Waiting
<1>3. Moved(t, task[t].todo, "await")
  BY <1>1
     DEF Moved, LoopMoves, GestureMoves, Tasks, Loop, LoopAt, LoopFinal, Gesture, GestureAt,
         GestureFinal
<1> QED
  BY <1>2, <1>3

(* The tasks stay as they are.                                               *)
LEMMA StillIs ==
  ASSUME TaskType, UNCHANGED task
  PROVE  TaskType' /\ Still
  BY DEF TaskType, Waiting, Still, Loop, LoopAt, LoopFinal, Gesture, GestureAt,
         GestureFinal

(* The loop reads an event.                                                  *)
LEMMA HandleDoes ==
  ASSUME TaskType, LoopAt # "ready", NEW s \in Seq(Operation), Handle(s)
  PROVE  /\ TaskType' /\ Moved("loop", s, "run")
         /\ Loop = <<>> /\ LoopFinal # <<>> /\ LoopAt = "run"
         /\ UNCHANGED <<enabled, hid, keyboard, indigo, contact, homeDown, held, reported,
                        gesture, closing, phone, doubt>>
<1>1. /\ Loop = <<>> /\ LoopFinal # <<>> /\ LoopAt = "run"
      /\ task' = [task EXCEPT !["loop"].todo = s]
      /\ UNCHANGED <<enabled, hid, keyboard, indigo, contact, homeDown, held, reported,
                     gesture, closing, phone, doubt>>
  BY Parts DEF Handle, Reading, services, record, Loop, LoopFinal
<1>2. /\ task' \in [Tasks -> [todo : Seq(Operation), final : Seq(Operation),
                              at : {"run", "ready", "await"}]]
      /\ task'["loop"].todo = s /\ task'["loop"].at = "run"
      /\ task'["loop"].final = task["loop"].final
      /\ task'["gesture"] = task["gesture"]
  BY <1>1 DEF TaskType, Tasks, LoopAt
<1>3. TaskType'
  BY <1>2 DEF TaskType, Waiting, Tasks
<1>4. Moved("loop", s, "run")
  BY <1>2
     DEF Moved, LoopMoves, GestureMoves, Loop, LoopAt, LoopFinal, Gesture, GestureAt,
         GestureFinal
<1> QED
  BY <1>1, <1>3, <1>4

(* A task that runs is at an operation, and does not await.                  *)
LEMMA RunningIs ==
  ASSUME TaskType, NEW t \in Tasks, NEW ops, Running(t, ops)
  PROVE  /\ task[t].todo # <<>> /\ ~Waiting(t) /\ Now(t).op \in ops
         /\ task[t].at \in {"run", "ready"}
         /\ MayRun(t)
  BY DEF Running, Waiting

(* ensure_hid() awaits the first connection, or does nothing.                *)
LEMMA EnsureDoes ==
  ASSUME TaskType, NEW t \in Tasks, Ensure(t)
  PROVE  /\ TaskType' /\ task[t].todo # <<>> /\ ~Waiting(t)
         /\ Now(t).op \in {"ensure", "indigo"}
         /\ UNCHANGED <<focused, enabled, keyboard, contact, homeDown, held, reported,
                        gesture, closing, phone, doubt>>
         /\ \/ /\ Moved(t, Rest(t), "run") /\ UNCHANGED <<hid, indigo>>
               /\ Now(t).op = "ensure" => hid # "none"
            \/ /\ Moved(t, task[t].todo, "await")
               /\ hid' = IF Now(t).op = "ensure" THEN "new" ELSE hid
               /\ indigo' = IF Now(t).op = "indigo" THEN "new" ELSE indigo
<1>1. /\ task[t].todo # <<>> /\ ~Waiting(t) /\ Now(t).op \in {"ensure", "indigo"}
      /\ UNCHANGED <<focused, enabled, keyboard, contact, homeDown, held, reported,
                     gesture, closing, phone, doubt>>
      /\ hid' = IF Now(t).op = "ensure" /\ hid = "none" THEN "new" ELSE hid
      /\ indigo' = IF Now(t).op = "indigo" /\ indigo = "none" THEN "new" ELSE indigo
      /\ IF (IF Now(t).op = "ensure" THEN hid ELSE indigo) = "none"
         THEN Await(t) ELSE Continue(t, Rest(t))
  BY RunningIs DEF Ensure, record
<1>2. Await(t) => TaskType' /\ Moved(t, task[t].todo, "await")
  BY <1>1, AwaitIs
<1>3. Continue(t, Rest(t)) => TaskType' /\ Moved(t, Rest(t), "run")
  BY <1>1, NowType, ContinueIs
<1> QED
  BY <1>1, <1>2, <1>3

(* A report is awaited if there is anything to send.                         *)
LEMMA IssueDoes ==
  ASSUME TaskType, NEW t \in Tasks, Issue(t)
  PROVE  /\ TaskType' /\ task[t].todo # <<>> /\ ~Waiting(t) /\ Now(t).op \in Awaited
         /\ UNCHANGED <<focused, enabled, keyboard, held, reported, gesture, closing,
                        phone, doubt>>
         /\ \/ Needed(t) /\ Moved(t, task[t].todo, "await")
            \/ ~Needed(t) /\ Moved(t, Rest(t), "run")
         /\ Now(t).op \in {"touch", "move", "drag"} => contact'
         /\ Now(t).op \in {"untouch", "lift"} => (contact' <=> contact /\ ~Needed(t))
         /\ Now(t).op \notin TouchReports => (contact' <=> contact)
         /\ homeDown' <=> Now(t).op = "press" \/ (homeDown /\ Now(t).op # "unpress")
         /\ hid' = IF Now(t).op = "dropHid" THEN "none" ELSE hid
         /\ indigo' = IF Now(t).op = "dropIndigo" THEN "none" ELSE indigo
         /\ contact' \in {TRUE, FALSE, contact} /\ homeDown' \in BOOLEAN
<1>1. /\ task[t].todo # <<>> /\ ~Waiting(t) /\ Now(t).op \in Awaited
      /\ UNCHANGED <<focused, enabled, keyboard, held, reported, gesture, closing,
                     phone, doubt>>
      /\ IF Needed(t) THEN Await(t) ELSE Continue(t, Rest(t))
      /\ hid' = IF Now(t).op = "dropHid" THEN "none" ELSE hid
      /\ indigo' = IF Now(t).op = "dropIndigo" THEN "none" ELSE indigo
  BY RunningIs DEF Issue
<1>2. /\ contact' = IF Now(t).op \in {"touch", "move", "drag"} THEN TRUE
                    ELSE contact /\ ~(Now(t).op \in {"untouch", "lift"} /\ Needed(t))
      /\ homeDown' = (Now(t).op = "press" \/ (homeDown /\ Now(t).op # "unpress"))
  BY DEF Issue
<1>3. /\ Now(t).op \in {"touch", "move", "drag"} => contact'
      /\ Now(t).op \in {"untouch", "lift"} => (contact' <=> contact /\ ~Needed(t))
      /\ Now(t).op \notin TouchReports => (contact' <=> contact)
      /\ homeDown' <=> Now(t).op = "press" \/ (homeDown /\ Now(t).op # "unpress")
      /\ contact' \in {TRUE, FALSE, contact} /\ homeDown' \in BOOLEAN
  BY <1>2 DEF TouchReports
<1>4. Await(t) => TaskType' /\ Moved(t, task[t].todo, "await")
  BY <1>1, AwaitIs
<1>5. Continue(t, Rest(t)) => TaskType' /\ Moved(t, Rest(t), "run")
  BY <1>1, NowType, ContinueIs
<1> QED
  BY <1>1, <1>3, <1>4, <1>5


-----------------------------------------------------------------------------
(* Where the tasks can be together.                                          *)

LoopOps ==
  {"join", "lift", "clearKeys", "closeHid", "closeIndigo", "dropHid", "dropIndigo",
   "forget", "disable"} \cup Connecting \cup Acts

(* The operations that the loop can be at.                                   *)
LEMMA LoopNames ==
  ASSUME TaskType, LoopShape, Loop # <<>>
  PROVE  /\ Lead(Loop) \in LoopOps
         /\ Linked("loop", Tail(Loop)) /\ Lead(Tail(Loop)) \in LoopAfter(Lead(Loop))
<1>1. Loop \in Seq(Operation)
  BY DEF TaskType, Tasks, Loop
<1>2. /\ Linked("loop", Tail(Loop))
      /\ Lead(Tail(Loop)) \in LoopAfter(Lead(Loop))
  BY <1>1, LinkedTail DEF LoopShape, After
<1>3. Lead(Loop) \in LoopOps
  BY <1>2 DEF LoopAfter, LoopOps, Acts, Typing, Pointing, Connecting, Starts, Gestures
<1> QED
  BY <1>2, <1>3

ScrollOps == {"again", "drag"}
HomeOps == {"indigo", "press"}
ShortcutOps == {"check", "pasteboard", "keyboard", "report", "keys"}
ShortcutFinals == {"finalReport", "finalKeys", "closeService"}
GestureOps == ScrollOps \cup HomeOps \cup ShortcutOps \cup ShortcutFinals
  \cup {"ensure", "lift", "sleep", "unpress"}

(* The operations that the gesture can be at, and of which gesture they are. *)
LEMMA GestureNames ==
  ASSUME TaskType, ModeType, GestureShape, Gesture # <<>>
  PROVE  LET x == Lead(Gesture)
         IN /\ x \in GestureOps
            /\ x \in ScrollOps => gesture = "scroll" /\ GestureFinal # <<>>
            /\ x \in HomeOps => gesture = "home" /\ GestureFinal # <<>>
            /\ x \in ShortcutOps => gesture \in {"search", "paste"} /\ GestureFinal # <<>>
            /\ x \in {"ensure", "sleep"} => gesture # "none" /\ GestureFinal # <<>>
            /\ x \in ShortcutFinals => gesture \in {"search", "paste", "none"}
            /\ x = "lift" => gesture \in {"scroll", "none"}
            /\ x = "unpress" => gesture \in {"home", "none"}
<1>1. Gesture \in Seq(Operation)
  BY DEF TaskType, Tasks, Gesture
<1>2. ASSUME NEW k, Linked(k, Gesture) PROVE After(k, Lead(Gesture)) # {}
  BY <1>1, <1>2, LinkedTail
<1>3. gesture # "none" => After(gesture, Lead(Gesture)) # {}
  BY <1>2 DEF GestureShape
<1>4. GestureFinal = <<>> => FinalAfter(Lead(Gesture)) # {}
  BY <1>2 DEF GestureShape, After
<1>5. gesture = "none" => GestureFinal = <<>>
  BY DEF GestureShape
<1>6. /\ gesture = "scroll" => ScrollAfter(Lead(Gesture)) # {}
      /\ gesture = "home" => HomeAfter(Lead(Gesture)) # {}
      /\ gesture \in {"search", "paste"} => ShortcutAfter(Lead(Gesture)) # {}
  BY <1>3 DEF After
<1>7. gesture \in {"scroll", "home", "search", "paste", "none"}
  BY DEF ModeType, Gestures
<1>8. FinalAfter(Lead(Gesture)) # {} =>
        Lead(Gesture) \in {"finalReport", "finalKeys", "closeService", "unpress", "lift"}
  BY DEF FinalAfter
<1>9. /\ ScrollAfter(Lead(Gesture)) # {} =>
           Lead(Gesture) \in {"ensure", "again", "drag", "lift"}
      /\ HomeAfter(Lead(Gesture)) # {} =>
           Lead(Gesture) \in {"indigo", "press", "sleep", "unpress"}
      /\ ShortcutAfter(Lead(Gesture)) # {} =>
           Lead(Gesture) \in ShortcutOps \cup ShortcutFinals \cup {"ensure", "sleep"}
  BY DEF ScrollAfter, HomeAfter, ShortcutAfter, ShortcutOps, ShortcutFinals
<1> QED
  BY <1>4, <1>5, <1>6, <1>7, <1>8, <1>9
     DEF GestureOps, ScrollOps, HomeOps, ShortcutOps, ShortcutFinals

(* The loop points and releases while there is no gesture, and types beside  *)
(* a scroll at most.                                                         *)
LEMMA Alone ==
  ASSUME TaskType, Shape
  PROVE  /\ Lead(Loop) \in Pointing \cup AfterJoin => NoGesture
         /\ Lead(Loop) \in Acts => Active /\ (NoGesture \/ gesture = "scroll")
         /\ Lead(Loop) \in Connecting => focused
         /\ Lead(Loop) = "hold" => Head(Loop).keys \in Chords
         /\ Lead(Loop) = "clearKeys" => Head(Loop).keys = {}
<1>1. Loop \in Seq(Operation)
  BY DEF TaskType, Tasks, Loop
<1>2. "stop" \notin Pointing \cup AfterJoin \cup Acts \cup Connecting
  BY DEF Pointing, AfterJoin, Acts, Typing, Connecting, Starts, Gestures
<1>3. Lead(Loop) = "stop" <=> Loop = <<>>
  BY <1>1, LeadFacts
<1>4. CASE Loop = <<>>
  BY <1>2, <1>3, <1>4
<1>5. CASE Loop # <<>>
  <2>1. Lead(Loop) = Loop[1].op /\ Head(Loop) = Loop[1] /\ 1 \in 1..Len(Loop)
    BY <1>1, <1>5, TailFacts
  <2>2. ActOk(Loop[1])
    BY <2>1 DEF Shape, Apart
  <2>3. gesture = "none" => Gesture = <<>> \/ Lead(Loop) = "join"
    BY <1>5 DEF Shape, Apart, LoopShape, Joining
  <2>4. "join" \notin Pointing \cup AfterJoin \cup Acts
    BY DEF Pointing, AfterJoin, Acts, Typing, Starts, Gestures
  <2>5. Lead(Loop) \in AfterJoin => gesture = "none"
    BY DEF Shape, Apart
  <2>6. /\ Lead(Loop) \in Acts => Active /\ gesture \in {"none", "scroll"}
        /\ Lead(Loop) \in Pointing => gesture = "none"
        /\ Lead(Loop) \in Connecting => focused
        /\ Lead(Loop) = "hold" => Head(Loop).keys \in Chords
        /\ Lead(Loop) = "clearKeys" => Head(Loop).keys = {}
    BY <2>1, <2>2 DEF ActOk
  <2> QED
    BY <2>3, <2>4, <2>5, <2>6 DEF NoGesture
<1> QED
  BY <1>4, <1>5

(* Out of focus, and with nothing more to do, the loop leaves no gesture.    *)
LEMMA Unfocused ==
  ASSUME TaskType, Shape, ~focused, Loop = <<>>
  PROVE  NoGesture
<1>1. Lead(Loop) = "stop"
  BY DEF Lead
<1>2. gesture = "none" /\ ~Joining
  BY <1>1 DEF Shape, Apart, Active, Releasing, Joining
<1>3. CASE closing = "done"
  BY <1>3 DEF Shape, LoopShape, Apart, Settled
<1>4. CASE closing # "done"
  BY <1>2, <1>4 DEF Shape, Apart, NoGesture
<1> QED
  BY <1>3, <1>4

-----------------------------------------------------------------------------
(* What the phone is left with.                                              *)

TouchHolds == {"touch", "move", "drag"}
TouchLets == {"untouch", "lift"}

(* A report that arrives changes the part of the phone that it is about.     *)
LEMMA ReceivedIs ==
  ASSUME TaskType, PhoneType, NEW t \in Tasks, task[t].todo # <<>>
  PROVE  LET x == Now(t).op
             p == Received(t)
         IN /\ p \in [contact : BOOLEAN, keys : SUBSET Usages, button : BOOLEAN]
            /\ x \in TouchHolds => p.contact
            /\ x \in TouchLets => ~p.contact
            /\ x \notin TouchReports => (p.contact <=> phone.contact)
            /\ x \in KeyReports => p.keys = Now(t).keys
            /\ x \notin KeyReports => p.keys = phone.keys
            /\ x = "press" => p.button
            /\ x = "unpress" => ~p.button
            /\ x \notin {"press", "unpress"} => (p.button <=> phone.button)
<1>1. /\ phone \in [contact : BOOLEAN, keys : SUBSET Usages, button : BOOLEAN]
      /\ Now(t).keys \in SUBSET Usages
  BY NowType DEF PhoneType
<1>2. CASE Now(t).op \in TouchHolds
  <2>1. Received(t) = [phone EXCEPT !.contact = TRUE]
    BY <1>2 DEF Received, TouchHolds
  <2> QED
    BY <1>1, <1>2, <2>1 DEF TouchHolds, TouchLets, TouchReports, KeyReports
<1>3. CASE Now(t).op \in TouchLets
  <2>1. Received(t) = [phone EXCEPT !.contact = FALSE]
    BY <1>3 DEF Received, TouchLets
  <2> QED
    BY <1>1, <1>3, <2>1 DEF TouchHolds, TouchLets, TouchReports, KeyReports
<1>4. CASE Now(t).op \in KeyReports
  <2>1. Received(t) = [phone EXCEPT !.keys = Now(t).keys]
    BY <1>4 DEF Received, KeyReports
  <2> QED
    BY <1>1, <1>4, <2>1 DEF TouchHolds, TouchLets, TouchReports, KeyReports
<1>5. CASE Now(t).op = "press"
  <2>1. Received(t) = [phone EXCEPT !.button = TRUE]
    BY <1>5 DEF Received
  <2> QED
    BY <1>1, <1>5, <2>1 DEF TouchHolds, TouchLets, TouchReports, KeyReports
<1>6. CASE Now(t).op = "unpress"
  <2>1. Received(t) = [phone EXCEPT !.button = FALSE]
    BY <1>6 DEF Received
  <2> QED
    BY <1>1, <1>6, <2>1 DEF TouchHolds, TouchLets, TouchReports, KeyReports
<1>7. CASE Now(t).op \notin TouchReports \cup KeyReports \cup {"press", "unpress"}
  <2>1. Received(t) = phone
    BY <1>7 DEF Received, TouchReports, KeyReports
  <2> QED
    BY <1>1, <1>7, <2>1 DEF TouchHolds, TouchLets, TouchReports, KeyReports
<1> QED
  BY <1>2, <1>3, <1>4, <1>5, <1>6, <1>7 DEF TouchHolds, TouchLets, TouchReports

(* The verdict on a report concerns the part of the phone that it is about.  *)
LEMMA DoubtIs ==
  ASSUME PhoneType, NEW t, NEW verdict \in {"sure", "unsure"}
  PROVE  LET x == Now(t).op
             d == Doubt(t, verdict)
         IN /\ d \in [{"contact", "keys", "button"} -> {"none", "hold", "release"}]
            /\ x \in TouchReports => d.contact =
                 IF verdict = "sure" THEN "none"
                 ELSE IF x \in TouchHolds THEN "hold" ELSE "release"
            /\ x \notin TouchReports => d.contact = doubt.contact
            /\ x \in KeyReports => d.keys =
                 IF verdict = "sure" THEN "none"
                 ELSE IF x = "clearKeys" THEN "release" ELSE "hold"
            /\ x \notin KeyReports => d.keys = doubt.keys
            /\ x \in {"press", "unpress"} => d.button =
                 IF verdict = "sure" THEN "none"
                 ELSE IF x = "press" THEN "hold" ELSE "release"
            /\ x \notin {"press", "unpress"} => d.button = doubt.button
<1> DEFINE known(class) == IF verdict = "sure" THEN "none" ELSE class
<1>1. doubt \in [{"contact", "keys", "button"} -> {"none", "hold", "release"}]
  BY DEF PhoneType
<1>2. CASE Now(t).op \in TouchHolds
  <2>1. Doubt(t, verdict) = [doubt EXCEPT !.contact = known("hold")]
    BY <1>2 DEF Doubt, TouchHolds
  <2> QED
    BY <1>1, <1>2, <2>1 DEF TouchHolds, TouchLets, TouchReports, KeyReports
<1>3. CASE Now(t).op \in TouchLets
  <2>1. Doubt(t, verdict) = [doubt EXCEPT !.contact = known("release")]
    BY <1>3 DEF Doubt, TouchLets
  <2> QED
    BY <1>1, <1>3, <2>1 DEF TouchHolds, TouchLets, TouchReports, KeyReports
<1>4. CASE Now(t).op \in {"keys", "finalKeys"}
  <2>1. Doubt(t, verdict) = [doubt EXCEPT !.keys = known("hold")]
    BY <1>4 DEF Doubt
  <2> QED
    BY <1>1, <1>4, <2>1 DEF TouchHolds, TouchLets, TouchReports, KeyReports
<1>5. CASE Now(t).op = "clearKeys"
  <2>1. Doubt(t, verdict) = [doubt EXCEPT !.keys = known("release")]
    BY <1>5 DEF Doubt
  <2> QED
    BY <1>1, <1>5, <2>1 DEF TouchHolds, TouchLets, TouchReports, KeyReports
<1>6. CASE Now(t).op = "press"
  <2>1. Doubt(t, verdict) = [doubt EXCEPT !.button = known("hold")]
    BY <1>6 DEF Doubt
  <2> QED
    BY <1>1, <1>6, <2>1 DEF TouchHolds, TouchLets, TouchReports, KeyReports
<1>7. CASE Now(t).op = "unpress"
  <2>1. Doubt(t, verdict) = [doubt EXCEPT !.button = known("release")]
    BY <1>7 DEF Doubt
  <2> QED
    BY <1>1, <1>7, <2>1 DEF TouchHolds, TouchLets, TouchReports, KeyReports
<1>8. CASE Now(t).op \notin TouchReports \cup KeyReports \cup {"press", "unpress"}
  <2>1. Doubt(t, verdict) = doubt
    BY <1>8 DEF Doubt, TouchReports, KeyReports
  <2> QED
    BY <1>1, <1>8, <2>1 DEF TouchHolds, TouchLets, TouchReports, KeyReports
<1> QED
  BY <1>2, <1>3, <1>4, <1>5, <1>6, <1>7, <1>8
     DEF TouchHolds, TouchLets, TouchReports, KeyReports

\* The report x has been received or not, and nobody knows.
Unsure(x) ==
  /\ PhoneType'
  /\ x \in TouchReports =>
       doubt'.contact = IF x \in TouchHolds THEN "hold" ELSE "release"
  /\ x \notin TouchReports =>
       (phone'.contact <=> phone.contact) /\ doubt'.contact = doubt.contact
  /\ x \in KeyReports =>
       doubt'.keys = IF x = "clearKeys" THEN "release" ELSE "hold"
  /\ x \notin KeyReports => phone'.keys = phone.keys /\ doubt'.keys = doubt.keys
  /\ x = "press" => doubt'.button = "hold"
  /\ x = "unpress" => doubt'.button = "release"
  /\ x \notin {"press", "unpress"} =>
       (phone'.button <=> phone.button) /\ doubt'.button = doubt.button

\* The report x, of these keys, has been answered.
Sure(x, keys) ==
  /\ PhoneType'
  /\ x \in TouchReports =>
       (phone'.contact <=> x \in TouchHolds) /\ doubt'.contact = "none"
  /\ x \notin TouchReports =>
       (phone'.contact <=> phone.contact) /\ doubt'.contact = doubt.contact
  /\ x \in KeyReports => phone'.keys = keys /\ doubt'.keys = "none"
  /\ x \notin KeyReports => phone'.keys = phone.keys /\ doubt'.keys = doubt.keys
  /\ x \in {"press", "unpress"} =>
       (phone'.button <=> x = "press") /\ doubt'.button = "none"
  /\ x \notin {"press", "unpress"} =>
       (phone'.button <=> phone.button) /\ doubt'.button = doubt.button

(* An await that does not come back with an answer.                          *)
LEMMA NoAnswerIs ==
  ASSUME TaskType, PhoneType, NEW t \in Tasks, task[t].todo # <<>>, NoAnswer(t)
  PROVE  Unsure(Now(t).op)
<1>1. phone' \in {phone, Received(t)} /\ doubt' = Doubt(t, "unsure")
  BY DEF NoAnswer
<1>2. phone \in [contact : BOOLEAN, keys : SUBSET Usages, button : BOOLEAN]
  BY DEF PhoneType
<1>3. Now(t).op \in TouchReports => phone'.contact \in BOOLEAN
  BY <1>1, <1>2, ReceivedIs
<1>4. PhoneType'
  BY <1>1, <1>2, ReceivedIs, DoubtIs DEF PhoneType
<1>5. /\ Now(t).op \notin TouchReports => (phone'.contact <=> phone.contact)
      /\ Now(t).op \notin KeyReports => phone'.keys = phone.keys
      /\ Now(t).op \notin {"press", "unpress"} => (phone'.button <=> phone.button)
  BY <1>1, ReceivedIs
<1> QED
  BY <1>1, <1>4, <1>5, DoubtIs DEF Unsure

(* An await that comes back with an answer.                                  *)
LEMMA AnswerIs ==
  ASSUME TaskType, PhoneType, NEW t \in Tasks, task[t].todo # <<>>,
         phone' = Received(t), doubt' = Doubt(t, "sure")
  PROVE  Sure(Now(t).op, Now(t).keys)
<1>1. PhoneType'
  BY ReceivedIs, DoubtIs DEF PhoneType
<1>2. /\ Now(t).op \in TouchReports => (phone'.contact <=> Now(t).op \in TouchHolds)
      /\ Now(t).op \notin TouchReports => (phone'.contact <=> phone.contact)
      /\ Now(t).op \in KeyReports => phone'.keys = Now(t).keys
      /\ Now(t).op \notin KeyReports => phone'.keys = phone.keys
      /\ Now(t).op \in {"press", "unpress"} => (phone'.button <=> Now(t).op = "press")
      /\ Now(t).op \notin {"press", "unpress"} => (phone'.button <=> phone.button)
  BY ReceivedIs DEF TouchReports, TouchHolds, TouchLets
<1> QED
  BY <1>1, <1>2, DoubtIs DEF Sure

-----------------------------------------------------------------------------
(* What each action does, seen from the loop and from the gesture.           *)

(* What the loop is at.                                                      *)
LEMMA LoopNow ==
  ASSUME TaskType
  PROVE  /\ "loop" \in Tasks /\ "gesture" \in Tasks
         /\ task["loop"].todo = Loop /\ task["loop"].at = LoopAt
         /\ Now("loop") = Head(Loop) /\ Rest("loop") = Tail(Loop)
         /\ Loop # <<>> => /\ Now("loop").op = Lead(Loop) /\ Tail(Loop) \in Seq(Operation)
                           /\ Head(Loop).keys \in SUBSET Usages
                           /\ Lead(Loop) \in OpNames
         /\ Waiting("loop") <=> LoopAt = "await"
<1>1. "loop" \in Tasks /\ "gesture" \in Tasks
  BY DEF Tasks
<1> QED
  BY <1>1, NowType, Parts DEF Now, Rest, Loop, LoopAt

(* What the gesture is at.                                                   *)
LEMMA GestureNow ==
  ASSUME TaskType
  PROVE  /\ task["gesture"].todo = Gesture /\ task["gesture"].at = GestureAt
         /\ Now("gesture") = Head(Gesture) /\ Rest("gesture") = Tail(Gesture)
         /\ Gesture # <<>> =>
              /\ Now("gesture").op = Lead(Gesture) /\ Tail(Gesture) \in Seq(Operation)
              /\ Head(Gesture).keys \in SUBSET Usages /\ Lead(Gesture) \in OpNames
         /\ Waiting("gesture") <=> GestureAt = "await"
<1>1. "gesture" \in Tasks
  BY DEF Tasks
<1> QED
  BY <1>1, NowType, Parts DEF Now, Rest, Gesture, GestureAt

(* A task that runs is at an operation; the other then does not run.         *)
LEMMA MayRunIs ==
  ASSUME TaskType
  PROVE  /\ MayRun("loop") => (GestureAt = "run" => gesture = "none" /\ Gesture = <<>>)
         /\ MayRun("gesture") => (LoopAt = "run" => Loop = <<>>)
         /\ (\A t \in Tasks : ~Busy(t)) =>
              /\ GestureAt = "run" => gesture = "none" /\ Gesture = <<>>
              /\ LoopAt = "run" => Loop = <<>>
<1>1. "loop" \in Tasks \ {"gesture"} /\ "gesture" \in Tasks \ {"loop"}
  BY DEF Tasks
<1> QED
  BY <1>1 DEF MayRun, Busy, Loop, LoopAt, Gesture, GestureAt

(* The loop connects the HID service.                                        *)
LEMMA LoopEnsures ==
  ASSUME Typed, LoopShape, Ensure("loop")
  PROVE  /\ TaskType' /\ Loop # <<>> /\ Lead(Loop) = "ensure" /\ LoopAt = "run"
         /\ UNCHANGED <<focused, enabled, keyboard, contact, homeDown, held, reported,
                        gesture, closing, phone, doubt, indigo>>
         /\ \/ LoopMoves(Tail(Loop), "run") /\ hid # "none" /\ hid' = hid
            \/ LoopMoves(Loop, "await") /\ hid' = "new"
<1>1. TaskType /\ "loop" \in Tasks
  BY LoopNow DEF Typed
<1>2. /\ TaskType' /\ Loop # <<>> /\ ~Waiting("loop")
      /\ Now("loop").op \in {"ensure", "indigo"}
      /\ UNCHANGED <<focused, enabled, keyboard, contact, homeDown, held, reported,
                     gesture, closing, phone, doubt>>
      /\ \/ /\ Moved("loop", Tail(Loop), "run") /\ UNCHANGED <<hid, indigo>>
            /\ Now("loop").op = "ensure" => hid # "none"
         \/ /\ Moved("loop", Loop, "await")
            /\ hid' = IF Now("loop").op = "ensure" THEN "new" ELSE hid
            /\ indigo' = IF Now("loop").op = "indigo" THEN "new" ELSE indigo
  BY <1>1, EnsureDoes, LoopNow
<1>3. Lead(Loop) = "ensure" /\ Now("loop").op = "ensure"
  <2>1. Now("loop").op = Lead(Loop)
    BY <1>1, <1>2, LoopNow
  <2>2. Lead(Loop) # "indigo"
    BY <1>1, <1>2, LoopNames
       DEF LoopOps, Connecting, Acts, Typing, Pointing, Starts, Gestures
  <2> QED
    BY <1>2, <2>1, <2>2
<1>4. LoopAt = "run"
  BY <1>1, <1>2, LoopNow, Parts DEF LoopShape
<1> QED
  BY <1>2, <1>3, <1>4 DEF Moved

(* A gesture connects the HID service, or that of the Home button.           *)
LEMMA GestureEnsures ==
  ASSUME Typed, GestureShape, Ensure("gesture")
  PROVE  /\ TaskType' /\ Gesture # <<>> /\ Lead(Gesture) \in {"ensure", "indigo"}
         /\ UNCHANGED <<focused, enabled, keyboard, contact, homeDown, held, reported,
                        gesture, closing, phone, doubt>>
         /\ hid' \in {hid, "new"} /\ indigo' \in {indigo, "new"}
         /\ Lead(Gesture) = "ensure" => hid' # "none"
         /\ GestureMoves(Tail(Gesture), "run") \/ GestureMoves(Gesture, "await")
<1>1. TaskType /\ "gesture" \in Tasks
  BY LoopNow DEF Typed
<1>2. /\ TaskType' /\ Gesture # <<>> /\ ~Waiting("gesture")
      /\ Now("gesture").op \in {"ensure", "indigo"}
      /\ UNCHANGED <<focused, enabled, keyboard, contact, homeDown, held, reported,
                     gesture, closing, phone, doubt>>
      /\ \/ /\ Moved("gesture", Tail(Gesture), "run") /\ UNCHANGED <<hid, indigo>>
            /\ Now("gesture").op = "ensure" => hid # "none"
         \/ /\ Moved("gesture", Gesture, "await")
            /\ hid' = IF Now("gesture").op = "ensure" THEN "new" ELSE hid
            /\ indigo' = IF Now("gesture").op = "indigo" THEN "new" ELSE indigo
  BY <1>1, EnsureDoes, GestureNow
<1>3. Now("gesture").op = Lead(Gesture)
  BY <1>1, <1>2, GestureNow
<1> QED
  BY <1>2, <1>3 DEF Moved

(* Where there is nothing to send.                                           *)
LEMMA NeededIs ==
  ASSUME NEW t, ~Needed(t)
  PROVE  LET x == Now(t).op
         IN /\ x \notin TouchHolds
            /\ x = "untouch" => ~contact
            /\ x = "lift" => ~contact \/ hid = "none"
            /\ x \in {"keys", "finalKeys"} => Now(t).keys = reported
            /\ x = "clearKeys" => ~Sendable
            /\ x = "keyboard" => keyboard
            /\ x = "unpress" => ~homeDown
            /\ x \in {"dropHid", "closeHid"} => hid = "none"
            /\ x # "press"
  BY DEF Needed, TouchHolds, Sendable

(* The loop sends a report, or has none to send.                             *)
LEMMA LoopIssues ==
  ASSUME Typed, LoopShape, Issue("loop")
  PROVE  LET x == Lead(Loop)
         IN /\ TaskType' /\ Loop # <<>> /\ x \in Awaited /\ LoopAt = "run"
            /\ UNCHANGED <<focused, enabled, keyboard, held, reported, gesture, closing,
                           phone, doubt, homeDown>>
            /\ hid' = IF x = "dropHid" THEN "none" ELSE hid
            /\ indigo' \in {indigo, "none"} /\ contact' \in BOOLEAN
            /\ x \in TouchHolds => contact'
            /\ x \notin TouchReports => (contact' <=> contact)
            /\ \/ /\ LoopMoves(Loop, "await") /\ (x \in TouchLets => ~contact')
               \/ /\ LoopMoves(Tail(Loop), "run") /\ x \notin TouchHolds
                  /\ contact' <=> contact
                  /\ x = "untouch" => ~contact
                  /\ x = "lift" => ~contact \/ hid = "none"
                  /\ x = "keys" => Head(Loop).keys = reported
                  /\ x = "clearKeys" => ~Sendable
                  /\ x = "keyboard" => keyboard
<1>1. TaskType /\ "loop" \in Tasks /\ contact \in BOOLEAN /\ homeDown \in BOOLEAN
  BY LoopNow DEF Typed, ServiceType
<1>2. /\ TaskType' /\ Loop # <<>> /\ ~Waiting("loop") /\ Now("loop").op \in Awaited
      /\ UNCHANGED <<focused, enabled, keyboard, held, reported, gesture, closing,
                     phone, doubt>>
      /\ \/ Needed("loop") /\ Moved("loop", Loop, "await")
         \/ ~Needed("loop") /\ Moved("loop", Tail(Loop), "run")
      /\ Now("loop").op \in {"touch", "move", "drag"} => contact'
      /\ Now("loop").op \in {"untouch", "lift"} => (contact' <=> contact /\ ~Needed("loop"))
      /\ Now("loop").op \notin TouchReports => (contact' <=> contact)
      /\ homeDown' <=> Now("loop").op = "press" \/ (homeDown /\ Now("loop").op # "unpress")
      /\ hid' = IF Now("loop").op = "dropHid" THEN "none" ELSE hid
      /\ indigo' = IF Now("loop").op = "dropIndigo" THEN "none" ELSE indigo
      /\ contact' \in {TRUE, FALSE, contact} /\ homeDown' \in BOOLEAN
  BY <1>1, IssueDoes, LoopNow
<1>3. Now("loop").op = Lead(Loop) /\ Now("loop") = Head(Loop)
  BY <1>1, <1>2, LoopNow
<1>4. Lead(Loop) \notin {"press", "unpress"}
  BY <1>1, <1>2, LoopNames
     DEF LoopOps, Connecting, Acts, Typing, Pointing, Starts, Gestures
<1>5. homeDown' = homeDown
  BY <1>1, <1>2, <1>3, <1>4
<1>6. LoopAt = "run"
  BY <1>1, <1>2, LoopNow, Parts DEF LoopShape
<1>7. contact' \in BOOLEAN
  BY <1>1, <1>2
<1>8. CASE Needed("loop")
  BY <1>2, <1>3, <1>5, <1>6, <1>7, <1>8 DEF Moved, TouchHolds, TouchLets
<1>9. CASE ~Needed("loop")
  <2>1. contact' <=> contact
    BY <1>2, <1>3, <1>9, NeededIs DEF TouchHolds, TouchReports
  <2> QED
    BY <1>2, <1>3, <1>5, <1>6, <1>7, <1>9, <2>1, NeededIs DEF Moved, TouchHolds
<1> QED
  BY <1>8, <1>9

(* A gesture sends a report, or has none to send.                            *)
LEMMA GestureIssues ==
  ASSUME Typed, GestureShape, Issue("gesture")
  PROVE  LET x == Lead(Gesture)
         IN /\ TaskType' /\ Gesture # <<>> /\ x \in Awaited /\ GestureAt # "await"
            /\ UNCHANGED <<focused, enabled, keyboard, held, reported, gesture, closing,
                           phone, doubt, hid, indigo>>
            /\ contact' \in BOOLEAN /\ homeDown' \in BOOLEAN
            /\ x \in TouchHolds => contact'
            /\ x \notin TouchReports => (contact' <=> contact)
            /\ homeDown' <=> x = "press" \/ (homeDown /\ x # "unpress")
            /\ \/ /\ GestureMoves(Gesture, "await") /\ (x \in TouchLets => ~contact')
               \/ /\ GestureMoves(Tail(Gesture), "run") /\ x \notin TouchHolds
                  /\ contact' <=> contact
                  /\ x = "lift" => ~contact \/ hid = "none"
                  /\ x \in {"keys", "finalKeys"} => Head(Gesture).keys = reported
                  /\ x = "keyboard" => keyboard
                  /\ x = "unpress" => ~homeDown
                  /\ x # "press"
<1>1. /\ TaskType /\ "gesture" \in Tasks /\ contact \in BOOLEAN /\ homeDown \in BOOLEAN
      /\ ModeType
  BY LoopNow DEF Typed, ServiceType
<1>2. /\ TaskType' /\ Gesture # <<>> /\ ~Waiting("gesture") /\ Now("gesture").op \in Awaited
      /\ UNCHANGED <<focused, enabled, keyboard, held, reported, gesture, closing,
                     phone, doubt>>
      /\ \/ Needed("gesture") /\ Moved("gesture", Gesture, "await")
         \/ ~Needed("gesture") /\ Moved("gesture", Tail(Gesture), "run")
      /\ Now("gesture").op \in {"touch", "move", "drag"} => contact'
      /\ Now("gesture").op \in {"untouch", "lift"} =>
           (contact' <=> contact /\ ~Needed("gesture"))
      /\ Now("gesture").op \notin TouchReports => (contact' <=> contact)
      /\ homeDown' <=>
           Now("gesture").op = "press" \/ (homeDown /\ Now("gesture").op # "unpress")
      /\ hid' = IF Now("gesture").op = "dropHid" THEN "none" ELSE hid
      /\ indigo' = IF Now("gesture").op = "dropIndigo" THEN "none" ELSE indigo
      /\ contact' \in {TRUE, FALSE, contact} /\ homeDown' \in BOOLEAN
  BY <1>1, IssueDoes, GestureNow
<1>3. Now("gesture").op = Lead(Gesture) /\ Now("gesture") = Head(Gesture)
  BY <1>1, <1>2, GestureNow
<1>4. Lead(Gesture) \notin {"dropHid", "dropIndigo"}
  BY <1>1, <1>2, GestureNames
     DEF GestureOps, ScrollOps, HomeOps, ShortcutOps, ShortcutFinals
<1>5. contact' \in BOOLEAN /\ GestureAt # "await"
  BY <1>1, <1>2, GestureNow
<1>6. CASE Needed("gesture")
  BY <1>2, <1>3, <1>4, <1>5, <1>6 DEF Moved, TouchHolds, TouchLets
<1>7. CASE ~Needed("gesture")
  <2>1. contact' <=> contact
    BY <1>2, <1>3, <1>7, NeededIs DEF TouchHolds, TouchReports
  <2> QED
    BY <1>2, <1>3, <1>4, <1>5, <1>7, <2>1, NeededIs DEF Moved, TouchHolds
<1> QED
  BY <1>6, <1>7

(* The reports of a change of keys are a list.                               *)
LEMMA KeyStatesType ==
  ASSUME NEW name \in {"keys", "finalKeys"}, NEW desired \in SUBSET Usages,
         reported \in SUBSET Usages
  PROVE  KeyStates(name, desired) \in Seq(Operation)
<1> DEFINE kept == (reported \cap desired) \ Mods
           k1 == kept \cup (reported \cap Mods)
           k2 == kept \cup (desired \cap Mods)
<1>1. k1 \in SUBSET Usages /\ k2 \in SUBSET Usages
  OBVIOUS
<1>2. KeyStates(name, desired) = <<Keys(name, k1), Keys(name, k2), Keys(name, desired)>>
  BY DEF KeyStates
<1> HIDE DEF k1, k2
<1>3. /\ Keys(name, k1) \in Operation /\ Keys(name, k2) \in Operation
      /\ Keys(name, desired) \in Operation
  BY <1>1, OperationType DEF OpNames, Awaited, Holding, Suppressed
<1> QED
  BY <1>2, <1>3

(* The keys that are held are usages.                                        *)
LEMMA HeldKeys ==
  ASSUME HeldType
  PROVE  UNION held \in SUBSET Usages /\ reported \in SUBSET Usages
  BY DEF HeldType, Usages

(* What is sent instead of an operation is a list.                           *)
LEMMA ExpandType ==
  ASSUME Typed, NEW t \in Tasks, task[t].todo # <<>>, NEW s \in Expand(t)
  PROVE  s \in Seq(Operation)
<1>1. /\ Rest(t) \in Seq(Operation) /\ Now(t).keys \in SUBSET Usages
      /\ UNION held \in SUBSET Usages /\ reported \in SUBSET Usages
  BY NowType, HeldKeys DEF Typed
<1>2. CASE Now(t).op = "reportHeld"
  <2>1. s = KeyStates("keys", UNION held) \o Rest(t)
    BY <1>2 DEF Expand
  <2> QED
    BY <1>1, <2>1, KeyStatesType, ConcatFacts
<1>3. CASE Now(t).op = "report"
  <2>1. s = KeyStates("keys", Now(t).keys) \o Rest(t)
    BY <1>3 DEF Expand
  <2> QED
    BY <1>1, <2>1, KeyStatesType, ConcatFacts
<1>4. CASE Now(t).op = "finalReport"
  <2>1. s = KeyStates("finalKeys", {}) \o Rest(t) \/ s = <<>> \o Rest(t)
    BY <1>4 DEF Expand
  <2>2. {} \in SUBSET Usages /\ <<>> \o Rest(t) \in Seq(Operation)
    BY <1>1
  <2>3. KeyStates("finalKeys", {}) \in Seq(Operation)
    BY <1>1, <2>2, KeyStatesType
  <2>4. KeyStates("finalKeys", {}) \o Rest(t) \in Seq(Operation)
    BY <1>1, <2>3, ConcatFacts
  <2> QED
    BY <2>1, <2>2, <2>4
<1>5. CASE Now(t).op = "check"
  <2>1. s = Rest(t) \/ s = <<>>
    BY <1>5 DEF Expand
  <2>2. <<>> \in Seq(Operation)
    OBVIOUS
  <2> QED
    BY <1>1, <2>1, <2>2
<1>6. CASE Now(t).op = "again"
  <2>1. s = Drags \/ s = <<>>
    BY <1>6 DEF Expand
  <2>2. <<>> \in Seq(Operation)
    OBVIOUS
  <2> QED
    BY <2>1, <2>2, DragsList
<1>7. CASE Now(t).op \notin {"reportHeld", "report", "finalReport", "check", "again"}
  <2>1. s = Rest(t)
    BY <1>7 DEF Expand
  <2> QED
    BY <1>1, <2>1
<1> QED
  BY <1>2, <1>3, <1>4, <1>5, <1>6, <1>7

(* What a task does without giving way.                                      *)
LEMMA PrepareDoes ==
  ASSUME Typed, NEW t \in Tasks, Prepare(t)
  PROVE  /\ TaskType' /\ task[t].todo # <<>> /\ ~Waiting(t) /\ Now(t).op \in Local
         /\ \E s \in Expand(t) : s \in Seq(Operation) /\ Moved(t, s, "run")
         /\ UNCHANGED <<focused, hid, indigo, contact, homeDown, gesture, closing, phone,
                        doubt>>
         /\ enabled' <=> Now(t).op = "enable" \/ (enabled /\ Now(t).op # "disable")
         /\ enabled' \in BOOLEAN /\ keyboard' \in BOOLEAN
         /\ keyboard' <=> keyboard /\ Now(t).op # "forget"
         /\ reported' = IF Now(t).op = "forget" THEN {} ELSE reported
         /\ Now(t).op = "hold" => held' = Without(Now(t).keys) \cup {Now(t).keys}
         /\ Now(t).op = "letGo" => held' = Without(Now(t).keys)
         /\ Now(t).op = "forget" => held' = {}
         /\ Now(t).op \notin {"hold", "letGo", "forget"} => held' = held
<1>1. /\ task[t].todo # <<>> /\ ~Waiting(t) /\ Now(t).op \in Local
      /\ UNCHANGED <<focused, hid, indigo, contact, homeDown, gesture, closing, phone,
                     doubt>>
      /\ \E todo \in Expand(t) : Continue(t, todo)
  BY RunningIs DEF Prepare, Typed
<1>2. PICK s \in Expand(t) : Continue(t, s)
  BY <1>1
<1>3. s \in Seq(Operation)
  BY <1>1, <1>2, ExpandType
<1>4. TaskType' /\ Moved(t, s, "run")
  BY <1>2, <1>3, ContinueIs DEF Typed
<1>5. /\ enabled' = (Now(t).op = "enable" \/ (enabled /\ Now(t).op # "disable"))
      /\ keyboard' = (keyboard /\ Now(t).op # "forget")
      /\ reported' = IF Now(t).op = "forget" THEN {} ELSE reported
  BY DEF Prepare
<1>6. held' = CASE Now(t).op = "hold" -> Without(Now(t).keys) \cup {Now(t).keys}
                [] Now(t).op = "letGo" -> Without(Now(t).keys)
                [] Now(t).op = "forget" -> {}
                [] OTHER -> held
  BY DEF Prepare
<1>7. /\ enabled' <=> Now(t).op = "enable" \/ (enabled /\ Now(t).op # "disable")
      /\ keyboard' <=> keyboard /\ Now(t).op # "forget"
      /\ enabled' \in BOOLEAN /\ keyboard' \in BOOLEAN
  BY <1>5
<1> QED
  BY <1>1, <1>2, <1>3, <1>4, <1>5, <1>6, <1>7

(* The loop enables or disables the input, holds keys or lets them go.       *)
LEMMA LoopPrepares ==
  ASSUME Typed, LoopShape, Prepare("loop")
  PROVE  LET x == Lead(Loop)
         IN /\ TaskType' /\ Loop # <<>> /\ LoopAt = "run"
            /\ x \in {"enable", "disable", "forget", "hold", "letGo", "reportHeld"}
            /\ LoopMoves(IF x = "reportHeld" THEN KeyStates("keys", UNION held) \o Tail(Loop)
                         ELSE Tail(Loop), "run")
            /\ UNCHANGED <<focused, hid, indigo, contact, homeDown, gesture, closing, phone,
                           doubt>>
            /\ enabled' <=> x = "enable" \/ (enabled /\ x # "disable")
            /\ enabled' \in BOOLEAN /\ keyboard' \in BOOLEAN
            /\ keyboard' <=> keyboard /\ x # "forget"
            /\ reported' = IF x = "forget" THEN {} ELSE reported
            /\ x = "hold" => held' = Without(Head(Loop).keys) \cup {Head(Loop).keys}
            /\ x = "letGo" => held' = Without(Head(Loop).keys)
            /\ x = "forget" => held' = {}
            /\ x \notin {"hold", "letGo", "forget"} => held' = held
<1>1. TaskType /\ "loop" \in Tasks
  BY LoopNow DEF Typed
<1>2. Loop # <<>> /\ ~Waiting("loop") /\ Now("loop").op \in Local
  BY <1>1, PrepareDoes, LoopNow
<1>3. Now("loop").op = Lead(Loop) /\ Now("loop") = Head(Loop) /\ Rest("loop") = Tail(Loop)
  BY <1>1, <1>2, LoopNow
<1>4. Lead(Loop) \in {"enable", "disable", "forget", "hold", "letGo", "reportHeld"}
  <2>1. Lead(Loop) \in LoopOps
    BY <1>1, <1>2, LoopNames
  <2> QED
    BY <1>2, <1>3, <2>1
       DEF LoopOps, Connecting, Acts, Typing, Pointing, Starts, Gestures, Local
<1>5. LoopAt = "run"
  BY <1>1, <1>2, LoopNow, Parts DEF LoopShape
<1>6. PICK s \in Expand("loop") : Moved("loop", s, "run")
  BY <1>1, PrepareDoes
<1>7. s = IF Lead(Loop) = "reportHeld" THEN KeyStates("keys", UNION held) \o Tail(Loop)
          ELSE Tail(Loop)
  BY <1>3, <1>4, <1>6 DEF Expand
<1>8. LoopMoves(s, "run")
  BY <1>6 DEF Moved
<1> QED
  BY <1>1, <1>2, <1>3, <1>4, <1>5, <1>7, <1>8, PrepareDoes

(* A gesture checks that it may go on, or begins a change of keys.           *)
LEMMA GesturePrepares ==
  ASSUME Typed, GestureShape, Prepare("gesture")
  PROVE  LET x == Lead(Gesture)
         IN /\ TaskType' /\ Gesture # <<>> /\ GestureAt # "await"
            /\ x \in {"report", "finalReport", "check", "again"}
            /\ UNCHANGED <<focused, enabled, hid, indigo, keyboard, contact, homeDown, held,
                           reported, gesture, closing, phone, doubt>>
            /\ x = "report" =>
                 GestureMoves(KeyStates("keys", Head(Gesture).keys) \o Tail(Gesture), "run")
            /\ x = "finalReport" =>
                 GestureMoves((IF Sendable THEN KeyStates("finalKeys", {}) ELSE <<>>)
                                \o Tail(Gesture), "run")
            /\ x = "check" => GestureMoves(Tail(Gesture), "run") \/ GestureMoves(<<>>, "run")
            /\ x = "again" => GestureMoves(Drags, "run") \/ GestureMoves(<<>>, "run")
<1>1. /\ TaskType /\ "gesture" \in Tasks /\ ModeType /\ enabled \in BOOLEAN
      /\ keyboard \in BOOLEAN
  BY LoopNow DEF Typed, ModeType, ServiceType
<1>2. Gesture # <<>> /\ ~Waiting("gesture") /\ Now("gesture").op \in Local
  BY <1>1, PrepareDoes, GestureNow
<1>3. /\ Now("gesture").op = Lead(Gesture) /\ Now("gesture") = Head(Gesture)
      /\ Rest("gesture") = Tail(Gesture)
  BY <1>1, <1>2, GestureNow
<1>4. Lead(Gesture) \in {"report", "finalReport", "check", "again"}
  <2>1. Lead(Gesture) \in GestureOps
    BY <1>1, <1>2, GestureNames
  <2> QED
    BY <1>2, <1>3, <2>1
       DEF GestureOps, ScrollOps, HomeOps, ShortcutOps, ShortcutFinals, Local
<1>5. GestureAt # "await"
  BY <1>1, <1>2, GestureNow
<1>6. PICK s \in Expand("gesture") : Moved("gesture", s, "run")
  BY <1>1, PrepareDoes
<1>7. GestureMoves(s, "run")
  BY <1>6 DEF Moved
<1>8. /\ Lead(Gesture) = "report" => s = KeyStates("keys", Head(Gesture).keys) \o Tail(Gesture)
      /\ Lead(Gesture) = "finalReport" =>
           s = (IF Sendable THEN KeyStates("finalKeys", {}) ELSE <<>>) \o Tail(Gesture)
      /\ Lead(Gesture) = "check" => s \in {Tail(Gesture), <<>>}
      /\ Lead(Gesture) = "again" => s \in {Drags, <<>>}
  BY <1>3, <1>6 DEF Expand, Sendable
<1>9. UNCHANGED <<focused, enabled, hid, indigo, keyboard, contact, homeDown, held,
                  reported, gesture, closing, phone, doubt>>
  <2>1. Now("gesture").op \notin {"enable", "disable", "forget", "hold", "letGo"}
    BY <1>3, <1>4
  <2>2. enabled' = enabled /\ keyboard' = keyboard
    BY <1>1, <2>1, PrepareDoes
  <2> QED
    BY <1>1, <2>1, <2>2, PrepareDoes
<1> QED
  BY <1>1, <1>2, <1>4, <1>5, <1>7, <1>8, <1>9, PrepareDoes

(* An answer to the loop.                                                    *)
LEMMA LoopSucceeds ==
  ASSUME Typed, LoopShape, Succeeds("loop")
  PROVE  LET x == Lead(Loop)
         IN /\ TaskType' /\ Loop # <<>> /\ LoopAt = "await" /\ x # "join"
            /\ Sure(x, Head(Loop).keys)
            /\ reported' = IF x \in KeyReports THEN Head(Loop).keys ELSE reported
            /\ hid' = IF x = "ensure" THEN "open" ELSE IF x = "closeHid" THEN "none" ELSE hid
            /\ keyboard' <=> x = "keyboard" \/ (keyboard /\ x # "closeHid")
            /\ keyboard' \in BOOLEAN /\ indigo' \in {"none", "new", "open"}
            /\ LoopMoves(Tail(Loop), "run")
            /\ UNCHANGED <<focused, enabled, contact, homeDown, held, gesture, closing>>
<1>1. /\ TaskType /\ "loop" \in Tasks /\ PhoneType /\ keyboard \in BOOLEAN
      /\ indigo \in {"none", "new", "open"}
  BY LoopNow DEF Typed, ServiceType
<1>2. LoopAt = "await" /\ Loop # <<>>
  BY <1>1, LoopNow, Parts DEF Succeeds
<1>3. /\ Now("loop").op = Lead(Loop) /\ Now("loop") = Head(Loop)
      /\ Rest("loop") = Tail(Loop) /\ Tail(Loop) \in Seq(Operation)
      /\ task["loop"].todo # <<>>
  BY <1>1, <1>2, LoopNow
<1>4. /\ Lead(Loop) # "join" /\ phone' = Received("loop") /\ doubt' = Doubt("loop", "sure")
      /\ UNCHANGED <<focused, enabled, contact, homeDown, held, gesture, closing>>
      /\ Continue("loop", Tail(Loop))
  BY <1>3 DEF Succeeds
<1>5. Sure(Lead(Loop), Head(Loop).keys)
  BY <1>1, <1>3, <1>4, AnswerIs
<1>6. TaskType' /\ LoopMoves(Tail(Loop), "run")
  BY <1>1, <1>3, <1>4, ContinueIs DEF Moved
<1>7. reported' = IF Lead(Loop) \in KeyReports THEN Head(Loop).keys ELSE reported
  BY <1>3 DEF Succeeds, KeyReports
<1>8. /\ CASE Lead(Loop) = "ensure" -> hid' = "open" /\ UNCHANGED <<keyboard, indigo>>
           [] Lead(Loop) = "indigo" -> indigo' = "open" /\ UNCHANGED <<hid, keyboard>>
           [] Lead(Loop) = "keyboard" -> keyboard' = TRUE /\ UNCHANGED <<hid, indigo>>
           [] OTHER -> Forgets("loop")
  BY <1>3 DEF Succeeds
<1>9. /\ hid' = IF Lead(Loop) = "ensure" THEN "open"
                ELSE IF Lead(Loop) = "closeHid" THEN "none" ELSE hid
      /\ keyboard' <=> Lead(Loop) = "keyboard" \/ (keyboard /\ Lead(Loop) # "closeHid")
      /\ keyboard' \in BOOLEAN /\ indigo' \in {"none", "new", "open"}
  <2>1. CASE Lead(Loop) = "ensure"
    BY <1>1, <1>8, <2>1
  <2>2. CASE Lead(Loop) = "indigo"
    BY <1>1, <1>8, <2>2
  <2>3. CASE Lead(Loop) = "keyboard"
    BY <1>1, <1>8, <2>3
  <2>4. CASE Lead(Loop) \notin {"ensure", "indigo", "keyboard"}
    <3>1. Forgets("loop")
      BY <1>8, <2>4
    <3> QED
      BY <1>1, <1>3, <2>4, <3>1 DEF Forgets
  <2> QED
    BY <2>1, <2>2, <2>3, <2>4
<1> QED
  BY <1>2, <1>4, <1>5, <1>6, <1>7, <1>9

(* An answer to a gesture.                                                   *)
LEMMA GestureSucceeds ==
  ASSUME Typed, GestureShape, Succeeds("gesture")
  PROVE  LET x == Lead(Gesture)
         IN /\ TaskType' /\ Gesture # <<>> /\ GestureAt = "await"
            /\ Sure(x, Head(Gesture).keys)
            /\ reported' = IF x \in KeyReports THEN Head(Gesture).keys ELSE reported
            /\ hid' = IF x = "ensure" THEN "open" ELSE hid
            /\ keyboard' <=> x = "keyboard" \/ keyboard
            /\ keyboard' \in BOOLEAN /\ indigo' \in {"none", "new", "open"}
            /\ GestureMoves(Tail(Gesture), "run")
            /\ UNCHANGED <<focused, enabled, contact, homeDown, held, gesture, closing>>
<1>1. /\ TaskType /\ "gesture" \in Tasks /\ PhoneType /\ keyboard \in BOOLEAN /\ ModeType
      /\ indigo \in {"none", "new", "open"}
  BY LoopNow DEF Typed, ServiceType
<1>2. GestureAt = "await" /\ Gesture # <<>>
  BY <1>1, GestureNow, Parts DEF Succeeds
<1>3. /\ Now("gesture").op = Lead(Gesture) /\ Now("gesture") = Head(Gesture)
      /\ Rest("gesture") = Tail(Gesture) /\ Tail(Gesture) \in Seq(Operation)
      /\ task["gesture"].todo # <<>>
  BY <1>1, <1>2, GestureNow
<1>4. /\ phone' = Received("gesture") /\ doubt' = Doubt("gesture", "sure")
      /\ UNCHANGED <<focused, enabled, contact, homeDown, held, gesture, closing>>
      /\ Continue("gesture", Tail(Gesture))
  BY <1>3 DEF Succeeds
<1>5. Sure(Lead(Gesture), Head(Gesture).keys)
  BY <1>1, <1>3, <1>4, AnswerIs
<1>6. TaskType' /\ GestureMoves(Tail(Gesture), "run")
  BY <1>1, <1>3, <1>4, ContinueIs DEF Moved
<1>7. reported' = IF Lead(Gesture) \in KeyReports THEN Head(Gesture).keys ELSE reported
  BY <1>3 DEF Succeeds, KeyReports
<1>8. /\ CASE Lead(Gesture) = "ensure" -> hid' = "open" /\ UNCHANGED <<keyboard, indigo>>
           [] Lead(Gesture) = "indigo" -> indigo' = "open" /\ UNCHANGED <<hid, keyboard>>
           [] Lead(Gesture) = "keyboard" -> keyboard' = TRUE /\ UNCHANGED <<hid, indigo>>
           [] OTHER -> Forgets("gesture")
  BY <1>3 DEF Succeeds
<1>9. /\ hid' = IF Lead(Gesture) = "ensure" THEN "open" ELSE hid
      /\ keyboard' <=> Lead(Gesture) = "keyboard" \/ keyboard
      /\ keyboard' \in BOOLEAN /\ indigo' \in {"none", "new", "open"}
  <2>1. CASE Lead(Gesture) = "ensure"
    BY <1>1, <1>8, <2>1
  <2>2. CASE Lead(Gesture) = "indigo"
    BY <1>1, <1>8, <2>2
  <2>3. CASE Lead(Gesture) = "keyboard"
    BY <1>1, <1>8, <2>3
  <2>4. CASE Lead(Gesture) \notin {"ensure", "indigo", "keyboard"}
    <3>1. Forgets("gesture")
      BY <1>8, <2>4
    <3>2. Lead(Gesture) \notin {"closeHid", "closeIndigo"}
      BY <1>1, <1>2, GestureNames
         DEF GestureOps, ScrollOps, HomeOps, ShortcutOps, ShortcutFinals
    <3> QED
      BY <1>1, <1>3, <2>4, <3>1, <3>2 DEF Forgets
  <2> QED
    BY <2>1, <2>2, <2>3, <2>4
<1> QED
  BY <1>2, <1>4, <1>5, <1>6, <1>7, <1>9

(* A failure in the loop, which is suppressed or disables the input.         *)
LEMMA LoopFails ==
  ASSUME Typed, LoopShape, Fails("loop")
  PROVE  LET x == Lead(Loop)
         IN /\ TaskType' /\ Loop # <<>> /\ LoopAt = "await" /\ x # "join"
            /\ Unsure(x)
            /\ hid' = IF x = "closeHid" THEN "none" ELSE hid
            /\ keyboard' <=> keyboard /\ x # "closeHid"
            /\ keyboard' \in BOOLEAN /\ indigo' \in {"none", "new", "open"}
            /\ x \in Suppressed => LoopMoves(Tail(Loop), "run")
            /\ x \notin Suppressed => LoopMoves(InputFailed, "run")
            /\ UNCHANGED <<focused, enabled, contact, homeDown, held, reported, gesture,
                           closing>>
<1>1. /\ TaskType /\ "loop" \in Tasks /\ PhoneType /\ keyboard \in BOOLEAN
      /\ indigo \in {"none", "new", "open"}
  BY LoopNow DEF Typed, ServiceType
<1>2. LoopAt = "await" /\ Loop # <<>>
  BY <1>1, LoopNow, Parts DEF Fails
<1>3. /\ Now("loop").op = Lead(Loop) /\ Now("loop") = Head(Loop)
      /\ Rest("loop") = Tail(Loop) /\ Tail(Loop) \in Seq(Operation)
      /\ task["loop"].todo # <<>>
  BY <1>1, <1>2, LoopNow
<1>4. /\ Lead(Loop) # "join" /\ NoAnswer("loop") /\ Forgets("loop")
      /\ UNCHANGED <<focused, enabled, contact, homeDown, held, reported, gesture, closing>>
      /\ IF Lead(Loop) \in Suppressed THEN Continue("loop", Remaining("loop"))
                                      ELSE Continue("loop", InputFailed)
  BY <1>3 DEF Fails, record
<1>5. Unsure(Lead(Loop))
  BY <1>1, <1>3, <1>4, NoAnswerIs
<1>6. Lead(Loop) # "finalKeys"
  BY <1>1, <1>2, LoopNames
     DEF LoopOps, Connecting, Acts, Typing, Pointing, Starts, Gestures
<1>7. Remaining("loop") = Tail(Loop)
  BY <1>3, <1>6 DEF Remaining
<1>8. /\ Lead(Loop) \in Suppressed => TaskType' /\ LoopMoves(Tail(Loop), "run")
      /\ Lead(Loop) \notin Suppressed => TaskType' /\ LoopMoves(InputFailed, "run")
  BY <1>1, <1>3, <1>4, <1>7, ContinueIs, InputFailedList DEF Moved
<1>9. /\ hid' = IF Lead(Loop) = "closeHid" THEN "none" ELSE hid
      /\ keyboard' <=> keyboard /\ Lead(Loop) # "closeHid"
      /\ keyboard' \in BOOLEAN /\ indigo' \in {"none", "new", "open"}
  BY <1>1, <1>3, <1>4 DEF Forgets
<1> QED
  BY <1>2, <1>4, <1>5, <1>8, <1>9

(* What is left of a gesture after a failure.                                *)
LEMMA RemainingIs ==
  ASSUME Typed, Gesture # <<>>, Lead(Gesture) \in Suppressed
  PROVE  /\ Remaining("gesture") \in Seq(Operation)
         /\ Lead(Gesture) # "finalKeys" => Remaining("gesture") = Tail(Gesture)
         /\ Lead(Gesture) = "finalKeys" =>
              Remaining("gesture") = <<>> \/ Remaining("gesture") = <<Op("closeService")>>
<1>1. TaskType
  BY DEF Typed
<1>2. /\ Now("gesture").op = Lead(Gesture) /\ Rest("gesture") = Tail(Gesture)
      /\ Tail(Gesture) \in Seq(Operation)
  BY <1>1, GestureNow
<1>3. Op("closeService") \in Operation
  BY OperationType DEF OpNames, Awaited, Suppressed
<1>4. <<>> \in Seq(Operation) /\ <<Op("closeService")>> \in Seq(Operation)
  BY <1>3
<1> QED
  BY <1>2, <1>4 DEF Remaining

(* A failure in a gesture, which is suppressed or ends its body.             *)
LEMMA GestureFails ==
  ASSUME Typed, GestureShape, Fails("gesture")
  PROVE  LET x == Lead(Gesture)
         IN /\ TaskType' /\ Gesture # <<>> /\ GestureAt = "await"
            /\ Unsure(x)
            /\ x \in Suppressed => GestureMoves(Remaining("gesture"), "run")
            /\ x \notin Suppressed => GestureMoves(<<>>, "run")
            /\ UNCHANGED <<focused, enabled, hid, keyboard, indigo, contact, homeDown, held,
                           reported, gesture, closing>>
<1>1. /\ TaskType /\ "gesture" \in Tasks /\ PhoneType /\ keyboard \in BOOLEAN /\ ModeType
  BY LoopNow DEF Typed, ServiceType
<1>2. GestureAt = "await" /\ Gesture # <<>>
  BY <1>1, GestureNow, Parts DEF Fails
<1>3. /\ Now("gesture").op = Lead(Gesture) /\ task["gesture"].todo # <<>>
  BY <1>1, <1>2, GestureNow
<1>4. /\ NoAnswer("gesture") /\ Forgets("gesture")
      /\ UNCHANGED <<focused, enabled, contact, homeDown, held, reported, gesture, closing>>
      /\ IF Lead(Gesture) \in Suppressed THEN Continue("gesture", Remaining("gesture"))
                                         ELSE Continue("gesture", <<>>)
  BY <1>3 DEF Fails, record
<1>5. Unsure(Lead(Gesture))
  BY <1>1, <1>3, <1>4, NoAnswerIs
<1>6. Lead(Gesture) \notin {"closeHid", "closeIndigo"}
  BY <1>1, <1>2, GestureNames
     DEF GestureOps, ScrollOps, HomeOps, ShortcutOps, ShortcutFinals
<1>7. <<>> \in Seq(Operation)
  OBVIOUS
<1>8. /\ Lead(Gesture) \in Suppressed =>
           TaskType' /\ GestureMoves(Remaining("gesture"), "run")
      /\ Lead(Gesture) \notin Suppressed => TaskType' /\ GestureMoves(<<>>, "run")
  BY <1>1, <1>2, <1>4, <1>7, ContinueIs, RemainingIs DEF Moved
<1>9. UNCHANGED <<hid, keyboard, indigo>>
  BY <1>1, <1>3, <1>4, <1>6 DEF Forgets
<1> QED
  BY <1>2, <1>4, <1>5, <1>8, <1>9

(* The loop creates the task of a gesture.                                   *)
LEMMA StartDoes ==
  ASSUME Typed, LoopShape, Start
  PROVE  /\ TaskType' /\ Loop # <<>> /\ LoopAt = "run" /\ Lead(Loop) \in Gestures
         /\ gesture' = Lead(Loop) /\ Loop' = Tail(Loop) /\ LoopAt' = "run"
         /\ LoopFinal' = LoopFinal /\ Gesture' = Body(Lead(Loop))
         /\ GestureFinal' = Final(Lead(Loop)) /\ GestureAt' = "ready"
         /\ UNCHANGED <<focused, enabled, hid, keyboard, indigo, contact, homeDown, held,
                        reported, closing, phone, doubt>>
<1>1. TaskType /\ "loop" \in Tasks
  BY LoopNow DEF Typed
<1>2. /\ Loop # <<>> /\ ~Waiting("loop") /\ Now("loop").op \in Starts
      /\ gesture' = Now("loop").op
      /\ task' = [loop |-> [task["loop"] EXCEPT !.todo = Rest("loop")],
                  gesture |-> [todo |-> Body(Now("loop").op), final |-> Final(Now("loop").op),
                               at |-> "ready"]]
      /\ UNCHANGED <<focused, enabled, hid, keyboard, indigo, contact, homeDown, held,
                     reported, closing, phone, doubt>>
  BY <1>1, RunningIs, LoopNow DEF Start, services, record
<1>3. /\ Now("loop").op = Lead(Loop) /\ Rest("loop") = Tail(Loop)
      /\ Tail(Loop) \in Seq(Operation)
  BY <1>1, <1>2, LoopNow
<1>4. Lead(Loop) \in Gestures
  BY <1>2, <1>3 DEF Starts
<1>5. LoopAt = "run"
  BY <1>1, <1>2, LoopNow, Parts DEF LoopShape
<1> DEFINE g == Lead(Loop)
           r == Tail(Loop)
<1>6. /\ Body(g) \in Seq(Operation) /\ Final(g) \in Seq(Operation) /\ Body(g) # <<>>
  BY <1>4, BodyList, FinalList
<1>7. task' = [loop |-> [task["loop"] EXCEPT !.todo = r],
               gesture |-> [todo |-> Body(g), final |-> Final(g), at |-> "ready"]]
  BY <1>2, <1>3
<1>8. task["loop"] \in [todo : Seq(Operation), final : Seq(Operation),
                        at : {"run", "ready", "await"}]
  BY <1>1 DEF TaskType
<1> HIDE DEF g, r
<1>9. /\ task'["loop"].todo = r /\ task'["loop"].at = LoopAt
      /\ task'["loop"].final = LoopFinal
      /\ task'["gesture"].todo = Body(g) /\ task'["gesture"].at = "ready"
      /\ task'["gesture"].final = Final(g)
  BY <1>7, <1>8 DEF LoopAt, LoopFinal
<1>10. task' \in [Tasks -> [todo : Seq(Operation), final : Seq(Operation),
                            at : {"run", "ready", "await"}]]
  <2>1. r \in Seq(Operation)
    BY <1>3 DEF r
  <2> QED
    BY <1>6, <1>7, <1>8, <2>1 DEF Tasks, g
<1>11. TaskType'
  BY <1>5, <1>9, <1>10 DEF TaskType, Waiting, Tasks
<1> QED
  BY <1>2, <1>3, <1>4, <1>5, <1>9, <1>11
     DEF g, r, Loop, LoopAt, LoopFinal, Gesture, GestureAt, GestureFinal

\* The gesture has gone to its finally, or it never begins.
Dropped ==
  /\ Gesture' = IF GestureAt = "ready" THEN <<>> ELSE GestureFinal
  /\ GestureFinal' = <<>> /\ GestureAt' = "run"

(* A gesture leaves the rest out.                                            *)
LEMMA UnwoundIs ==
  ASSUME TaskType, NEW t \in Tasks
  PROVE  /\ Unwound(t) \in [todo : Seq(Operation), final : Seq(Operation),
                            at : {"run", "ready", "await"}]
         /\ Unwound(t).todo = IF task[t].at = "ready" THEN <<>> ELSE task[t].final
         /\ Unwound(t).final = <<>> /\ Unwound(t).at = "run"
<1>1. <<>> \in Seq(Operation) /\ task[t].final \in Seq(Operation)
  BY DEF TaskType
<1> QED
  BY <1>1 DEF Unwound, Absent

(* The body of a gesture is over, or its finally.                            *)
LEMMA FinallyDoes ==
  ASSUME Typed, Finally
  PROVE  /\ TaskType' /\ Gesture = <<>> /\ GestureAt = "run" /\ gesture # "none"
         /\ gesture' = IF GestureFinal = <<>> THEN "none" ELSE gesture
         /\ Gesture' = GestureFinal /\ GestureFinal' = <<>> /\ GestureAt' = "run"
         /\ UNCHANGED <<Loop, LoopAt, LoopFinal>>
         /\ UNCHANGED <<focused, enabled, hid, keyboard, indigo, contact, homeDown, held,
                        reported, closing, phone, doubt>>
<1>1. TaskType /\ "gesture" \in Tasks
  BY LoopNow DEF Typed
<1>2. /\ Gesture = <<>> /\ GestureAt = "run" /\ gesture # "none"
      /\ gesture' = IF GestureFinal = <<>> THEN "none" ELSE gesture
      /\ task' = [task EXCEPT !["gesture"] = Unwound("gesture")]
      /\ UNCHANGED <<focused, enabled, hid, keyboard, indigo, contact, homeDown, held,
                     reported, closing, phone, doubt>>
  BY DEF Finally, Busy, Gesture, GestureAt, GestureFinal, services, record
<1>3. /\ task' \in [Tasks -> [todo : Seq(Operation), final : Seq(Operation),
                              at : {"run", "ready", "await"}]]
      /\ task'["gesture"].todo = GestureFinal /\ task'["gesture"].final = <<>>
      /\ task'["gesture"].at = "run" /\ task'["loop"] = task["loop"]
  BY <1>1, <1>2, UnwoundIs DEF TaskType, Tasks, GestureFinal, GestureAt
<1>4. TaskType'
  BY <1>1, <1>3 DEF TaskType, Waiting, Tasks
<1> QED
  BY <1>2, <1>3, <1>4
     DEF Loop, LoopAt, LoopFinal, Gesture, GestureAt, GestureFinal

(* The loop interrupts the gesture and waits for it.                         *)
LEMMA InterruptGesture ==
  ASSUME Typed, Loop # <<>>, Interrupt("gesture")
  PROVE  /\ TaskType' /\ PhoneType' /\ Dropped
         /\ Loop' = Loop /\ LoopFinal' = LoopFinal /\ LoopAt' = "await"
         /\ GestureAt = "await" => Unsure(Lead(Gesture))
         /\ GestureAt # "await" => UNCHANGED <<phone, doubt>>
<1>1. TaskType /\ PhoneType /\ "gesture" \in Tasks /\ "loop" \in Tasks
  BY LoopNow DEF Typed
<1>2. /\ task' = [task EXCEPT !["gesture"] = Unwound("gesture"), !["loop"].at = "await"]
      /\ GestureAt = "await" => NoAnswer("gesture")
      /\ GestureAt # "await" => UNCHANGED <<phone, doubt>>
  BY <1>1, GestureNow DEF Interrupt
<1>3. GestureAt = "await" => Gesture # <<>> /\ Now("gesture").op = Lead(Gesture)
  BY <1>1, Parts, GestureNow
<1>4. GestureAt = "await" => Unsure(Lead(Gesture))
  BY <1>1, <1>2, <1>3, NoAnswerIs, GestureNow
<1>5. PhoneType'
  BY <1>1, <1>2, <1>4 DEF PhoneType, Unsure
<1>6. /\ task' \in [Tasks -> [todo : Seq(Operation), final : Seq(Operation),
                              at : {"run", "ready", "await"}]]
      /\ task'["gesture"].todo = IF GestureAt = "ready" THEN <<>> ELSE GestureFinal
      /\ task'["gesture"].final = <<>> /\ task'["gesture"].at = "run"
      /\ task'["loop"].todo = Loop /\ task'["loop"].final = LoopFinal
      /\ task'["loop"].at = "await"
  BY <1>1, <1>2, UnwoundIs DEF TaskType, Tasks, GestureFinal, GestureAt, Loop, LoopFinal
<1>7. TaskType'
  BY <1>6 DEF TaskType, Waiting, Tasks
<1> QED
  BY <1>2, <1>4, <1>5, <1>6, <1>7
     DEF Dropped, Loop, LoopAt, LoopFinal, Gesture, GestureAt, GestureFinal

(* The loop itself is interrupted.                                           *)
LEMMA InterruptLoop ==
  ASSUME Typed, LoopShape, Interrupt("loop")
  PROVE  /\ TaskType' /\ PhoneType'
         /\ Loop' = LoopFinal /\ LoopFinal' = <<>> /\ LoopAt' = "run"
         /\ UNCHANGED <<Gesture, GestureAt, GestureFinal>>
         /\ LoopAt = "await" => Loop # <<>> /\ Unsure(Lead(Loop))
         /\ LoopAt # "await" => UNCHANGED <<phone, doubt>>
<1>1. TaskType /\ PhoneType /\ "gesture" \in Tasks /\ "loop" \in Tasks
  BY LoopNow DEF Typed
<1>2. /\ task' = [task EXCEPT !["loop"] = Unwound("loop"), !["loop"].at = "run"]
      /\ LoopAt = "await" => NoAnswer("loop")
      /\ LoopAt # "await" => UNCHANGED <<phone, doubt>>
  BY <1>1, LoopNow DEF Interrupt
<1>3. LoopAt = "await" => Loop # <<>> /\ Now("loop").op = Lead(Loop)
  BY <1>1, Parts, LoopNow
<1>4. LoopAt = "await" => Unsure(Lead(Loop))
  BY <1>1, <1>2, <1>3, NoAnswerIs, LoopNow
<1>5. PhoneType'
  BY <1>1, <1>2, <1>4 DEF PhoneType, Unsure
<1>6. /\ task' \in [Tasks -> [todo : Seq(Operation), final : Seq(Operation),
                              at : {"run", "ready", "await"}]]
      /\ task'["loop"].todo = LoopFinal
      /\ task'["loop"].final = <<>> /\ task'["loop"].at = "run"
      /\ task'["gesture"] = task["gesture"]
  BY <1>1, <1>2, UnwoundIs DEF TaskType, Tasks, LoopFinal, LoopAt, LoopShape
<1>7. TaskType'
  BY <1>1, <1>6 DEF TaskType, Waiting, Tasks
<1> QED
  BY <1>2, <1>3, <1>4, <1>5, <1>6, <1>7
     DEF Loop, LoopAt, LoopFinal, Gesture, GestureAt, GestureFinal

(* release() begins: there is no gesture, or it is cancelled.                *)
LEMMA JoinDoes ==
  ASSUME Typed, LoopShape, Join
  PROVE  /\ TaskType' /\ PhoneType' /\ Loop # <<>> /\ Lead(Loop) = "join"
         /\ LoopAt = "run" /\ gesture' = "none"
         /\ GestureAt = "run" => gesture = "none" /\ Gesture = <<>>
         /\ UNCHANGED <<focused, enabled, hid, keyboard, indigo, contact, homeDown, reported,
                        closing>>
         /\ \/ /\ gesture = "none" /\ LoopMoves(Tail(Loop), "run") /\ held' = {}
               /\ UNCHANGED <<phone, doubt>>
            \/ /\ gesture # "none" /\ Dropped /\ held' = held
               /\ Loop' = Loop /\ LoopFinal' = LoopFinal /\ LoopAt' = "await"
               /\ GestureAt = "await" => Unsure(Lead(Gesture))
               /\ GestureAt # "await" => UNCHANGED <<phone, doubt>>
<1>1. TaskType /\ "loop" \in Tasks /\ PhoneType
  BY LoopNow DEF Typed
<1>2. /\ Loop # <<>> /\ ~Waiting("loop") /\ Now("loop").op = "join" /\ MayRun("loop")
  BY <1>1, RunningIs, LoopNow DEF Join
<1>3. /\ Lead(Loop) = "join" /\ Rest("loop") = Tail(Loop) /\ Tail(Loop) \in Seq(Operation)
      /\ LoopAt = "run"
  BY <1>1, <1>2, LoopNow, Parts DEF LoopShape
<1>4. /\ gesture' = "none"
      /\ UNCHANGED <<focused, enabled, hid, keyboard, indigo, contact, homeDown, reported,
                     closing>>
  BY DEF Join, services
<1>5. GestureAt = "run" => gesture = "none" /\ Gesture = <<>>
  BY <1>1, <1>2, MayRunIs
<1>6. CASE gesture = "none"
  <2>1. Continue("loop", Tail(Loop)) /\ held' = {} /\ UNCHANGED <<phone, doubt>>
    BY <1>3, <1>6 DEF Join
  <2>2. TaskType' /\ LoopMoves(Tail(Loop), "run")
    BY <1>1, <1>3, <2>1, ContinueIs DEF Moved
  <2>3. PhoneType'
    BY <1>1, <2>1 DEF PhoneType
  <2> QED
    BY <1>2, <1>3, <1>4, <1>5, <1>6, <2>1, <2>2, <2>3
<1>7. CASE gesture # "none"
  <2>1. Interrupt("gesture") /\ held' = held
    BY <1>7 DEF Join
  <2> QED
    BY <1>2, <1>3, <1>4, <1>5, <1>7, <2>1, InterruptGesture
<1> QED
  BY <1>6, <1>7

(* The gesture that was cancelled has ended.                                 *)
LEMMA JoinedDoes ==
  ASSUME Typed, Joined
  PROVE  /\ TaskType' /\ Loop # <<>> /\ Lead(Loop) = "join" /\ LoopAt = "await"
         /\ Gesture = <<>> /\ GestureFinal = <<>> /\ GestureAt = "run"
         /\ LoopMoves(Tail(Loop), "run") /\ held' = {}
         /\ UNCHANGED <<focused, enabled, hid, keyboard, indigo, contact, homeDown, reported,
                        gesture, closing, phone, doubt>>
<1>1. TaskType /\ "loop" \in Tasks
  BY LoopNow DEF Typed
<1>2. LoopAt = "await" /\ Loop # <<>>
  BY <1>1, LoopNow, Parts DEF Joined
<1>3. /\ Lead(Loop) = "join" /\ Rest("loop") = Tail(Loop) /\ Tail(Loop) \in Seq(Operation)
  BY <1>1, <1>2, LoopNow DEF Joined
<1>4. Continue("loop", Tail(Loop))
  BY <1>3 DEF Joined
<1>5. TaskType' /\ LoopMoves(Tail(Loop), "run")
  BY <1>1, <1>3, <1>4, ContinueIs DEF Moved
<1>6. Gesture = <<>> /\ GestureFinal = <<>> /\ GestureAt = "run"
  BY DEF Joined, Absent, Gesture, GestureFinal, GestureAt
<1>7. /\ held' = {}
      /\ UNCHANGED <<focused, enabled, hid, keyboard, indigo, contact, homeDown, reported,
                     gesture, closing, phone, doubt>>
  BY DEF Joined, services
<1> QED
  BY <1>2, <1>3, <1>5, <1>6, <1>7

\* The loop has been interrupted.
Cut ==
  /\ Loop' = LoopFinal /\ LoopFinal' = <<>> /\ LoopAt' = "run"
  /\ UNCHANGED <<Gesture, GestureAt, GestureFinal>>
  /\ LoopAt = "await" => Unsure(Lead(Loop))
  /\ LoopAt # "await" => UNCHANGED <<phone, doubt>>

(* close_session cancels the input task.                                     *)
LEMMA CancelDoes ==
  ASSUME Typed, LoopShape, Cancel
  PROVE  /\ TaskType' /\ PhoneType' /\ closing = "no" /\ closing' = "asked"
         /\ GestureAt = "run" => gesture = "none" /\ Gesture = <<>>
         /\ LoopAt = "run" => Loop = <<>>
         /\ UNCHANGED <<focused, enabled, hid, keyboard, indigo, contact, homeDown, held,
                        reported, gesture>>
         /\ \/ Still /\ UNCHANGED <<phone, doubt>>
            \/ /\ Joining /\ Dropped /\ Loop' = Loop /\ LoopFinal' = LoopFinal
               /\ LoopAt' = "await"
               /\ GestureAt = "await" => Unsure(Lead(Gesture))
               /\ GestureAt # "await" => UNCHANGED <<phone, doubt>>
            \/ ~Joining /\ Cut
<1>1. TaskType /\ "loop" \in Tasks /\ PhoneType
  BY LoopNow DEF Typed
<1>2. /\ closing = "no" /\ closing' = "asked" /\ \A t \in Tasks : ~Busy(t)
      /\ UNCHANGED <<focused, enabled, hid, keyboard, indigo, contact, homeDown, held,
                     reported, gesture>>
  BY DEF Cancel, services, record
<1>3. /\ GestureAt = "run" => gesture = "none" /\ Gesture = <<>>
      /\ LoopAt = "run" => Loop = <<>>
  BY <1>1, <1>2, MayRunIs
<1>4. Waiting("loop") /\ Now("loop").op = "join" <=> Joining
  <2>1. LoopAt = "await" => Now("loop").op = Lead(Loop)
    BY <1>1, LoopNow, Parts
  <2> QED
    BY <1>1, <2>1, LoopNow DEF Joining
<1>5. Joining => Loop # <<>> /\ ~LoopEnded
  BY <1>1, Parts DEF Joining, LoopEnded, Loop
<1>6. UNCHANGED <<task, phone, doubt>> => TaskType' /\ PhoneType' /\ Still
  BY <1>1, StillIs DEF PhoneType
<1>7. CASE LoopEnded
  <2>1. UNCHANGED <<task, phone, doubt>>
    BY <1>4, <1>5, <1>7 DEF Cancel
  <2> QED
    BY <1>2, <1>3, <1>6, <2>1
<1>8. CASE Joining
  <2>1. UNCHANGED <<task, phone, doubt>> \/ Interrupt("gesture")
    BY <1>4, <1>5, <1>8 DEF Cancel
  <2> QED
    BY <1>2, <1>3, <1>5, <1>6, <1>8, <2>1, InterruptGesture
<1>9. CASE ~LoopEnded /\ ~Joining
  <2>1. Interrupt("loop")
    BY <1>4, <1>9 DEF Cancel
  <2> QED
    BY <1>2, <1>3, <1>9, <2>1, InterruptLoop DEF Cut
<1> QED
  BY <1>7, <1>8, <1>9

(* The bridge is closed once more.                                           *)
LEMMA BridgeCloseDoes ==
  ASSUME Typed, LoopShape, BridgeClose
  PROVE  /\ TaskType' /\ closing = "asked" /\ closing' = "bridge"
         /\ Loop = <<>> /\ LoopFinal = <<>> /\ LoopMoves(Close, "run")
         /\ UNCHANGED <<focused, enabled, hid, keyboard, indigo, contact, homeDown, held,
                        reported, gesture, phone, doubt>>
<1>1. TaskType
  BY DEF Typed
<1>2. /\ closing = "asked" /\ closing' = "bridge" /\ Loop = <<>> /\ LoopFinal = <<>>
      /\ task' = [task EXCEPT !["loop"].todo = Close]
      /\ UNCHANGED <<focused, enabled, hid, keyboard, indigo, contact, homeDown, held,
                     reported, gesture, phone, doubt>>
  BY DEF BridgeClose, LoopEnded, services, record, Loop, LoopFinal
<1>3. LoopAt = "run"
  BY <1>1, <1>2, Parts DEF LoopShape
<1>4. /\ task' \in [Tasks -> [todo : Seq(Operation), final : Seq(Operation),
                              at : {"run", "ready", "await"}]]
      /\ task'["loop"].todo = Close /\ task'["loop"].at = "run"
      /\ task'["loop"].final = task["loop"].final
      /\ task'["gesture"] = task["gesture"]
  BY <1>1, <1>2, <1>3, CloseList DEF TaskType, Tasks, LoopAt
<1>5. TaskType'
  BY <1>1, <1>4 DEF TaskType, Waiting, Tasks
<1> QED
  BY <1>2, <1>4, <1>5
     DEF LoopMoves, Loop, LoopAt, LoopFinal, Gesture, GestureAt, GestureFinal

(* The bridge is closed, or its time is over.                                *)
LEMMA BridgeClosedDoes ==
  ASSUME Typed, LoopShape, BridgeClosed
  PROVE  /\ TaskType' /\ PhoneType' /\ closing = "bridge" /\ closing' = "done"
         /\ UNCHANGED <<focused, enabled, hid, keyboard, indigo, contact, homeDown, held,
                        reported, gesture>>
         /\ \/ Still /\ Loop = <<>> /\ LoopFinal = <<>> /\ UNCHANGED <<phone, doubt>>
            \/ LoopAt = "await" /\ Cut
<1>1. TaskType /\ PhoneType
  BY DEF Typed
<1>2. /\ closing = "bridge" /\ closing' = "done"
      /\ UNCHANGED <<focused, enabled, hid, keyboard, indigo, contact, homeDown, held,
                     reported, gesture>>
      /\ IF LoopEnded THEN UNCHANGED <<task, phone, doubt>>
                      ELSE Waiting("loop") /\ Interrupt("loop")
  BY DEF BridgeClosed, services, record
<1>3. CASE LoopEnded
  BY <1>1, <1>2, <1>3, StillIs DEF PhoneType, LoopEnded, Loop, LoopFinal
<1>4. CASE ~LoopEnded
  BY <1>1, <1>2, <1>4, InterruptLoop, LoopNow DEF Cut
<1> QED
  BY <1>3, <1>4

(* mpv has exited.                                                           *)
LEMMA EndOfFileDoes ==
  ASSUME Typed, EndOfFile
  PROVE  /\ TaskType' /\ Loop = <<>> /\ LoopFinal # <<>>
         /\ Loop' = Close /\ LoopFinal' = <<>> /\ LoopAt' = "run"
         /\ UNCHANGED <<Gesture, GestureAt, GestureFinal>>
         /\ UNCHANGED <<focused, enabled, hid, keyboard, indigo, contact, homeDown, held,
                        reported, gesture, closing, phone, doubt>>
<1>1. TaskType
  BY DEF Typed
<1>2. /\ Loop = <<>> /\ LoopFinal # <<>>
      /\ task' = [task EXCEPT !["loop"] = [todo |-> Close, final |-> <<>>, at |-> "run"]]
      /\ UNCHANGED <<focused, enabled, hid, keyboard, indigo, contact, homeDown, held,
                     reported, gesture, closing, phone, doubt>>
  BY DEF EndOfFile, Reading, services, record, Loop, LoopFinal
<1>3. <<>> \in Seq(Operation)
  OBVIOUS
<1>4. [todo |-> Close, final |-> <<>>, at |-> "run"]
        \in [todo : Seq(Operation), final : Seq(Operation), at : {"run", "ready", "await"}]
  BY <1>3, CloseList
<1>5. /\ task' \in [Tasks -> [todo : Seq(Operation), final : Seq(Operation),
                              at : {"run", "ready", "await"}]]
      /\ task'["loop"].todo = Close /\ task'["loop"].at = "run"
      /\ task'["loop"].final = <<>>
      /\ task'["gesture"] = task["gesture"]
  BY <1>1, <1>2, <1>4 DEF TaskType, Tasks
<1>6. TaskType'
  BY <1>1, <1>5 DEF TaskType, Waiting, Tasks
<1> QED
  BY <1>2, <1>5, <1>6 DEF Loop, LoopAt, LoopFinal, Gesture, GestureAt, GestureFinal

Reads == \/ Focus \/ MouseLeaves \/ MouseDrags \/ Reconnects \/ Touches \/ Toolbar
         \/ Pastes \/ Cancelled \/ Wheel \/ Types

\* The loop may perform x once the step is done.
OkAfter(x) ==
  /\ x.op \in Acts => Active' /\ gesture' \in {"none", "scroll"}
  /\ x.op \in Pointing => gesture' = "none"
  /\ x.op \in Connecting => focused'
  /\ x.op = "hold" => x.keys \in Chords
  /\ x.op = "clearKeys" => x.keys = {}

\* The loop has read an event whose program is s.
Read(s) ==
  /\ TaskType' /\ LoopMoves(s, "run")
  /\ Loop = <<>> /\ LoopFinal # <<>> /\ LoopAt = "run"
  /\ UNCHANGED <<enabled, hid, keyboard, indigo, contact, homeDown, held, reported,
                 gesture, closing, phone, doubt>>
  /\ focused' \in BOOLEAN /\ Linked("loop", s)
  /\ Lead(s) \in {"stop", "join", "move", "ensure", "untouch", "scroll"}
  /\ \A i \in 1..Len(s) : OkAfter(s[i])
  /\ Lead(s) = "move" => contact
  /\ Lead(s) = "stop" => focused'
  /\ Lead(s) # "join" => focused'

(* An event becomes a list that the loop may perform.                        *)
LEMMA ReadIs ==
  ASSUME Typed, Shape, NEW s \in Seq(Operation), Handle(s), focused' \in BOOLEAN,
         Linked("loop", s),
         Lead(s) \in {"stop", "join", "move", "ensure", "untouch", "scroll"},
         Lead(s) = "move" => contact, Lead(s) # "join" => focused',
         gesture' = gesture /\ enabled' = enabled => \A i \in 1..Len(s) : OkAfter(s[i])
  PROVE  Read(s)
<1>1. TaskType /\ LoopAt # "ready"
  BY DEF Typed, Shape, LoopShape
<1>2. /\ TaskType' /\ Moved("loop", s, "run")
      /\ Loop = <<>> /\ LoopFinal # <<>> /\ LoopAt = "run"
      /\ UNCHANGED <<enabled, hid, keyboard, indigo, contact, homeDown, held, reported,
                     gesture, closing, phone, doubt>>
  BY <1>1, HandleDoes
<1> QED
  BY <1>2 DEF Read, Moved

(* A harmless operation may be performed at any time.                        *)
LEMMA QuietOk ==
  ASSUME NEW s, Quiet(s)
  PROVE  \A i \in 1..Len(s) : OkAfter(s[i])
<1>1. "hold" \in Acts /\ Pointing \subseteq Acts
  BY DEF Acts, Typing
<1> QED
  BY <1>1 DEF Quiet, Harmless, OkAfter

(* Each event gives the loop such a list.                                    *)
LEMMA ReadsDoes ==
  ASSUME Typed, Shape, Reads
  PROVE  \E s \in Seq(Operation) : Read(s)
<1>0. focused \in BOOLEAN /\ enabled \in BOOLEAN
  BY DEF Typed, ModeType
<1>a. ASSUME Handle(Release), focused' \in BOOLEAN
      PROVE  \E s \in Seq(Operation) : Read(s)
  <2>1. \A i \in 1..Len(Release) : OkAfter(Release[i])
    BY ReleaseList, QuietOk
  <2>2. Read(Release)
    BY <1>a, <2>1, ReleaseList, ReadIs
  <2> QED
    BY <2>2, ReleaseList
<1>1. CASE Focus
  <2>1. PICK b \in BOOLEAN : focused' = b /\ Handle(IF b THEN <<>> ELSE Release)
    BY <1>1 DEF Focus
  <2>2. CASE b
    <3>1. /\ <<>> \in Seq(Operation) /\ Linked("loop", <<>>) /\ Lead(<<>>) = "stop"
          /\ Len(<<>>) = 0
      BY DEF Linked, Chain, Lead
    <3>2. Handle(<<>>) /\ focused' = TRUE
      BY <2>1, <2>2
    <3>3. \A i \in 1..Len(<<>>) : OkAfter(<<>>[i])
      BY <3>1
    <3>4. Read(<<>>)
      BY <3>1, <3>2, <3>3, ReadIs
    <3> QED
      BY <3>1, <3>4
  <2>3. CASE ~b
    BY <1>a, <2>1, <2>3
  <2> QED
    BY <2>2, <2>3
<1>2. CASE MouseLeaves
  BY <1>0, <1>2, <1>a DEF MouseLeaves
<1>3. CASE Cancelled
  BY <1>0, <1>3, <1>a DEF Cancelled
<1>b. ASSUME NEW s \in Seq(Operation), Handle(s), focused' = focused, Active,
             gesture = "none", Linked("loop", s),
             Lead(s) \in {"join", "move", "ensure", "untouch", "scroll"},
             Lead(s) = "move" => contact,
             \A i \in 1..Len(s) : s[i].op \notin {"hold", "clearKeys"}
      PROVE  Read(s)
  <2>1. ASSUME gesture' = gesture /\ enabled' = enabled, NEW i \in 1..Len(s)
        PROVE  OkAfter(s[i])
    BY <1>b, <2>1 DEF OkAfter, Active
  <2>2. focused'
    BY <1>b DEF Active
  <2> QED
    BY <1>0, <1>b, <2>1, <2>2, ReadIs
<1>4. CASE MouseDrags
  <2> DEFINE s == <<Op("move")>>
  <2>1. s \in Seq(Operation) /\ Linked("loop", s) /\ Lead(s) = "move"
        /\ Len(s) = 1 /\ s[1].op = "move"
    BY TouchLists
  <2>2. /\ Handle(s) /\ focused' = focused /\ Active /\ gesture = "none" /\ contact
    BY <1>4 DEF MouseDrags
  <2> HIDE DEF s
  <2> QED
    BY <1>b, <2>1, <2>2
<1>5. CASE Wheel
  <2> DEFINE s == <<Op("scroll")>>
  <2>1. s \in Seq(Operation) /\ Linked("loop", s) /\ Lead(s) = "scroll"
        /\ Len(s) = 1 /\ s[1].op = "scroll"
    BY TouchLists
  <2>2. /\ Handle(s) /\ focused' = focused /\ Active /\ gesture = "none"
    BY <1>5 DEF Wheel
  <2> HIDE DEF s
  <2> QED
    BY <1>b, <2>1, <2>2
<1>6. CASE Reconnects
  <2> DEFINE s == <<Op("ensure"), Op("enable")>>
  <2>1. s \in Seq(Operation) /\ Linked("loop", s) /\ Lead(s) = "ensure"
        /\ Len(s) = 2 /\ s[1].op = "ensure" /\ s[2].op = "enable"
    BY TouchLists
  <2>2. Handle(s) /\ focused' = focused /\ focused
    BY <1>6 DEF Reconnects
  <2> HIDE DEF s
  <2>3. \A i \in 1..Len(s) : OkAfter(s[i])
    <3>1. \A i \in 1..Len(s) : s[i].op \in {"ensure", "enable"}
      BY <2>1
    <3>2. /\ {"ensure", "enable"} \cap Acts = {} /\ {"ensure", "enable"} \cap Pointing = {}
      BY DEF Acts, Typing, Pointing, Starts, Gestures
    <3> QED
      BY <2>2, <3>1, <3>2 DEF OkAfter
  <2>4. Read(s)
    BY <1>0, <2>1, <2>2, <2>3, ReadIs
  <2> QED
    BY <2>1, <2>4
<1>7. CASE Touches
  <2>1. Active /\ gesture = "none" /\ focused' = focused
    BY <1>7 DEF Touches
  <2>2. CASE Handle(<<Op("ensure"), Op("touch")>>)
    <3> DEFINE s == <<Op("ensure"), Op("touch")>>
    <3>1. /\ s \in Seq(Operation) /\ Linked("loop", s) /\ Lead(s) = "ensure"
          /\ Len(s) = 2 /\ s[1].op = "ensure" /\ s[2].op = "touch" /\ Handle(s)
      BY <2>2, TouchLists
    <3> HIDE DEF s
    <3> QED
      BY <1>b, <2>1, <3>1
  <2>3. CASE Handle(<<Op("ensure"), Op("touch"), Op("untouch")>>)
    <3> DEFINE s == <<Op("ensure"), Op("touch"), Op("untouch")>>
    <3>1. /\ s \in Seq(Operation) /\ Linked("loop", s) /\ Lead(s) = "ensure" /\ Len(s) = 3
          /\ s[1].op = "ensure" /\ s[2].op = "touch" /\ s[3].op = "untouch" /\ Handle(s)
      BY <2>3, TouchLists
    <3> HIDE DEF s
    <3> QED
      BY <1>b, <2>1, <3>1
  <2>4. CASE Handle(<<Op("untouch")>>)
    <3> DEFINE s == <<Op("untouch")>>
    <3>1. /\ s \in Seq(Operation) /\ Linked("loop", s) /\ Lead(s) = "untouch"
          /\ Len(s) = 1 /\ s[1].op = "untouch" /\ Handle(s)
      BY <2>4, TouchLists
    <3> HIDE DEF s
    <3> QED
      BY <1>b, <2>1, <3>1
  <2> QED
    BY <1>7, <2>2, <2>3, <2>4 DEF Touches
<1>c. ASSUME NEW g \in {"home", "search", "paste"}, Active, gesture = "none",
             focused' = focused, Handle(Release \o <<Op(g)>>)
      PROVE  \E s \in Seq(Operation) : Read(s)
  <2> DEFINE s == Release \o <<Op(g)>>
  <2>1. g \in Starts \ {"scroll"}
    BY DEF Starts, Gestures
  <2>2. /\ s \in Seq(Operation) /\ Linked("loop", s) /\ Lead(s) = "join"
        /\ \A i \in 1..Len(s) : Harmless(s[i]) \/ s[i].op = g
    BY <2>1, GestureList
  <2>3. Handle(s)
    BY <1>c
  <2> HIDE DEF s
  <2>4. ASSUME gesture' = gesture /\ enabled' = enabled, NEW i \in 1..Len(s)
        PROVE  OkAfter(s[i])
    <3>1. Harmless(s[i]) \/ s[i].op \in {"home", "search", "paste"}
      BY <2>2
    <3>2. "hold" \in Acts /\ Pointing \subseteq Acts
      BY DEF Acts, Typing
    <3>3. "home" \notin Connecting /\ "search" \notin Connecting /\ "paste" \notin Connecting
      BY DEF Connecting
    <3> QED
      BY <1>c, <2>4, <3>1, <3>2, <3>3 DEF Harmless, OkAfter, Active
  <2>5. Read(s)
    BY <1>0, <1>c, <2>2, <2>3, <2>4, ReadIs
  <2> QED
    BY <2>2, <2>5
<1>8. CASE Toolbar
  BY <1>8, <1>c DEF Toolbar
<1>9. CASE Pastes
  BY <1>9, <1>c DEF Pastes
<1>10. CASE Types
  <2>1. PICK c \in Chords :
          LET down == WithKeyboard \o <<Keys("hold", c), Op("reportHeld")>>
              up == <<Keys("letGo", c), Op("reportHeld")>>
          IN Handle(down) \/ Handle(down \o up) \/ Handle(WithKeyboard \o up)
    BY <1>10 DEF Types
  <2>2. Active /\ gesture \in {"none", "scroll"} /\ focused' = focused
    BY <1>10 DEF Types, Typable
  <2>3. PICK s \in LET down == WithKeyboard \o <<Keys("hold", c), Op("reportHeld")>>
                       up == <<Keys("letGo", c), Op("reportHeld")>>
                   IN {down, down \o up, WithKeyboard \o up} :
          Handle(s)
    BY <2>1
  <2>4. s \in Seq(Operation) /\ Linked("loop", s) /\ Lead(s) = "ensure" /\ TypesOnly(s)
    BY <2>3, TypeLists
  <2>5. ASSUME gesture' = gesture /\ enabled' = enabled, NEW i \in 1..Len(s)
        PROVE  OkAfter(s[i])
    BY <2>2, <2>4, <2>5 DEF OkAfter, Active, TypesOnly
  <2>6. Read(s)
    BY <1>0, <2>2, <2>3, <2>4, <2>5, ReadIs DEF Active
  <2> QED
    BY <2>4, <2>6
<1> QED
  BY <1>1, <1>2, <1>3, <1>4, <1>5, <1>6, <1>7, <1>8, <1>9, <1>10 DEF Reads

-----------------------------------------------------------------------------
(* The shape of the two lists.                                               *)

(* Nothing is left to a task that is through.                                *)
LEMMA EmptyList ==
  /\ <<>> \in Seq(Operation) /\ Lead(<<>>) = "stop" /\ Len(<<>>) = 0
  /\ \A k : Linked(k, <<>>)
  /\ \A ops, server : Armed(<<>>, ops, server)
  BY DEF Linked, Chain, Lead, Armed

(* A gesture's own list is of a kind, and so is that of a finally.           *)
LEMMA GestureKinds ==
  ASSUME ModeType
  PROVE  /\ gesture # "none" => gesture \in Kinds
         /\ "final" \in Kinds
  BY DEF Kinds, ModeType

(* The gesture goes on with a list of its kind.                              *)
LEMMA GestureGoes ==
  ASSUME Typed, Shape, TaskType', NEW s \in Seq(Operation), NEW at \in {"run", "await"},
         GestureMoves(s, at), Gesture # <<>>, UNCHANGED <<focused, enabled, gesture, closing>>,
         \A k \in Kinds : Linked(k, Gesture) => Linked(k, s)
  PROVE  Shape'
<1>1. LoopShape'
  BY DEF Shape, LoopShape, GestureMoves
<1>2. GestureShape'
  BY GestureKinds DEF Typed, Shape, GestureShape, GestureMoves
<1>3. ASSUME NEW i \in 1..Len(Loop), ActOk(Loop[i]) PROVE ActOk(Loop[i])'
  BY <1>3 DEF ActOk, Active, GestureMoves
<1>4. (\A i \in 1..Len(Loop) : ActOk(Loop[i]))'
  BY <1>3 DEF Shape, Apart, GestureMoves
<1>5. (Joining' <=> Joining) /\ (Releasing' <=> Releasing) /\ (Active' <=> Active)
      /\ (Settled' <=> Settled)
  BY DEF Joining, Releasing, Active, Settled, GestureMoves
<1>6. ~NoGesture /\ ~Settled
  BY DEF NoGesture, Shape, Apart
<1>7. gesture = "none" => Joining \/ closing = "done"
  BY DEF Shape, Apart
<1>8. Apart'
  BY <1>4, <1>5, <1>6, <1>7 DEF Shape, Apart, GestureMoves
<1> QED
  BY <1>1, <1>2, <1>8 DEF Shape

(* The loop goes on with a list that it may perform.                         *)
LEMMA LoopGoes ==
  ASSUME Typed, Shape, NEW s \in Seq(Operation), NEW at \in {"run", "await"},
         LoopMoves(s, at), Loop # <<>>, UNCHANGED <<focused, gesture, closing>>,
         Linked("loop", s), \A i \in 1..Len(s) : OkAfter(s[i]),
         Lead(s) = "disable" => \A i \in 1..Len(s) : s[i].op \notin Acts,
         Lead(s) \in AfterJoin => gesture = "none",
         at = "run" \/ Lead(s) # "join",
         Joining => NoGesture,
         gesture # "none" => Active' \/ (at = "run" /\ Lead(s) \in {"disable", "join"}),
         s = <<>> /\ ~focused => NoGesture
  PROVE  Shape'
<1>1. LoopShape'
  BY DEF Shape, LoopShape, LoopMoves
<1>2. GestureShape'
  BY DEF Shape, GestureShape, LoopMoves
<1>3. Settled => NoGesture
  BY DEF Shape, Apart
<1>4. Settled' => (NoGesture)'
  <2>1. Settled' => Settled \/ (s = <<>> /\ ~focused)
    BY DEF Settled, LoopMoves
  <2> QED
    BY <1>3, <2>1 DEF NoGesture, LoopMoves
<1>5. closing # "done"
  BY DEF Shape, LoopShape
<1>6. gesture = "none" => Gesture = <<>>
  BY <1>5 DEF Shape, Apart, NoGesture
<1>7. ~Joining'
  BY DEF Joining, LoopMoves
<1>8. Releasing' <=> at = "run" /\ Lead(s) \in {"disable", "join"}
  BY DEF Releasing, LoopMoves
<1>9. (\A i \in 1..Len(Loop) : ActOk(Loop[i]))'
  BY DEF LoopMoves, ActOk, OkAfter
<1>10. Apart'
  BY <1>4, <1>6, <1>7, <1>8, <1>9 DEF Apart, LoopMoves
<1> QED
  BY <1>1, <1>2, <1>10 DEF Shape

(* The loop goes on with the rest of its list.                               *)
LEMMA LoopAdvances ==
  ASSUME Typed, Shape, Loop # <<>>, LoopMoves(Tail(Loop), "run"),
         UNCHANGED <<focused, gesture, closing>>,
         Active => Active' \/ Lead(Loop) = "disable",
         Lead(Loop) = "join" => NoGesture
  PROVE  Shape'
<1> DEFINE s == Tail(Loop)
           x == Lead(Loop)
<1>1. /\ TaskType /\ Loop \in Seq(Operation) /\ s \in Seq(Operation)
      /\ x = "hold" \/ x # "hold"
  BY Parts, LoopNow DEF Typed
<1>2. Linked("loop", s) /\ Lead(s) \in LoopAfter(x) /\ x \in LoopOps
  BY <1>1, LoopNames DEF Shape
<1>3. ASSUME NEW i \in 1..Len(s) PROVE OkAfter(s[i]) /\ (x = "disable" => s[i].op \notin Acts)
  <2>1. PICK j \in 1..Len(Loop) : s[i] = Loop[j]
    BY <1>1, <1>3, TailElement
  <2>2. ActOk(Loop[j]) /\ (x = "disable" => Loop[j].op \notin Acts)
    BY DEF Shape, Apart
  <2>3. ActOk(s[i]) /\ (x = "disable" => s[i].op \notin Acts)
    BY <2>1, <2>2
  <2>4. "hold" \in Acts /\ Pointing \subseteq Acts
    BY DEF Acts, Typing
  <2> QED
    BY <2>3, <2>4 DEF ActOk, OkAfter
<1>4. Lead(s) # "disable"
  BY <1>2 DEF LoopAfter
<1>5. Lead(s) \in AfterJoin => gesture = "none"
  <2>1. Lead(s) \in AfterJoin => x \in AfterJoin \cup {"join"}
    BY <1>2 DEF LoopAfter, AfterJoin, Starts, Gestures
  <2> QED
    BY <2>1 DEF Shape, Apart, NoGesture
<1>6. Joining => NoGesture
  BY DEF Joining
<1>7. gesture # "none" => Active' \/ Lead(s) \in {"disable", "join"}
  <2>1. x = "disable" => Lead(s) = "join"
    BY <1>2 DEF LoopAfter
  <2>2. gesture # "none" => Active \/ x \in {"disable", "join"}
    BY DEF Shape, Apart, Releasing
  <2> QED
    BY <2>1, <2>2 DEF NoGesture
<1>8. s = <<>> /\ ~focused => NoGesture
  <2>1. s = <<>> => x \in Acts \cup Connecting \cup AfterJoin
    BY <1>1, <1>2, LeadFacts
       DEF LoopAfter, Acts, Typing, Pointing, Connecting, AfterJoin, Starts, Gestures
  <2> QED
    BY <1>1, <2>1, Alone DEF Active
<1>9. LoopMoves(s, "run") /\ "run" \in {"run", "await"}
  OBVIOUS
<1>10. \A i \in 1..Len(s) : OkAfter(s[i])
  BY <1>3
<1> HIDE DEF s, x
<1> QED
  BY <1>1, <1>2, <1>4, <1>5, <1>6, <1>7, <1>8, <1>9, <1>10, LoopGoes

(* The loop awaits.                                                          *)
LEMMA LoopStays ==
  ASSUME Typed, Shape, Loop # <<>>, LoopMoves(Loop, "await"),
         Lead(Loop) \notin {"join", "disable"},
         UNCHANGED <<focused, enabled, gesture, closing>>
  PROVE  Shape'
<1>1. Loop \in Seq(Operation)
  BY Parts DEF Typed
<1>2. ASSUME NEW i \in 1..Len(Loop) PROVE OkAfter(Loop[i])
  <2>1. ActOk(Loop[i])
    BY DEF Shape, Apart
  <2> QED
    BY <2>1 DEF ActOk, OkAfter, Active
<1>3. ~Joining
  BY DEF Joining
<1>4. gesture # "none" => Active'
  BY DEF Shape, Apart, Releasing, Active
<1>5. Linked("loop", Loop) /\ (Lead(Loop) \in AfterJoin => gesture = "none")
  BY DEF Shape, LoopShape, Apart
<1> QED
  BY <1>1, <1>2, <1>3, <1>4, <1>5, LoopGoes

(* The loop has failed, and recovers.                                        *)
LEMMA LoopRecovers ==
  ASSUME Typed, Shape, Loop # <<>>, LoopMoves(InputFailed, "run"), Lead(Loop) # "join",
         UNCHANGED <<focused, enabled, gesture, closing>>
  PROVE  Shape'
<1>1. \A i \in 1..Len(InputFailed) : OkAfter(InputFailed[i])
  BY InputFailedList, QuietOk
<1>2. \A i \in 1..Len(InputFailed) : InputFailed[i].op \notin Acts
  BY InputFailedList DEF Quiet, Harmless
<1>3. ~Joining
  BY DEF Joining
<1>4. "disable" \notin AfterJoin
  BY DEF AfterJoin, Starts, Gestures
<1> QED
  BY <1>1, <1>2, <1>3, <1>4, InputFailedList, LoopGoes

(* The loop sends the keys that it holds.                                    *)
LEMMA LoopExpands ==
  ASSUME Typed, Shape, Loop # <<>>, Lead(Loop) = "reportHeld",
         LoopMoves(KeyStates("keys", UNION held) \o Tail(Loop), "run"),
         UNCHANGED <<focused, enabled, gesture, closing>>
  PROVE  Shape'
<1> DEFINE u == Tail(Loop)
           s == KeyStates("keys", UNION held) \o u
<1>1. /\ TaskType /\ u \in Seq(Operation) /\ Loop \in Seq(Operation)
      /\ UNION held \in SUBSET Usages /\ reported \in SUBSET Usages
  BY LoopNow, Parts, HeldKeys DEF Typed
<1>2. Linked("loop", u) /\ Lead(u) \in {"letGo", "stop"}
  BY <1>1, LoopNames DEF Shape, LoopAfter
<1>3. "keys" \in After("loop", "keys") /\ Lead(u) \in After("loop", "keys")
  BY <1>2 DEF After, LoopAfter
<1>4. "reportHeld" \in Acts /\ "keys" \in Acts /\ "keys" \notin Pointing \cup Connecting
  BY DEF Acts, Typing, Pointing, Connecting, Starts, Gestures
<1>5. Active /\ gesture \in {"none", "scroll"}
  BY <1>1, <1>4, Alone DEF NoGesture
<1>6. ASSUME NEW i \in 1..Len(u) PROVE OkAfter(u[i])
  <2>1. PICK j \in 1..Len(Loop) : u[i] = Loop[j]
    BY <1>1, <1>6, TailElement
  <2>2. ActOk(Loop[j])
    BY DEF Shape, Apart
  <2> QED
    BY <2>1, <2>2 DEF ActOk, OkAfter, Active
<1> HIDE DEF u
<1>7. /\ s \in Seq(Operation) /\ s # <<>> /\ Lead(s) = "keys" /\ Linked("loop", s)
      /\ \A i \in 1..Len(s) : s[i].op = "keys" \/ \E j \in 1..Len(u) : s[i] = u[j]
  BY <1>1, <1>2, <1>3, KeyStatesList
<1>8. LoopMoves(s, "run")
  BY DEF u
<1> HIDE DEF s
<1>9. ASSUME NEW i \in 1..Len(s) PROVE OkAfter(s[i])
  <2>1. CASE s[i].op = "keys"
    BY <1>4, <1>5, <2>1 DEF ActOk, OkAfter, Active
  <2>2. CASE \E j \in 1..Len(u) : s[i] = u[j]
    BY <1>6, <2>2
  <2> QED
    BY <1>7, <2>1, <2>2
<1>10. "keys" \notin AfterJoin
  BY DEF AfterJoin, Starts, Gestures
<1>11. ~Joining /\ Active'
  BY <1>5 DEF Joining, Active
<1> QED
  BY <1>7, <1>8, <1>9, <1>10, <1>11, LoopGoes

(* The steps, one task at a time.                                            *)
LEMMA Steps ==
  ASSUME [Next]_vars
  PROVE  \/ Reads \/ EndOfFile \/ Start \/ Join \/ Joined \/ Finally
         \/ Ensure("loop") \/ Issue("loop") \/ Prepare("loop")
         \/ Succeeds("loop") \/ Fails("loop")
         \/ Ensure("gesture") \/ Issue("gesture") \/ Prepare("gesture")
         \/ Succeeds("gesture") \/ Fails("gesture")
         \/ Cancel \/ BridgeClose \/ BridgeClosed \/ UNCHANGED vars
  BY DEF Next, Reads, LoopStep, GestureStep, TaskStep, Answer, Tasks, Over

(* The rest of a list is linked like the list.                               *)
LEMMA TailLinked ==
  ASSUME NEW s \in Seq(Operation), s # <<>>
  PROVE  \A k : Linked(k, s) => Linked(k, Tail(s))
  BY LinkedTail

(* The reports of a gesture's change of keys take the place of the change.   *)
LEMMA ReportLinked ==
  ASSUME Typed, Gesture # <<>>, NEW name \in {"keys", "finalKeys"},
         NEW desired \in SUBSET Usages,
         name = "keys" => Lead(Gesture) = "report",
         name = "finalKeys" => Lead(Gesture) = "finalReport"
  PROVE  LET s == KeyStates(name, desired) \o Tail(Gesture)
         IN /\ s \in Seq(Operation) /\ s # <<>> /\ Lead(s) = name
            /\ \A k \in Kinds : Linked(k, Gesture) =>
                 Linked(k, s) /\ RunOf(s, name, desired)
                              /\ \A i \in 1..Len(s) : \/ s[i].op = name
                                    \/ \E j \in 1..Len(Tail(Gesture)) : s[i] = Tail(Gesture)[j]
<1> DEFINE u == Tail(Gesture)
           s == KeyStates(name, desired) \o u
<1>1. /\ Gesture \in Seq(Operation) /\ u \in Seq(Operation) /\ reported \in SUBSET Usages
  BY Parts, GestureNow, HeldKeys DEF Typed
<1>2. KeyStates(name, desired) \in Seq(Operation)
  BY <1>1, KeyStatesType
<1>3. s \in Seq(Operation) /\ s # <<>> /\ Lead(s) = name
  <2> DEFINE kept == (reported \cap desired) \ Mods
             a == Keys(name, kept \cup (reported \cap Mods))
             b == Keys(name, kept \cup (desired \cap Mods))
             c == Keys(name, desired)
  <2>1. KeyStates(name, desired) = <<a, b, c>> /\ a.op = name
    BY DEF KeyStates, Keys
  <2> HIDE DEF a, b, c
  <2>2. Len(KeyStates(name, desired)) = 3 /\ KeyStates(name, desired)[1] = a
    BY <2>1
  <2> HIDE DEF u
  <2> DEFINE p == KeyStates(name, desired)
  <2> HIDE DEF p
  <2>a. p \in Seq(Operation) /\ Len(p) = 3 /\ p[1] = a /\ s = p \o u
    BY <1>2, <2>2 DEF p
  <2> HIDE DEF s
  <2>b. /\ s \in Seq(Operation) /\ Len(s) = Len(p) + Len(u) /\ Len(u) \in Nat
        /\ \A i \in 1..Len(p) : s[i] = p[i]
    BY <1>1, <2>a, ConcatFacts
  <2>3. s \in Seq(Operation) /\ Len(s) = 3 + Len(u) /\ Len(u) \in Nat /\ s[1] = a
    BY <2>a, <2>b
  <2>4. s # <<>>
    BY <2>3
  <2> QED
    BY <2>1, <2>2, <2>3, <2>4, TailFacts
<1>4. ASSUME NEW k \in Kinds, Linked(k, Gesture)
      PROVE  Linked(k, s) /\ RunOf(s, name, desired)
                          /\ \A i \in 1..Len(s) : \/ s[i].op = name
                                                  \/ \E j \in 1..Len(u) : s[i] = u[j]
  <2>1. Linked(k, u) /\ Lead(u) \in After(k, Lead(Gesture))
    BY <1>1, <1>4, LinkedTail
  <2>2. k \in {"loop", "scroll", "home", "search", "paste", "final"}
    BY DEF Kinds, Gestures
  <2>3. /\ k \in {"loop", "search", "paste", "final"}
        /\ name \in After(k, name) /\ Lead(u) \in After(k, name) /\ Lead(u) # name
    <3>1. CASE name = "keys"
      BY <2>1, <2>2, <3>1 DEF After, LoopAfter, ScrollAfter, HomeAfter, ShortcutAfter, FinalAfter
    <3>2. CASE name = "finalKeys"
      BY <2>1, <2>2, <3>2 DEF After, LoopAfter, ScrollAfter, HomeAfter, ShortcutAfter, FinalAfter
    <3> QED
      BY <3>1, <3>2
  <2> HIDE DEF u
  <2> QED
    BY <1>1, <2>1, <2>3, KeyStatesList
<1> QED
  BY <1>3, <1>4

(* What is left after a failure is linked as before.                         *)
LEMMA RemainingLinked ==
  ASSUME Typed, Gesture # <<>>, Lead(Gesture) \in Suppressed
  PROVE  \A k \in Kinds : Linked(k, Gesture) => Linked(k, Remaining("gesture"))
<1>1. Gesture \in Seq(Operation)
  BY Parts DEF Typed
<1>2. CASE Lead(Gesture) # "finalKeys"
  BY <1>1, <1>2, TailLinked, RemainingIs
<1>3. CASE Lead(Gesture) = "finalKeys"
  <2>1. CASE Remaining("gesture") = <<>>
    BY <2>1, EmptyList
  <2>2. CASE Remaining("gesture") = <<Op("closeService")>>
    <3>1. Op("closeService") \in Operation /\ Op("closeService").op = "closeService"
      BY OperationType DEF OpNames, Awaited, Suppressed
    <3>2. ASSUME NEW k \in Kinds, Linked(k, Gesture) PROVE "stop" \in After(k, "closeService")
      <4>1. After(k, "finalKeys") # {}
        BY <1>1, <1>3, <3>2, LinkedTail
      <4>2. k \in {"loop", "scroll", "home", "search", "paste", "final"}
        BY DEF Kinds, Gestures
      <4> QED
        BY <4>1, <4>2
           DEF After, LoopAfter, ScrollAfter, HomeAfter, ShortcutAfter, FinalAfter
    <3> QED
      BY <2>2, <3>1, <3>2, OneOp
  <2> QED
    BY <1>3, <2>1, <2>2, RemainingIs
<1> QED
  BY <1>2, <1>3

(* Two more drags come in the place of `again`, which only a scroll has.     *)
LEMMA DragsLinked ==
  ASSUME Typed, Gesture # <<>>, Lead(Gesture) = "again"
  PROVE  \A k \in Kinds : Linked(k, Gesture) => Linked(k, Drags)
<1>1. Gesture \in Seq(Operation)
  BY Parts DEF Typed
<1> SUFFICES ASSUME NEW k \in Kinds, Linked(k, Gesture) PROVE k = "scroll"
  BY DragsList
<1>2. After(k, "again") # {}
  BY <1>1, LinkedTail
<1>3. k \in {"loop", "scroll", "home", "search", "paste", "final"}
  BY DEF Kinds, Gestures
<1> QED
  BY <1>2, <1>3 DEF After, LoopAfter, ScrollAfter, HomeAfter, ShortcutAfter, FinalAfter

(* Every step keeps the shape of the lists.                                  *)
LEMMA ShapeStep ==
  ASSUME Typed, Shape, [Next]_vars
  PROVE  Shape'
<1>0. /\ TaskType /\ ModeType /\ LoopShape /\ GestureShape /\ Loop \in Seq(Operation)
      /\ Gesture \in Seq(Operation)
  BY Parts DEF Typed, Shape
<1>r. CASE Reads
  <2>1. PICK s \in Seq(Operation) : Read(s)
    BY <1>r, ReadsDoes
  <2>2. /\ Loop = <<>> /\ LoopFinal # <<>> /\ LoopAt = "run"
        /\ Loop' = s /\ LoopAt' = "run" /\ LoopFinal' = LoopFinal
        /\ UNCHANGED <<Gesture, GestureAt, GestureFinal>>
        /\ UNCHANGED <<enabled, gesture, closing>>
        /\ Linked("loop", s)
        /\ Lead(s) \in {"stop", "join", "move", "ensure", "untouch", "scroll"}
        /\ \A i \in 1..Len(s) : OkAfter(s[i])
        /\ Lead(s) # "join" => focused'
    BY <2>1 DEF Read, LoopMoves
  <2>3. LoopShape'
    BY <1>0, <2>2 DEF LoopShape
  <2>4. GestureShape'
    BY <1>0, <2>2 DEF GestureShape
  <2>5. Lead(Loop) = "stop" /\ ~Joining /\ ~Releasing /\ closing # "done"
    BY <1>0, <2>2, EmptyList DEF Joining, Releasing, LoopShape
  <2>6. gesture = "none" => Gesture = <<>>
    BY <2>5 DEF Shape, Apart
  <2>7. gesture # "none" => Active
    BY <2>5 DEF Shape, Apart
  <2>8. (\A i \in 1..Len(Loop) : ActOk(Loop[i]))'
    BY <2>2 DEF ActOk, OkAfter
  <2>9. Lead(s) \notin AfterJoin /\ Lead(s) # "disable"
    BY <2>2 DEF AfterJoin, Starts, Gestures
  <2>10. Apart'
    BY <2>2, <2>6, <2>7, <2>8, <2>9 DEF Apart, Active, Joining, Releasing, Settled
  <2> QED
    BY <2>3, <2>4, <2>10 DEF Shape
<1>e. CASE EndOfFile
  <2>1. /\ Loop = <<>> /\ LoopFinal # <<>>
        /\ Loop' = Close /\ LoopFinal' = <<>> /\ LoopAt' = "run"
        /\ UNCHANGED <<Gesture, GestureAt, GestureFinal>>
        /\ UNCHANGED <<focused, enabled, gesture, closing>>
    BY <1>e, EndOfFileDoes
  <2>2. LoopShape'
    BY <1>0, <2>1, CloseList DEF LoopShape
  <2>3. GestureShape'
    BY <1>0, <2>1 DEF GestureShape
  <2>4. Lead(Loop) = "stop" /\ ~Joining /\ ~Releasing /\ closing # "done"
    BY <1>0, <2>1, EmptyList DEF Joining, Releasing, LoopShape
  <2>5. gesture = "none" => Gesture = <<>>
    BY <2>4 DEF Shape, Apart
  <2>6. gesture # "none" => Active
    BY <2>4 DEF Shape, Apart
  <2>7. (\A i \in 1..Len(Loop) : ActOk(Loop[i]))'
    <3>1. \A i \in 1..Len(Close) : OkAfter(Close[i])
      BY CloseList, QuietOk
    <3> QED
      BY <2>1, <3>1 DEF ActOk, OkAfter
  <2>8. Lead(Close) = "join" /\ "join" \notin AfterJoin
    BY CloseList DEF AfterJoin, Starts, Gestures
  <2>9. ~focused => NoGesture
    BY <1>0, <2>1, Unfocused
  <2>10. Apart'
    BY <2>1, <2>5, <2>6, <2>7, <2>8, <2>9
       DEF Apart, Active, Joining, Releasing, Settled, NoGesture
  <2> QED
    BY <2>2, <2>3, <2>10 DEF Shape
<1>1. CASE Ensure("loop")
  <2>1. /\ Loop # <<>> /\ Lead(Loop) = "ensure"
        /\ UNCHANGED <<focused, enabled, gesture, closing>>
        /\ LoopMoves(Tail(Loop), "run") \/ LoopMoves(Loop, "await")
    BY <1>0, <1>1, LoopEnsures
  <2> QED
    BY <2>1, LoopAdvances, LoopStays DEF Active
<1>2. CASE Issue("loop")
  <2>1. /\ Loop # <<>> /\ Lead(Loop) \in Awaited
        /\ UNCHANGED <<focused, enabled, gesture, closing>>
        /\ LoopMoves(Tail(Loop), "run") \/ LoopMoves(Loop, "await")
    BY <1>0, <1>2, LoopIssues
  <2>2. "join" \notin Awaited /\ "disable" \notin Awaited
    BY DEF Awaited, Holding, Suppressed
  <2> QED
    BY <2>1, <2>2, LoopAdvances, LoopStays DEF Active
<1>3. CASE Prepare("loop")
  <2>1. /\ Loop # <<>>
        /\ Lead(Loop) \in {"enable", "disable", "forget", "hold", "letGo", "reportHeld"}
        /\ LoopMoves(IF Lead(Loop) = "reportHeld"
                     THEN KeyStates("keys", UNION held) \o Tail(Loop) ELSE Tail(Loop), "run")
        /\ UNCHANGED <<focused, gesture, closing>>
        /\ enabled' <=> Lead(Loop) = "enable" \/ (enabled /\ Lead(Loop) # "disable")
        /\ enabled' \in BOOLEAN
    BY <1>0, <1>3, LoopPrepares
  <2>2. CASE Lead(Loop) = "reportHeld"
    <3>1. UNCHANGED <<focused, enabled, gesture, closing>>
      BY <1>0, <2>1, <2>2 DEF ModeType
    <3> QED
      BY <2>1, <2>2, <3>1, LoopExpands
  <2>3. CASE Lead(Loop) # "reportHeld"
    <3>1. Active => Active' \/ Lead(Loop) = "disable"
      BY <2>1 DEF Active
    <3> QED
      BY <2>1, <2>3, <3>1, LoopAdvances
  <2> QED
    BY <2>2, <2>3
<1>4. CASE Succeeds("loop")
  <2>1. /\ Loop # <<>> /\ Lead(Loop) # "join" /\ LoopMoves(Tail(Loop), "run")
        /\ UNCHANGED <<focused, enabled, gesture, closing>>
    BY <1>0, <1>4, LoopSucceeds
  <2> QED
    BY <2>1, LoopAdvances DEF Active
<1>5. CASE Fails("loop")
  <2>1. /\ Loop # <<>> /\ Lead(Loop) # "join"
        /\ LoopMoves(Tail(Loop), "run") \/ LoopMoves(InputFailed, "run")
        /\ UNCHANGED <<focused, enabled, gesture, closing>>
    BY <1>0, <1>5, LoopFails
  <2> QED
    BY <2>1, LoopAdvances, LoopRecovers DEF Active
<1>6. CASE Ensure("gesture")
  <2>1. /\ Gesture # <<>> /\ TaskType' /\ UNCHANGED <<focused, enabled, gesture, closing>>
        /\ GestureMoves(Tail(Gesture), "run") \/ GestureMoves(Gesture, "await")
    BY <1>0, <1>6, GestureEnsures
  <2> QED
    BY <1>0, <2>1, GestureNow, TailLinked, GestureGoes
<1>7. CASE Issue("gesture")
  <2>1. /\ Gesture # <<>> /\ TaskType' /\ UNCHANGED <<focused, enabled, gesture, closing>>
        /\ GestureMoves(Tail(Gesture), "run") \/ GestureMoves(Gesture, "await")
    BY <1>0, <1>7, GestureIssues
  <2> QED
    BY <1>0, <2>1, GestureNow, TailLinked, GestureGoes
<1>8. CASE Prepare("gesture")
  <2>1. /\ TaskType' /\ Gesture # <<>>
        /\ UNCHANGED <<focused, enabled, gesture, closing>>
        /\ Lead(Gesture) \in {"report", "finalReport", "check", "again"}
        /\ Lead(Gesture) = "report" =>
             GestureMoves(KeyStates("keys", Head(Gesture).keys) \o Tail(Gesture), "run")
        /\ Lead(Gesture) = "finalReport" =>
             GestureMoves((IF Sendable THEN KeyStates("finalKeys", {}) ELSE <<>>)
                            \o Tail(Gesture), "run")
        /\ Lead(Gesture) = "check" =>
             GestureMoves(Tail(Gesture), "run") \/ GestureMoves(<<>>, "run")
        /\ Lead(Gesture) = "again" => GestureMoves(Drags, "run") \/ GestureMoves(<<>>, "run")
    BY <1>0, <1>8, GesturePrepares
  <2>2. Tail(Gesture) \in Seq(Operation) /\ Head(Gesture).keys \in SUBSET Usages
    BY <1>0, <2>1, GestureNow
  <2>3. ASSUME NEW s \in Seq(Operation), GestureMoves(s, "run"),
               \A k \in Kinds : Linked(k, Gesture) => Linked(k, s)
        PROVE  Shape'
    BY <2>1, <2>3, GestureGoes
  <2>4. GestureMoves(Tail(Gesture), "run") => Shape'
    BY <1>0, <2>1, <2>2, <2>3, TailLinked
  <2>5. GestureMoves(<<>>, "run") => Shape'
    BY <2>3, EmptyList
  <2>6. CASE Lead(Gesture) = "report"
    BY <2>1, <2>2, <2>3, <2>6, ReportLinked
  <2>7. CASE Lead(Gesture) = "finalReport"
    <3>1. CASE Sendable
      <4>1. GestureMoves(KeyStates("finalKeys", {}) \o Tail(Gesture), "run")
        BY <2>1, <2>7, <3>1
      <4>2. {} \in SUBSET Usages
        OBVIOUS
      <4> QED
        BY <2>1, <2>3, <2>7, <4>1, <4>2, ReportLinked
    <3>2. CASE ~Sendable
      <4>1. GestureMoves(<<>> \o Tail(Gesture), "run") /\ <<>> \o Tail(Gesture) = Tail(Gesture)
        BY <2>1, <2>2, <2>7, <3>2
      <4> QED
        BY <2>4, <4>1
    <3> QED
      BY <3>1, <3>2
  <2>8. CASE Lead(Gesture) = "check"
    BY <2>1, <2>4, <2>5, <2>8
  <2>9. CASE Lead(Gesture) = "again"
    <3>1. GestureMoves(Drags, "run") => Shape'
      BY <2>1, <2>3, <2>9, DragsLinked, DragsList
    <3> QED
      BY <2>1, <2>5, <2>9, <3>1
  <2> QED
    BY <2>1, <2>6, <2>7, <2>8, <2>9
<1>9. CASE Succeeds("gesture")
  <2>1. /\ Gesture # <<>> /\ TaskType' /\ UNCHANGED <<focused, enabled, gesture, closing>>
        /\ GestureMoves(Tail(Gesture), "run")
    BY <1>0, <1>9, GestureSucceeds
  <2> QED
    BY <1>0, <2>1, GestureNow, TailLinked, GestureGoes
<1>10. CASE Fails("gesture")
  <2>1. /\ Gesture # <<>> /\ TaskType' /\ UNCHANGED <<focused, enabled, gesture, closing>>
        /\ Lead(Gesture) \in Suppressed => GestureMoves(Remaining("gesture"), "run")
        /\ Lead(Gesture) \notin Suppressed => GestureMoves(<<>>, "run")
    BY <1>0, <1>10, GestureFails
  <2>2. CASE Lead(Gesture) \in Suppressed
    BY <2>1, <2>2, RemainingIs, RemainingLinked, GestureGoes
  <2>3. CASE Lead(Gesture) \notin Suppressed
    BY <2>1, <2>3, EmptyList, GestureGoes
  <2> QED
    BY <2>2, <2>3
<1>11. CASE Start
  <2>1. /\ Loop # <<>> /\ LoopAt = "run" /\ Lead(Loop) \in Gestures
        /\ gesture' = Lead(Loop) /\ Loop' = Tail(Loop) /\ LoopAt' = "run"
        /\ LoopFinal' = LoopFinal /\ Gesture' = Body(Lead(Loop))
        /\ GestureFinal' = Final(Lead(Loop)) /\ GestureAt' = "ready"
        /\ UNCHANGED <<focused, enabled, closing>>
    BY <1>0, <1>11, StartDoes
  <2>2. Loop' = <<>>
    <3>1. Lead(Tail(Loop)) = "stop"
      BY <1>0, <2>1, LoopNames DEF LoopAfter, Gestures
    <3> QED
      BY <1>0, <2>1, <3>1, LoopNow, LeadFacts
  <2>3. "none" \notin Gestures /\ Lead(Loop) \in Acts \cap Pointing
    BY <2>1 DEF Gestures, Acts, Pointing, Starts
  <2>4. Active
    BY <1>0, <2>3, Alone
  <2>5. LoopShape'
    BY <1>0, <2>1, <2>2, EmptyList DEF LoopShape
  <2>6. GestureShape'
    BY <1>0, <2>1, <2>3, BodyList, FinalList DEF GestureShape
  <2>7. Lead(<<>>) = "stop" /\ "stop" \notin AfterJoin
    BY EmptyList DEF AfterJoin, Starts, Gestures
  <2>8. Apart'
    <3>1. (\A i \in 1..Len(Loop) : ActOk(Loop[i]))'
      BY <2>2
    <3>2. Active' /\ gesture' # "none" /\ ~Settled'
      BY <2>1, <2>3, <2>4 DEF Active, Settled
    <3>3. (Lead(Loop))' = "stop"
      BY <2>2, <2>7
    <3> QED
      BY <2>7, <3>1, <3>2, <3>3 DEF Apart, Joining
  <2> QED
    BY <2>5, <2>6, <2>8 DEF Shape
<1>12. CASE Finally
  <2>1. /\ Gesture = <<>> /\ GestureAt = "run" /\ gesture # "none"
        /\ gesture' = IF GestureFinal = <<>> THEN "none" ELSE gesture
        /\ Gesture' = GestureFinal /\ GestureFinal' = <<>> /\ GestureAt' = "run"
        /\ UNCHANGED <<Loop, LoopAt, LoopFinal>>
        /\ UNCHANGED <<focused, enabled, closing>>
    BY <1>12, FinallyDoes
  <2>2. LoopShape'
    BY <1>0, <2>1 DEF LoopShape
  <2>3. gesture \in Gestures /\ "none" \notin Gestures
    BY <1>0, <2>1 DEF ModeType, Gestures
  <2>4. GestureShape'
    <3>1. GestureFinal = <<>> \/ GestureFinal = Final(gesture)
      BY <1>0 DEF GestureShape
    <3>2. Linked("final", GestureFinal)
      BY <2>3, <3>1, FinalList, EmptyList
    <3>3. gesture' # "none" => Linked(gesture, GestureFinal)
      BY <2>1, <2>3, <3>1, FinalList
    <3> QED
      BY <2>1, <3>2, <3>3 DEF GestureShape
  <2>5. ASSUME NEW i \in 1..Len(Loop) PROVE OkAfter(Loop[i])
    <3>1. ActOk(Loop[i])
      BY DEF Shape, Apart
    <3>2. gesture' = gesture \/ gesture' = "none"
      BY <2>1
    <3> QED
      BY <2>1, <3>1, <3>2 DEF ActOk, OkAfter, Active
  <2>6. (\A i \in 1..Len(Loop) : ActOk(Loop[i]))'
    BY <2>1, <2>5 DEF ActOk, OkAfter
  <2>7. gesture' = "none" => Gesture' = <<>>
    BY <2>1, <2>3
  <2>8. ~Settled
    BY <2>1 DEF Shape, Apart, NoGesture
  <2>9. Apart'
    <3>1. (Settled' <=> Settled) /\ (Joining' <=> Joining) /\ (Releasing' <=> Releasing)
          /\ (Active' <=> Active)
      BY <2>1 DEF Settled, Joining, Releasing, Active
    <3>2. gesture' # "none" => gesture' = gesture
      BY <2>1
    <3> QED
      BY <2>1, <2>6, <2>7, <2>8, <3>1, <3>2 DEF Shape, Apart
  <2> QED
    BY <2>2, <2>4, <2>9 DEF Shape
<1>13. CASE Join
  <2>1. /\ Loop # <<>> /\ Lead(Loop) = "join" /\ LoopAt = "run" /\ gesture' = "none"
        /\ UNCHANGED <<focused, enabled, closing>>
        /\ \/ gesture = "none" /\ LoopMoves(Tail(Loop), "run")
           \/ /\ gesture # "none" /\ Dropped
              /\ Loop' = Loop /\ LoopFinal' = LoopFinal /\ LoopAt' = "await"
    BY <1>0, <1>13, JoinDoes
  <2>2. CASE gesture = "none" /\ LoopMoves(Tail(Loop), "run")
    <3>1. ~Joining /\ closing # "done"
      BY <1>0, <2>1 DEF Joining, LoopShape
    <3>2. NoGesture
      BY <2>2, <3>1 DEF Shape, Apart, NoGesture
    <3> QED
      BY <2>1, <2>2, <3>2, LoopAdvances DEF Active
  <2>3. CASE /\ gesture # "none" /\ Dropped
             /\ Loop' = Loop /\ LoopFinal' = LoopFinal /\ LoopAt' = "await"
    <3>1. LoopShape'
      BY <1>0, <2>1, <2>3 DEF LoopShape
    <3>2. GestureShape'
      <4>1. gesture \in Gestures
        BY <1>0, <2>3 DEF ModeType
      <4>2. GestureFinal = <<>> \/ GestureFinal = Final(gesture)
        BY <1>0 DEF GestureShape
      <4>3. Linked("final", Gesture')
        BY <2>3, <4>1, <4>2, FinalList, EmptyList DEF Dropped
      <4> QED
        BY <2>1, <2>3, <4>3 DEF GestureShape, Dropped
    <3>3. (\A i \in 1..Len(Loop) : ActOk(Loop[i]))'
      <4>1. ASSUME NEW i \in 1..Len(Loop) PROVE OkAfter(Loop[i])
        <5>1. ActOk(Loop[i])
          BY DEF Shape, Apart
        <5> QED
          BY <2>1, <5>1 DEF ActOk, OkAfter, Active
      <4> QED
        BY <2>3, <4>1 DEF ActOk, OkAfter
    <3>4. ~Settled
      BY <2>3 DEF Shape, Apart, NoGesture
    <3>5. ~Settled' /\ Joining' /\ Lead(Loop) # "disable"
      BY <2>1, <2>3, <3>4 DEF Settled, Joining
    <3>6. Apart'
      BY <2>1, <2>3, <3>3, <3>5 DEF Apart
    <3> QED
      BY <3>1, <3>2, <3>6 DEF Shape
  <2> QED
    BY <2>1, <2>2, <2>3
<1>14. CASE Joined
  <2>1. /\ Loop # <<>> /\ Lead(Loop) = "join" /\ LoopAt = "await" /\ Gesture = <<>>
        /\ LoopMoves(Tail(Loop), "run") /\ UNCHANGED <<focused, enabled, gesture, closing>>
    BY <1>14, JoinedDoes
  <2>2. NoGesture
    BY <2>1 DEF Shape, Apart, NoGesture, Joining
  <2> QED
    BY <2>1, <2>2, LoopAdvances DEF Active
<1>c. ASSUME Cut, UNCHANGED <<focused, enabled, gesture>>, ~Releasing,
             \/ closing' = "asked" /\ ~Joining /\ closing # "done" /\ (Settled' => Settled)
             \/ closing' = "done" /\ LoopFinal = <<>> /\ (Settled' => Settled)
      PROVE  Shape'
  <2>1. /\ Loop' = LoopFinal /\ LoopFinal' = <<>> /\ LoopAt' = "run"
        /\ UNCHANGED <<Gesture, GestureAt, GestureFinal>>
    BY <1>c DEF Cut
  <2>2. LoopFinal = <<>> \/ LoopFinal = Close
    BY <1>0 DEF LoopShape
  <2>3. LoopShape'
    BY <1>c, <2>1, <2>2, EmptyList, CloseList DEF LoopShape
  <2>4. GestureShape'
    BY <1>0, <1>c, <2>1 DEF GestureShape
  <2>5. (\A i \in 1..Len(Loop) : ActOk(Loop[i]))'
    <3>1. CASE LoopFinal = <<>>
      BY <2>1, <3>1
    <3>2. CASE LoopFinal = Close
      <4>1. \A i \in 1..Len(Close) : OkAfter(Close[i])
        BY CloseList, QuietOk
      <4> QED
        BY <2>1, <3>2, <4>1 DEF ActOk, OkAfter
    <3> QED
      BY <2>2, <3>1, <3>2
  <2>6. Lead(LoopFinal) \in {"stop", "join"}
    BY <2>2, EmptyList, CloseList
  <2>7. {"stop", "join"} \cap (AfterJoin \cup {"disable"}) = {}
    BY DEF AfterJoin, Starts, Gestures
  <2>8. gesture # "none" => Active
    BY <1>c DEF Shape, Apart
  <2>9. gesture = "none" => Gesture = <<>> \/ closing' = "done"
    BY <1>c DEF Shape, Apart
  <2>10. Settled' => (NoGesture)'
    <3>1. Settled => NoGesture
      BY DEF Shape, Apart
    <3> QED
      BY <1>c, <2>1, <3>1 DEF NoGesture
  <2>11. Apart'
    BY <1>c, <2>1, <2>5, <2>6, <2>7, <2>8, <2>9, <2>10 DEF Apart, Active, Joining
  <2> QED
    BY <2>3, <2>4, <2>11 DEF Shape
<1>s. ASSUME Still, UNCHANGED <<focused, enabled, gesture>>,
             \/ closing' = closing
             \/ closing = "no" /\ closing' = "asked"
             \/ /\ closing = "bridge" /\ closing' = "done" /\ Loop = <<>>
                /\ LoopFinal = <<>>
      PROVE  Shape'
  <2>1. LoopShape'
    BY <1>0, <1>s DEF LoopShape, Still
  <2>2. GestureShape'
    BY <1>0, <1>s DEF GestureShape, Still
  <2>3. (\A i \in 1..Len(Loop) : ActOk(Loop[i]))'
    <3>1. ASSUME NEW i \in 1..Len(Loop) PROVE OkAfter(Loop[i])
      <4>1. ActOk(Loop[i])
        BY DEF Shape, Apart
      <4> QED
        BY <1>s, <4>1 DEF ActOk, OkAfter, Active
    <3> QED
      BY <1>s, <3>1 DEF ActOk, OkAfter, Still
  <2>4. Settled' => Settled
    BY <1>s DEF Settled, Still
  <2>5. (Joining' <=> Joining) /\ (Releasing' <=> Releasing) /\ (Active' <=> Active)
        /\ ((NoGesture)' <=> NoGesture)
    BY <1>s DEF Joining, Releasing, Active, NoGesture, Still
  <2>6. Apart'
    BY <1>s, <2>3, <2>4, <2>5 DEF Shape, Apart, Still
  <2> QED
    BY <2>1, <2>2, <2>6 DEF Shape
<1>15. CASE Cancel
  <2>1. /\ closing = "no" /\ closing' = "asked"
        /\ LoopAt = "run" => Loop = <<>>
        /\ UNCHANGED <<focused, enabled, gesture>>
        /\ \/ Still
           \/ /\ Joining /\ Dropped /\ Loop' = Loop /\ LoopFinal' = LoopFinal
              /\ LoopAt' = "await"
           \/ ~Joining /\ Cut
    BY <1>0, <1>15, CancelDoes
  <2>2. CASE Still
    BY <1>s, <2>1, <2>2
  <2>3. CASE /\ Joining /\ Dropped /\ Loop' = Loop /\ LoopFinal' = LoopFinal
             /\ LoopAt' = "await"
    <3>1. LoopShape'
      BY <1>0, <2>1, <2>3 DEF LoopShape
    <3>2. gesture = "none"
      BY <2>3 DEF Shape, Apart
    <3>3. GestureShape'
      <4>1. GestureFinal = <<>>
        BY <1>0, <3>2 DEF GestureShape
      <4> QED
        BY <2>1, <2>3, <3>2, <4>1, EmptyList DEF GestureShape, Dropped
    <3>4. (\A i \in 1..Len(Loop) : ActOk(Loop[i]))'
      <4>1. ASSUME NEW i \in 1..Len(Loop) PROVE OkAfter(Loop[i])
        <5>1. ActOk(Loop[i])
          BY DEF Shape, Apart
        <5> QED
          BY <2>1, <5>1 DEF ActOk, OkAfter, Active
      <4> QED
        BY <2>3, <4>1 DEF ActOk, OkAfter
    <3>5. Loop # <<>> /\ Lead(Loop) = "join" /\ Joining'
      <4>1. Loop # <<>>
        BY <1>0, <2>3, Parts DEF Joining
      <4> QED
        BY <2>3, <4>1 DEF Joining
    <3>6. ~Settled'
      BY <2>1, <2>3, <3>5 DEF Settled
    <3>7. Apart'
      BY <2>1, <2>3, <3>2, <3>4, <3>5, <3>6 DEF Apart
    <3> QED
      BY <3>1, <3>3, <3>7 DEF Shape
  <2>4. CASE ~Joining /\ Cut
    <3>1. ~Releasing
      <4>1. Loop = <<>> => Lead(Loop) = "stop"
        BY EmptyList
      <4> QED
        BY <2>1, <4>1 DEF Releasing
    <3>2. Settled' => Settled
      BY <1>0, <2>1, <2>4, CloseList DEF Settled, Cut, LoopShape
    <3> QED
      BY <1>c, <2>1, <2>4, <3>1, <3>2
  <2> QED
    BY <2>1, <2>2, <2>3, <2>4
<1>16. CASE BridgeClose
  <2>1. /\ closing = "asked" /\ closing' = "bridge"
        /\ Loop = <<>> /\ LoopFinal = <<>> /\ LoopMoves(Close, "run")
        /\ UNCHANGED <<focused, enabled, gesture>>
    BY <1>0, <1>16, BridgeCloseDoes
  <2>2. LoopShape'
    BY <1>0, <2>1, CloseList DEF LoopShape, LoopMoves
  <2>3. GestureShape'
    BY <1>0, <2>1 DEF GestureShape, LoopMoves
  <2>4. (\A i \in 1..Len(Loop) : ActOk(Loop[i]))'
    <3>1. \A i \in 1..Len(Close) : OkAfter(Close[i])
      BY CloseList, QuietOk
    <3> QED
      BY <2>1, <3>1 DEF ActOk, OkAfter, LoopMoves
  <2>5. Lead(Loop) = "stop" /\ ~Joining /\ ~Releasing
    BY <2>1, EmptyList DEF Joining, Releasing
  <2>6. Lead(Close) = "join" /\ "join" \notin AfterJoin
    BY CloseList DEF AfterJoin, Starts, Gestures
  <2>7. Settled' => Settled
    BY <2>1 DEF Settled, LoopMoves
  <2>8. Apart'
    BY <2>1, <2>4, <2>5, <2>6, <2>7
       DEF Shape, Apart, Active, Joining, Releasing, NoGesture, LoopMoves
  <2> QED
    BY <2>2, <2>3, <2>8 DEF Shape
<1>17. CASE BridgeClosed
  <2>1. /\ closing = "bridge" /\ closing' = "done"
        /\ UNCHANGED <<focused, enabled, gesture>>
        /\ \/ Still /\ Loop = <<>> /\ LoopFinal = <<>>
           \/ LoopAt = "await" /\ Cut
    BY <1>0, <1>17, BridgeClosedDoes
  <2>2. CASE Still /\ Loop = <<>> /\ LoopFinal = <<>>
    BY <1>s, <2>1, <2>2
  <2>3. CASE LoopAt = "await" /\ Cut
    <3>1. ~Releasing /\ LoopFinal = <<>>
      BY <1>0, <2>1, <2>3 DEF Releasing, LoopShape
    <3>2. Settled' => Settled
      BY <2>1, <2>3, <3>1 DEF Settled, Cut
    <3> QED
      BY <1>c, <2>1, <2>3, <3>1, <3>2
  <2> QED
    BY <2>1, <2>2, <2>3
<1>18. CASE UNCHANGED vars
  <2>1. Still
    BY <1>0, <1>18, StillIs DEF vars
  <2> QED
    BY <1>18, <1>s, <2>1 DEF vars
<1> QED
  BY <1>r, <1>e, <1>1, <1>2, <1>3, <1>4, <1>5, <1>6, <1>7, <1>8, <1>9, <1>10, <1>11, <1>12,
     <1>13, <1>14, <1>15, <1>16, <1>17, <1>18, Steps

-----------------------------------------------------------------------------
(* The types.                                                                *)

(* A key that goes down or comes up leaves at most one chord of each letter. *)
LEMMA HeldChange ==
  ASSUME HeldType, NEW c \in Chords
  PROVE  /\ Without(c) \in SUBSET Chords /\ Without(c) \cup {c} \in SUBSET Chords
         /\ \A d, e \in Without(c) \cup {c} : d \ Mods = e \ Mods => d = e
         /\ \A d, e \in Without(c) : d \ Mods = e \ Mods => d = e
  BY DEF HeldType, Without

(* And whatever has come up, what is left is held as before.                 *)
LEMMA HeldWithout ==
  ASSUME HeldType, NEW c
  PROVE  /\ Without(c) \in SUBSET Chords
         /\ \A d, e \in Without(c) : d \ Mods = e \ Mods => d = e
  BY DEF HeldType, Without

(* Every step keeps the types.                                               *)
LEMMA TypedStep ==
  ASSUME Typed, Shape, [Next]_vars
  PROVE  Typed'
<1>0. /\ TaskType /\ ModeType /\ ServiceType /\ HeldType /\ PhoneType /\ LoopShape
      /\ GestureShape
  BY DEF Typed, Shape
<1>h. ASSUME UNCHANGED <<held, reported>> PROVE HeldType'
  BY <1>0, <1>h DEF HeldType
<1>p. ASSUME UNCHANGED <<phone, doubt>> PROVE PhoneType'
  BY <1>0, <1>p DEF PhoneType
<1>g. ASSUME held' = held \/ held' = {}, reported' \in SUBSET Usages PROVE HeldType'
  BY <1>0, <1>g DEF HeldType
<1>m. ASSUME focused' = focused, enabled' = enabled, gesture' = gesture, closing' = closing
      PROVE  ModeType'
  BY <1>0, <1>m DEF ModeType
<1>v. ASSUME UNCHANGED <<keyboard, contact, homeDown, hid, indigo>> PROVE ServiceType'
  BY <1>0, <1>v DEF ServiceType
<1>r. CASE Reads
  <2>1. PICK s \in Seq(Operation) : Read(s)
    BY <1>r, ReadsDoes
  <2>2. /\ TaskType' /\ focused' \in BOOLEAN
        /\ UNCHANGED <<enabled, hid, keyboard, indigo, contact, homeDown, held, reported,
                       gesture, closing, phone, doubt>>
    BY <2>1 DEF Read
  <2>3. ModeType'
    BY <1>0, <2>2 DEF ModeType
  <2> QED
    BY <1>h, <1>p, <1>v, <2>2, <2>3 DEF Typed
<1>e. CASE EndOfFile
  BY <1>e, <1>h, <1>p, <1>m, <1>v, EndOfFileDoes DEF Typed
<1>1. CASE Ensure("loop")
  <2>1. /\ TaskType'
        /\ UNCHANGED <<focused, enabled, keyboard, contact, homeDown, held, reported,
                       gesture, closing, phone, doubt, indigo>>
        /\ hid' = hid \/ hid' = "new"
    BY <1>0, <1>1, LoopEnsures
  <2>2. ServiceType'
    BY <1>0, <2>1 DEF ServiceType
  <2> QED
    BY <1>h, <1>p, <1>m, <2>1, <2>2 DEF Typed
<1>2. CASE Issue("loop")
  <2>1. /\ TaskType'
        /\ UNCHANGED <<focused, enabled, keyboard, held, reported, gesture, closing,
                       phone, doubt, homeDown>>
        /\ hid' = hid \/ hid' = "none"
        /\ indigo' \in {indigo, "none"} /\ contact' \in BOOLEAN
    BY <1>0, <1>2, LoopIssues
  <2>2. ServiceType'
    BY <1>0, <2>1 DEF ServiceType
  <2> QED
    BY <1>h, <1>p, <1>m, <2>1, <2>2 DEF Typed
<1>3. CASE Prepare("loop")
  <2>1. /\ TaskType' /\ Loop # <<>>
        /\ UNCHANGED <<focused, hid, indigo, contact, homeDown, gesture, closing, phone,
                       doubt>>
        /\ enabled' \in BOOLEAN /\ keyboard' \in BOOLEAN
        /\ reported' = IF Lead(Loop) = "forget" THEN {} ELSE reported
        /\ Lead(Loop) = "hold" =>
             held' = Without(Head(Loop).keys) \cup {Head(Loop).keys}
        /\ Lead(Loop) = "letGo" => held' = Without(Head(Loop).keys)
        /\ Lead(Loop) = "forget" => held' = {}
        /\ Lead(Loop) \notin {"hold", "letGo", "forget"} => held' = held
    BY <1>0, <1>3, LoopPrepares
  <2>2. ServiceType' /\ ModeType'
    BY <1>0, <2>1 DEF ServiceType, ModeType
  <2>3. reported' \in SUBSET Usages
    BY <1>0, <2>1 DEF HeldType
  <2>4. HeldType'
    <3>1. CASE Lead(Loop) = "hold"
      <4>1. Head(Loop).keys \in Chords
        BY <1>0, <3>1, Alone
      <4> QED
        BY <1>0, <2>1, <2>3, <3>1, <4>1, HeldChange DEF HeldType
    <3>2. CASE Lead(Loop) = "letGo"
      BY <1>0, <2>1, <2>3, <3>2, HeldWithout DEF HeldType
    <3>3. CASE Lead(Loop) \notin {"hold", "letGo"}
      BY <1>g, <2>1, <2>3, <3>3
    <3> QED
      BY <3>1, <3>2, <3>3
  <2> QED
    BY <1>p, <2>1, <2>2, <2>4 DEF Typed
<1>4. CASE Succeeds("loop")
  <2>1. /\ TaskType' /\ Loop # <<>>
        /\ Sure(Lead(Loop), Head(Loop).keys)
        /\ reported' = IF Lead(Loop) \in KeyReports THEN Head(Loop).keys ELSE reported
        /\ hid' = IF Lead(Loop) = "ensure" THEN "open"
                  ELSE IF Lead(Loop) = "closeHid" THEN "none" ELSE hid
        /\ keyboard' \in BOOLEAN /\ indigo' \in {"none", "new", "open"}
        /\ UNCHANGED <<focused, enabled, contact, homeDown, held, gesture, closing>>
    BY <1>0, <1>4, LoopSucceeds
  <2>2. Head(Loop).keys \in SUBSET Usages
    BY <1>0, <2>1, LoopNow
  <2>3. reported' \in SUBSET Usages /\ PhoneType'
    BY <1>0, <2>1, <2>2 DEF HeldType, Sure
  <2>4. ServiceType'
    BY <1>0, <2>1 DEF ServiceType
  <2> QED
    BY <1>g, <1>m, <2>1, <2>3, <2>4 DEF Typed
<1>5. CASE Fails("loop")
  <2>1. /\ TaskType' /\ Unsure(Lead(Loop))
        /\ hid' = hid \/ hid' = "none"
        /\ keyboard' \in BOOLEAN /\ indigo' \in {"none", "new", "open"}
        /\ UNCHANGED <<focused, enabled, contact, homeDown, held, reported, gesture,
                       closing>>
    BY <1>0, <1>5, LoopFails
  <2>2. ServiceType'
    BY <1>0, <2>1 DEF ServiceType
  <2> QED
    BY <1>h, <1>m, <2>1, <2>2 DEF Typed, Unsure
<1>6. CASE Ensure("gesture")
  <2>1. /\ TaskType'
        /\ UNCHANGED <<focused, enabled, keyboard, contact, homeDown, held, reported,
                       gesture, closing, phone, doubt>>
        /\ hid' \in {hid, "new"} /\ indigo' \in {indigo, "new"}
    BY <1>0, <1>6, GestureEnsures
  <2>2. ServiceType'
    BY <1>0, <2>1 DEF ServiceType
  <2> QED
    BY <1>h, <1>p, <1>m, <2>1, <2>2 DEF Typed
<1>7. CASE Issue("gesture")
  <2>1. /\ TaskType'
        /\ UNCHANGED <<focused, enabled, keyboard, held, reported, gesture, closing,
                       phone, doubt, hid, indigo>>
        /\ contact' \in BOOLEAN /\ homeDown' \in BOOLEAN
    BY <1>0, <1>7, GestureIssues
  <2>2. ServiceType'
    BY <1>0, <2>1 DEF ServiceType
  <2> QED
    BY <1>h, <1>p, <1>m, <2>1, <2>2 DEF Typed
<1>8. CASE Prepare("gesture")
  <2>1. /\ TaskType'
        /\ UNCHANGED <<focused, enabled, hid, indigo, keyboard, contact, homeDown, held,
                       reported, gesture, closing, phone, doubt>>
    BY <1>0, <1>8, GesturePrepares
  <2> QED
    BY <1>h, <1>p, <1>m, <1>v, <2>1 DEF Typed
<1>9. CASE Succeeds("gesture")
  <2>1. /\ TaskType' /\ Gesture # <<>>
        /\ Sure(Lead(Gesture), Head(Gesture).keys)
        /\ reported' = IF Lead(Gesture) \in KeyReports THEN Head(Gesture).keys ELSE reported
        /\ hid' = IF Lead(Gesture) = "ensure" THEN "open" ELSE hid
        /\ keyboard' \in BOOLEAN /\ indigo' \in {"none", "new", "open"}
        /\ UNCHANGED <<focused, enabled, contact, homeDown, held, gesture, closing>>
    BY <1>0, <1>9, GestureSucceeds
  <2>2. Head(Gesture).keys \in SUBSET Usages
    BY <1>0, <2>1, GestureNow
  <2>3. reported' \in SUBSET Usages /\ PhoneType'
    BY <1>0, <2>1, <2>2 DEF HeldType, Sure
  <2>4. ServiceType'
    BY <1>0, <2>1 DEF ServiceType
  <2> QED
    BY <1>g, <1>m, <2>1, <2>3, <2>4 DEF Typed
<1>10. CASE Fails("gesture")
  <2>1. /\ TaskType' /\ Unsure(Lead(Gesture))
        /\ UNCHANGED <<focused, enabled, hid, keyboard, indigo, contact, homeDown, held,
                       reported, gesture, closing>>
    BY <1>0, <1>10, GestureFails
  <2> QED
    BY <1>h, <1>m, <1>v, <2>1 DEF Typed, Unsure
<1>11. CASE Start
  <2>1. /\ TaskType' /\ Lead(Loop) \in Gestures /\ gesture' = Lead(Loop)
        /\ UNCHANGED <<focused, enabled, hid, keyboard, indigo, contact, homeDown, held,
                       reported, closing, phone, doubt>>
    BY <1>0, <1>11, StartDoes
  <2>2. ModeType'
    BY <1>0, <2>1 DEF ModeType
  <2> QED
    BY <1>h, <1>p, <1>v, <2>1, <2>2 DEF Typed
<1>12. CASE Finally
  <2>1. /\ TaskType' /\ gesture' = IF GestureFinal = <<>> THEN "none" ELSE gesture
        /\ UNCHANGED <<focused, enabled, hid, keyboard, indigo, contact, homeDown, held,
                       reported, closing, phone, doubt>>
    BY <1>12, FinallyDoes
  <2>2. ModeType'
    BY <1>0, <2>1 DEF ModeType
  <2> QED
    BY <1>h, <1>p, <1>v, <2>1, <2>2 DEF Typed
<1>13. CASE Join
  <2>1. /\ TaskType' /\ PhoneType' /\ gesture' = "none"
        /\ UNCHANGED <<focused, enabled, hid, keyboard, indigo, contact, homeDown, reported,
                       closing>>
        /\ held' = held \/ held' = {}
    BY <1>0, <1>13, JoinDoes
  <2>2. ModeType'
    BY <1>0, <2>1 DEF ModeType
  <2>3. HeldType'
    BY <1>0, <2>1 DEF HeldType
  <2> QED
    BY <1>v, <2>1, <2>2, <2>3 DEF Typed
<1>14. CASE Joined
  <2>1. /\ TaskType' /\ held' = {}
        /\ UNCHANGED <<focused, enabled, hid, keyboard, indigo, contact, homeDown, reported,
                       gesture, closing, phone, doubt>>
    BY <1>14, JoinedDoes
  <2>2. HeldType'
    BY <1>0, <2>1 DEF HeldType
  <2> QED
    BY <1>p, <1>m, <1>v, <2>1, <2>2 DEF Typed
<1>15. CASE Cancel
  <2>1. /\ TaskType' /\ PhoneType' /\ closing' = "asked"
        /\ UNCHANGED <<focused, enabled, hid, keyboard, indigo, contact, homeDown, held,
                       reported, gesture>>
    BY <1>0, <1>15, CancelDoes
  <2>2. ModeType'
    BY <1>0, <2>1 DEF ModeType
  <2> QED
    BY <1>h, <1>v, <2>1, <2>2 DEF Typed
<1>16. CASE BridgeClose
  <2>1. /\ TaskType' /\ closing' = "bridge"
        /\ UNCHANGED <<focused, enabled, hid, keyboard, indigo, contact, homeDown, held,
                       reported, gesture, phone, doubt>>
    BY <1>0, <1>16, BridgeCloseDoes
  <2>2. ModeType'
    BY <1>0, <2>1 DEF ModeType
  <2> QED
    BY <1>h, <1>p, <1>v, <2>1, <2>2 DEF Typed
<1>17. CASE BridgeClosed
  <2>1. /\ TaskType' /\ PhoneType' /\ closing' = "done"
        /\ UNCHANGED <<focused, enabled, hid, keyboard, indigo, contact, homeDown, held,
                       reported, gesture>>
    BY <1>0, <1>17, BridgeClosedDoes
  <2>2. ModeType'
    BY <1>0, <2>1 DEF ModeType
  <2> QED
    BY <1>h, <1>v, <2>1, <2>2 DEF Typed
<1>18. CASE UNCHANGED vars
  BY <1>0, <1>18, <1>h, <1>p, <1>m, <1>v, StillIs DEF Typed, vars, services, record
<1> QED
  BY <1>r, <1>e, <1>1, <1>2, <1>3, <1>4, <1>5, <1>6, <1>7, <1>8, <1>9, <1>10, <1>11, <1>12,
     <1>13, <1>14, <1>15, <1>16, <1>17, <1>18, Steps

-----------------------------------------------------------------------------
(* The contact.                                                              *)

\* A task is in the middle of a touch report.
LoopTouches == LoopAt = "await" /\ Lead(Loop) \in TouchReports
GestureTouches == GestureAt = "await" /\ Lead(Gesture) \in TouchReports

(* What is known of the contact, in terms of the two lists.                  *)
LEMMA TouchIs ==
  ASSUME Typed, Shape, TouchOk
  PROVE  /\ contact => hid # "none"
         /\ ~LoopTouches /\ ~GestureTouches => TouchKnown
         /\ LoopTouches => (contact <=> Lead(Loop) \in TouchHolds) /\ NoGesture
         /\ GestureTouches => (contact <=> Lead(Gesture) \in TouchHolds)
         /\ Lead(Loop) \in {"touch", "move"} => hid # "none"
         /\ Lead(Loop) \in Lifted \/ Settled => ~contact
         /\ LoopTouches => ~GestureTouches
         /\ hid # "none" \/ Armed(Gesture, HidUsers, "ensure")
<1>0. TaskType /\ ModeType /\ LoopShape /\ GestureShape
  BY DEF Typed, Shape
<1>1. (Touching("loop") <=> LoopTouches) /\ (Touching("gesture") <=> GestureTouches)
  BY <1>0, LoopNow, GestureNow, Parts DEF Touching, LoopTouches, GestureTouches
<1>2. /\ LoopTouches => (contact <=> Lead(Loop) \in TouchHolds)
      /\ GestureTouches => (contact <=> Lead(Gesture) \in TouchHolds)
  BY <1>0, <1>1, LoopNow, GestureNow, Parts
     DEF TouchOk, TouchHolds, LoopTouches, GestureTouches
<1>3. ~LoopTouches /\ ~GestureTouches => TouchKnown
  BY <1>1 DEF TouchOk, Tasks
<1>4. LoopTouches => NoGesture
  <2>1. LoopTouches => Loop # <<>>
    BY <1>0, Parts DEF LoopTouches
  <2>2. LoopTouches => Lead(Loop) \in Pointing \cup AfterJoin
    BY <1>0, <2>1, LoopNames
       DEF LoopTouches, TouchReports, LoopOps, Connecting, Acts, Typing, Pointing, Starts,
           Gestures, AfterJoin
  <2> QED
    BY <1>0, <2>2, Alone
<1>5. LoopTouches => ~GestureTouches
  BY <1>0, <1>4, Parts DEF NoGesture, GestureTouches
<1> QED
  BY <1>2, <1>3, <1>4, <1>5 DEF TouchOk, HidServed

(* Which of the two tasks is in the middle of a touch report.                *)
LEMMA TouchingIs ==
  TaskType =>
    /\ (Touching("loop") <=> LoopTouches)
    /\ (Touching("gesture") <=> GestureTouches)
    /\ LoopTouches => Now("loop").op = Lead(Loop)
    /\ GestureTouches => Now("gesture").op = Lead(Gesture)
BY LoopNow, GestureNow, Parts DEF Touching, LoopTouches, GestureTouches

(* The same for the next state.                                              *)
LEMMA TouchNext ==
  ASSUME TaskType',
         contact' => hid' # "none",
         ~LoopTouches' /\ ~GestureTouches' => TouchKnown',
         LoopTouches' => (contact' <=> (Lead(Loop))' \in TouchHolds),
         GestureTouches' => (contact' <=> (Lead(Gesture))' \in TouchHolds),
         (Lead(Loop))' \in {"touch", "move"} => hid' # "none",
         (Lead(Loop))' \in Lifted' \/ Settled' => ~contact',
         hid' # "none" \/ (Armed(Gesture, HidUsers, "ensure"))'
  PROVE  TouchOk'
<1>2. (TaskType => /\ (Touching("loop") <=> LoopTouches)
                   /\ (Touching("gesture") <=> GestureTouches)
                   /\ LoopTouches => Now("loop").op = Lead(Loop)
                   /\ GestureTouches => Now("gesture").op = Lead(Gesture))'
  BY TouchingIs, PTL
<1>3. (\A t \in Tasks : Touching(t) => (contact <=> Now(t).op \in {"touch", "move", "drag"}))'
  BY <1>2 DEF Tasks, TouchHolds
<1>4. ((\A t \in Tasks : ~Touching(t)) => TouchKnown)'
  BY <1>2 DEF Tasks
<1>5. (Lead(Loop) \in Lifted \/ Settled => ~contact)'
  OBVIOUS
<1> QED
  BY <1>3, <1>4, <1>5 DEF TouchOk, HidServed

(* An answer makes the contact known, and so does a failure as far as it is. *)
LEMMA TouchAnswered ==
  ASSUME NEW x, NEW keys, Unsure(x) \/ Sure(x, keys), contact' = contact,
         x \in TouchReports => (contact <=> x \in TouchHolds),
         x \notin TouchReports => TouchKnown
  PROVE  TouchKnown'
BY DEF Unsure, Sure, TouchKnown, TouchHolds, TouchReports

(* Where the contact has been lifted, it was lifted before or is just now.   *)
LEMMA LiftedTail ==
  ASSUME Typed, Shape, Loop # <<>>
  PROVE  /\ Lead(Tail(Loop)) \in Lifted => Lead(Loop) \in Lifted \cup {"lift"}
         /\ Lead(Tail(Loop)) \in {"touch", "move"} => Lead(Loop) = "ensure"
<1>0. TaskType /\ LoopShape
  BY DEF Typed, Shape
<1>1. Lead(Loop) \in LoopOps /\ Lead(Tail(Loop)) \in LoopAfter(Lead(Loop))
  BY <1>0, LoopNames
<1>2. CASE Lead(Loop) \in Acts \cup Connecting
  <2>1. focused
    BY <1>0, <1>2, Alone DEF Active
  <2>2. Lead(Tail(Loop)) \notin AfterJoin
    BY <1>1, <1>2
       DEF LoopAfter, Acts, Typing, Pointing, Starts, Gestures, Connecting, AfterJoin
  <2>3. Lead(Tail(Loop)) \in {"touch", "move"} => Lead(Loop) = "ensure"
    BY <1>1, <1>2 DEF LoopAfter, Acts, Typing, Pointing, Starts, Gestures, Connecting
  <2> QED
    BY <2>1, <2>2, <2>3 DEF Lifted
<1>3. CASE Lead(Loop) \notin Acts \cup Connecting
  <2>1. Lead(Loop) \in {"join", "lift", "clearKeys", "closeHid", "closeIndigo", "dropHid",
                        "dropIndigo", "forget", "disable"}
    BY <1>1, <1>3 DEF LoopOps
  <2>2. Lead(Tail(Loop)) \notin {"touch", "move"}
    BY <1>1, <2>1 DEF LoopAfter
  <2>3. Lead(Loop) \in {"join", "disable"} => Lead(Tail(Loop)) \notin Lifted
    BY <1>1 DEF LoopAfter, Lifted, AfterJoin, Starts, Gestures
  <2> QED
    BY <2>1, <2>2, <2>3 DEF Lifted, AfterJoin
<1> QED
  BY <1>2, <1>3

(* A step of the loop.                                                       *)
LEMMA TouchLoopStep ==
  ASSUME Typed, Shape, TouchOk, TaskType', NEW s \in Seq(Operation),
         NEW at \in {"run", "await"}, LoopMoves(s, at), UNCHANGED <<focused, closing>>,
         contact' => hid' # "none",
         ~(at = "await" /\ Lead(s) \in TouchReports) /\ ~GestureTouches => TouchKnown',
         at = "await" /\ Lead(s) \in TouchReports => (contact' <=> Lead(s) \in TouchHolds),
         GestureTouches => (contact' <=> contact),
         Lead(s) \in {"touch", "move"} => hid' # "none",
         Lead(s) \in Lifted \/ Settled => ~contact',
         hid' = "none" => hid = "none" \/ NoGesture
  PROVE  TouchOk'
<1>1. /\ Loop' = s /\ LoopAt' = at /\ LoopFinal' = LoopFinal /\ Gesture' = Gesture
      /\ GestureAt' = GestureAt
  BY DEF LoopMoves
<1>2. /\ LoopTouches' <=> at = "await" /\ Lead(s) \in TouchReports
      /\ GestureTouches' <=> GestureTouches
      /\ Lifted' = Lifted
  BY <1>1 DEF LoopTouches, GestureTouches, Lifted
<1>3. Settled' => Settled \/ Lead(s) \in Lifted
  BY <1>1, EmptyList DEF Settled, Lifted
<1>4. hid' # "none" \/ (Armed(Gesture, HidUsers, "ensure"))'
  <2>1. NoGesture => Armed(Gesture, HidUsers, "ensure")
    BY EmptyList DEF NoGesture
  <2> QED
    BY <1>1, <2>1, TouchIs DEF Armed
<1>5. GestureTouches' => (contact' <=> (Lead(Gesture))' \in TouchHolds)
  BY <1>1, <1>2, TouchIs
<1>6. (Lead(Loop))' = Lead(s)
  BY <1>1
<1> QED
  BY <1>2, <1>3, <1>4, <1>5, <1>6, TouchNext

(* A step of the gesture.                                                    *)
LEMMA TouchGestureStep ==
  ASSUME Typed, Shape, TouchOk, TaskType', NEW s \in Seq(Operation),
         NEW at \in {"run", "await"}, GestureMoves(s, at), UNCHANGED <<focused, closing>>,
         Gesture # <<>>,
         contact' => hid' # "none",
         ~(at = "await" /\ Lead(s) \in TouchReports) => TouchKnown',
         at = "await" /\ Lead(s) \in TouchReports => (contact' <=> Lead(s) \in TouchHolds),
         hid # "none" => hid' # "none",
         contact' => contact \/ gesture # "none",
         hid' # "none" \/ Armed(s, HidUsers, "ensure")
  PROVE  TouchOk'
<1>1. /\ Gesture' = s /\ GestureAt' = at /\ LoopFinal' = LoopFinal /\ Loop' = Loop
      /\ LoopAt' = LoopAt
  BY DEF GestureMoves
<1>2. ~LoopTouches
  BY TouchIs DEF NoGesture
<1>3. /\ GestureTouches' <=> at = "await" /\ Lead(s) \in TouchReports
      /\ LoopTouches' <=> LoopTouches
      /\ Lifted' = Lifted /\ (Settled' <=> Settled)
  BY <1>1 DEF LoopTouches, GestureTouches, Lifted, Settled
<1>4. gesture # "none" => Lead(Loop) \notin Lifted /\ ~Settled
  BY DEF Shape, Apart, Lifted, NoGesture, Active, Releasing
<1>5. hid' # "none" \/ (Armed(Gesture, HidUsers, "ensure"))'
  BY <1>1 DEF Armed
<1>6. Lead(Loop) \in Lifted \/ Settled => ~contact'
  BY <1>4, TouchIs
<1>7. (Lead(Gesture))' = Lead(s) /\ (Lead(Loop))' = Lead(Loop)
  BY <1>1
<1> QED
  BY <1>2, <1>3, <1>5, <1>6, <1>7, TouchIs, TouchNext

(* The loop reads an event, or mpv has exited.                               *)
LEMMA TouchReads ==
  ASSUME Typed, Shape, TouchOk, Reads \/ EndOfFile
  PROVE  TouchOk'
<1>0. TaskType /\ LoopShape
  BY DEF Typed, Shape
<1>1. CASE Reads
  <2>1. PICK s \in Seq(Operation) : Read(s)
    BY <1>1, ReadsDoes
  <2>2. /\ TaskType' /\ Loop' = s /\ LoopAt' = "run" /\ LoopFinal' = LoopFinal
        /\ Gesture' = Gesture /\ GestureAt' = GestureAt
        /\ Loop = <<>> /\ LoopFinal # <<>> /\ LoopAt = "run"
        /\ UNCHANGED <<hid, contact, closing, phone, doubt>>
        /\ Lead(s) \in {"stop", "join", "move", "ensure", "untouch", "scroll"}
        /\ Lead(s) = "move" => contact
        /\ Lead(s) = "stop" => focused'
    BY <2>1 DEF Read, LoopMoves
  <2>3. ~LoopTouches /\ ~LoopTouches' /\ (GestureTouches' <=> GestureTouches)
    BY <2>2 DEF LoopTouches, GestureTouches
  <2>4. TouchKnown' <=> TouchKnown
    BY <2>2 DEF TouchKnown
  <2>5. Lead(s) \notin Lifted' /\ ~Settled'
    BY <2>2 DEF Lifted, AfterJoin, Starts, Gestures, Settled
  <2>6. (Armed(Gesture, HidUsers, "ensure"))' <=> Armed(Gesture, HidUsers, "ensure")
    BY <2>2 DEF Armed
  <2>7. (Lead(Loop))' = Lead(s) /\ (Lead(Gesture))' = Lead(Gesture)
    BY <2>2
  <2> QED
    BY <2>2, <2>3, <2>4, <2>5, <2>6, <2>7, TouchIs, TouchNext
<1>2. CASE EndOfFile
  <2>1. /\ TaskType' /\ Loop = <<>> /\ LoopFinal # <<>>
        /\ Loop' = Close /\ LoopFinal' = <<>> /\ LoopAt' = "run"
        /\ Gesture' = Gesture /\ GestureAt' = GestureAt
        /\ UNCHANGED <<focused, hid, contact, closing, phone, doubt>>
    BY <1>2, EndOfFileDoes DEF Typed
  <2>2. ~LoopTouches /\ ~LoopTouches' /\ (GestureTouches' <=> GestureTouches)
    BY <1>0, <2>1, Parts DEF LoopTouches, GestureTouches
  <2>3. TouchKnown' <=> TouchKnown
    BY <2>1 DEF TouchKnown
  <2>4. Lead(Close) = "join" /\ "join" \notin Lifted
    BY CloseList DEF Lifted, AfterJoin, Starts, Gestures
  <2>5. ~focused => ~contact
    BY <2>1, EmptyList, TouchIs DEF Lifted
  <2>6. (Armed(Gesture, HidUsers, "ensure"))' <=> Armed(Gesture, HidUsers, "ensure")
    BY <2>1 DEF Armed
  <2>7. (Lead(Loop))' = Lead(Close) /\ (Lead(Gesture))' = Lead(Gesture) /\ Lifted' = Lifted
    BY <2>1 DEF Lifted
  <2>8. Settled' => ~contact
    BY <2>1, <2>5 DEF Settled
  <2> QED
    BY <2>1, <2>2, <2>3, <2>4, <2>6, <2>7, <2>8, TouchIs, TouchNext
<1> QED
  BY <1>1, <1>2

(* The loop begins or ends a report.                                         *)
LEMMA TouchLoop ==
  ASSUME Typed, Shape, TouchOk,
         \/ Ensure("loop") \/ Issue("loop") \/ Prepare("loop")
         \/ Succeeds("loop") \/ Fails("loop")
  PROVE  TouchOk'
<1>0. /\ TaskType /\ ModeType /\ LoopShape /\ GestureShape /\ Loop \in Seq(Operation)
      /\ HeldType /\ PhoneType /\ contact \in BOOLEAN
  BY Parts DEF Typed, Shape, ServiceType
<1>t. Loop # <<>> => Tail(Loop) \in Seq(Operation)
  BY <1>0, LoopNow
<1>1. CASE Ensure("loop")
  <2>1. /\ TaskType' /\ Loop # <<>> /\ Lead(Loop) = "ensure" /\ LoopAt = "run"
        /\ UNCHANGED <<focused, closing, contact, phone, doubt>>
        /\ \/ LoopMoves(Tail(Loop), "run") /\ hid # "none" /\ hid' = hid
           \/ LoopMoves(Loop, "await") /\ hid' = "new"
    BY <1>0, <1>1, LoopEnsures
  <2>2. ~LoopTouches /\ (TouchKnown' <=> TouchKnown)
    BY <2>1 DEF LoopTouches, TouchKnown
  <2>3. Lead(Tail(Loop)) \notin Lifted /\ ~Settled /\ Lead(Loop) \notin Lifted
    <3>1. Lead(Loop) \notin Lifted \cup {"lift"}
      BY <2>1 DEF Lifted, AfterJoin, Starts, Gestures
    <3>2. focused
      BY <1>0, <2>1, Alone DEF Connecting
    <3> QED
      BY <2>1, <3>1, <3>2, LiftedTail DEF Settled
  <2>4. hid' # "none" /\ Lead(Loop) \notin TouchReports
    BY <2>1 DEF TouchReports
  <2>5. CASE LoopMoves(Tail(Loop), "run")
    BY <1>t, <2>1, <2>2, <2>3, <2>4, <2>5, TouchIs, TouchLoopStep
  <2>6. CASE LoopMoves(Loop, "await")
    BY <1>0, <2>1, <2>2, <2>3, <2>4, <2>6, TouchIs, TouchLoopStep
  <2> QED
    BY <2>1, <2>5, <2>6
<1>2. CASE Issue("loop")
  <2> DEFINE x == Lead(Loop)
  <2>1. /\ TaskType' /\ Loop # <<>> /\ x \in Awaited /\ LoopAt = "run"
        /\ UNCHANGED <<focused, closing, phone, doubt>>
        /\ hid' = IF x = "dropHid" THEN "none" ELSE hid
        /\ contact' \in BOOLEAN
        /\ x \in TouchHolds => contact'
        /\ x \notin TouchReports => (contact' <=> contact)
        /\ \/ /\ LoopMoves(Loop, "await") /\ (x \in TouchLets => ~contact')
           \/ /\ LoopMoves(Tail(Loop), "run") /\ x \notin TouchHolds
              /\ contact' <=> contact
              /\ x = "lift" => ~contact \/ hid = "none"
    BY <1>0, <1>2, LoopIssues
  <2>2. x \in LoopOps
    BY <1>0, <2>1, LoopNames
  <2>3. ~LoopTouches
    BY <2>1 DEF LoopTouches
  <2>4. x = "dropHid" => ~contact /\ NoGesture
    <3>1. x = "dropHid" => x \in Lifted /\ x \in AfterJoin
      BY DEF Lifted, AfterJoin
    <3> QED
      BY <1>0, <3>1, Alone, TouchIs
  <2>5. x \in TouchHolds => hid # "none" /\ focused
    <3>1. x \in TouchHolds => x \in {"touch", "move"}
      BY <2>2 DEF TouchHolds, LoopOps, Connecting, Acts, Typing, Pointing, Starts, Gestures
    <3>2. x \in TouchHolds => x \in Acts
      BY <3>1 DEF Acts, Pointing
    <3> QED
      BY <1>0, <3>1, <3>2, Alone, TouchIs DEF Active
  <2>6. x \in TouchReports => x \in TouchHolds \/ x \in TouchLets
    BY DEF TouchReports, TouchHolds, TouchLets
  <2>7. contact' => hid' # "none"
    <3>1. "dropHid" \notin TouchReports
      BY DEF TouchReports
    <3>2. CASE x = "dropHid"
      BY <2>1, <2>4, <3>1, <3>2
    <3>3. CASE x # "dropHid" /\ x \in TouchHolds
      BY <2>1, <2>5, <3>3
    <3>4. CASE x # "dropHid" /\ x \notin TouchHolds
      BY <2>1, <2>6, <3>4, TouchIs
    <3> QED
      BY <3>2, <3>3, <3>4
  <2>8. GestureTouches => (contact' <=> contact)
    <3>1. x \in TouchReports => x \in Pointing \cup AfterJoin
      BY <2>2 DEF TouchReports, LoopOps, Connecting, Acts, Typing, Pointing, Starts,
                  Gestures, AfterJoin
    <3>2. x \in TouchReports => NoGesture
      BY <1>0, <3>1, Alone
    <3>3. GestureTouches => ~NoGesture
      BY <1>0, Parts DEF GestureTouches, NoGesture
    <3> QED
      BY <2>1, <3>2, <3>3
  <2>9. hid' = "none" => hid = "none" \/ NoGesture
    BY <2>1, <2>4
  <2>10. Settled => ~contact'
    BY <2>1, <2>5, <2>6, TouchIs DEF Settled
  <2>11. CASE LoopMoves(Loop, "await") /\ (x \in TouchLets => ~contact')
    <3>1. x \in TouchReports => (contact' <=> x \in TouchHolds)
      <4>1. x \in TouchLets => x \notin TouchHolds
        BY DEF TouchLets, TouchHolds
      <4> QED
        BY <2>1, <2>6, <2>11, <4>1
    <3>2. x \notin TouchReports /\ ~GestureTouches => TouchKnown'
      BY <2>1, <2>3, TouchIs DEF TouchKnown
    <3>3. x \in {"touch", "move"} => hid' # "none"
      BY <2>1, <2>5 DEF TouchHolds
    <3>4. x \in Lifted => ~contact'
      <4>1. x \in Lifted => x \notin TouchHolds
        <5>1. x \in TouchHolds => x \in {"touch", "move"}
          BY <2>2
             DEF TouchHolds, LoopOps, Connecting, Acts, Typing, Pointing, Starts, Gestures
        <5> QED
          BY <5>1 DEF Lifted, AfterJoin, Starts, Gestures
      <4> QED
        BY <2>1, <2>6, <2>11, <4>1, TouchIs
    <3> QED
      BY <1>0, <2>1, <2>7, <2>8, <2>9, <2>10, <2>11, <3>1, <3>2, <3>3, <3>4, TouchLoopStep
  <2>12. CASE /\ LoopMoves(Tail(Loop), "run") /\ x \notin TouchHolds
              /\ contact' <=> contact
              /\ x = "lift" => ~contact \/ hid = "none"
    <3>1. ~GestureTouches => TouchKnown'
      BY <2>1, <2>3, <2>12, TouchIs DEF TouchKnown
    <3>2. Lead(Tail(Loop)) \notin {"touch", "move"}
      BY <2>1, LiftedTail DEF Awaited, Holding, Suppressed
    <3>3. Lead(Tail(Loop)) \in Lifted => ~contact'
      BY <2>1, <2>12, LiftedTail, TouchIs
    <3> QED
      BY <1>t, <2>1, <2>7, <2>8, <2>9, <2>10, <2>12, <3>1, <3>2, <3>3, TouchLoopStep
  <2> QED
    BY <2>1, <2>11, <2>12
<1>3. CASE Prepare("loop")
  <2> DEFINE s == IF Lead(Loop) = "reportHeld"
                  THEN KeyStates("keys", UNION held) \o Tail(Loop) ELSE Tail(Loop)
  <2>1. /\ TaskType' /\ Loop # <<>> /\ LoopAt = "run"
        /\ Lead(Loop) \in {"enable", "disable", "forget", "hold", "letGo", "reportHeld"}
        /\ LoopMoves(s, "run")
        /\ UNCHANGED <<focused, hid, contact, closing, phone, doubt>>
    BY <1>0, <1>3, LoopPrepares
  <2>2. s \in Seq(Operation) /\ (Lead(Loop) = "reportHeld" => Lead(s) = "keys")
    <3>1. CASE Lead(Loop) = "reportHeld"
      <4>1. Lead(Tail(Loop)) # "keys"
        BY <1>0, <2>1, <3>1, LoopNames DEF LoopAfter
      <4> QED
        BY <1>0, <1>t, <2>1, <3>1, <4>1, HeldKeys, KeyStatesList
    <3>2. CASE Lead(Loop) # "reportHeld"
      BY <1>t, <2>1, <3>2
    <3> QED
      BY <3>1, <3>2
  <2>3. ~LoopTouches /\ (TouchKnown' <=> TouchKnown)
    BY <2>1 DEF LoopTouches, TouchKnown
  <2>4. Lead(s) \notin {"touch", "move"}
    <3>1. CASE Lead(Loop) = "reportHeld"
      BY <2>2, <3>1
    <3>2. CASE Lead(Loop) # "reportHeld"
      BY <2>1, <3>2, LiftedTail
    <3> QED
      BY <3>1, <3>2
  <2>5. Lead(s) \in Lifted => ~contact
    <3>1. CASE Lead(Loop) = "reportHeld"
      BY <2>2, <3>1 DEF Lifted, AfterJoin, Starts, Gestures
    <3>2. CASE Lead(Loop) # "reportHeld"
      BY <2>1, <3>2, LiftedTail, TouchIs
    <3> QED
      BY <3>1, <3>2
  <2> HIDE DEF s
  <2> QED
    BY <2>1, <2>2, <2>3, <2>4, <2>5, TouchIs, TouchLoopStep
<1>4. ASSUME TaskType', Loop # <<>>, LoopAt = "await", Lead(Loop) # "join",
             Unsure(Lead(Loop)) \/ Sure(Lead(Loop), Head(Loop).keys),
             hid' = "none" => hid = "none" \/ Lead(Loop) = "closeHid",
             Lead(Loop) = "ensure" => hid' # "none" \/ LoopMoves(InputFailed, "run"),
             LoopMoves(Tail(Loop), "run") \/ LoopMoves(InputFailed, "run"),
             UNCHANGED <<focused, contact, closing>>
      PROVE  TouchOk'
  <2>1. Lead(Loop) = "closeHid" => ~contact /\ NoGesture
    <3>1. Lead(Loop) = "closeHid" => Lead(Loop) \in Lifted /\ Lead(Loop) \in AfterJoin
      BY DEF Lifted, AfterJoin
    <3> QED
      BY <1>0, <3>1, Alone, TouchIs
  <2>2. ~GestureTouches => TouchKnown'
    BY <1>4, TouchIs, TouchAnswered DEF LoopTouches
  <2>3. Lead(Loop) \in Lifted \cup {"lift"} => ~contact
    BY <1>4, TouchIs DEF LoopTouches, TouchReports, TouchHolds
  <2>4. contact' => hid' # "none"
    BY <1>4, <2>1, TouchIs
  <2>5. CASE LoopMoves(Tail(Loop), "run") /\ (Lead(Loop) = "ensure" => hid' # "none")
    <3>1. /\ Lead(Tail(Loop)) \in Lifted => ~contact
          /\ Lead(Tail(Loop)) \in {"touch", "move"} => hid' # "none"
      BY <1>4, <2>3, <2>5, LiftedTail
    <3> QED
      BY <1>t, <1>4, <2>1, <2>2, <2>4, <2>5, <3>1, TouchIs, TouchLoopStep
  <2>6. CASE LoopMoves(InputFailed, "run")
    <3>1. InputFailed \in Seq(Operation) /\ Lead(InputFailed) = "disable"
      BY InputFailedList
    <3>2. "disable" \notin Lifted
      BY DEF Lifted, AfterJoin, Starts, Gestures
    <3> QED
      BY <1>4, <2>1, <2>2, <2>4, <2>6, <3>1, <3>2, TouchIs, TouchLoopStep
  <2> QED
    BY <1>4, <2>5, <2>6
<1>5. CASE Succeeds("loop")
  <2>1. /\ TaskType' /\ Loop # <<>> /\ LoopAt = "await" /\ Lead(Loop) # "join"
        /\ Sure(Lead(Loop), Head(Loop).keys)
        /\ hid' = IF Lead(Loop) = "ensure" THEN "open"
                  ELSE IF Lead(Loop) = "closeHid" THEN "none" ELSE hid
        /\ LoopMoves(Tail(Loop), "run")
        /\ UNCHANGED <<focused, contact, closing>>
    BY <1>0, <1>5, LoopSucceeds
  <2> QED
    BY <1>4, <2>1
<1>6. CASE Fails("loop")
  <2>1. /\ TaskType' /\ Loop # <<>> /\ LoopAt = "await" /\ Lead(Loop) # "join"
        /\ Unsure(Lead(Loop))
        /\ hid' = IF Lead(Loop) = "closeHid" THEN "none" ELSE hid
        /\ Lead(Loop) \in Suppressed => LoopMoves(Tail(Loop), "run")
        /\ Lead(Loop) \notin Suppressed => LoopMoves(InputFailed, "run")
        /\ UNCHANGED <<focused, contact, closing>>
    BY <1>0, <1>6, LoopFails
  <2>2. "ensure" \notin Suppressed
    BY DEF Suppressed
  <2> QED
    BY <1>4, <2>1, <2>2
<1> QED
  BY <1>1, <1>2, <1>3, <1>5, <1>6

(* A service comes before those who use it in what is left of a gesture.     *)
LEMMA GestureArmed ==
  ASSUME Typed, Gesture # <<>>, NEW ops, NEW server, Armed(Gesture, ops, server),
         "closeService" \notin ops
  PROVE  /\ Lead(Gesture) \notin ops
         /\ Lead(Gesture) # server => Armed(Tail(Gesture), ops, server)
         /\ Lead(Gesture) \in Suppressed /\ Lead(Gesture) # server =>
              Armed(Remaining("gesture"), ops, server)
<1>0. TaskType /\ Gesture \in Seq(Operation)
  BY Parts DEF Typed
<1>1. /\ Lead(Gesture) \notin ops
      /\ Lead(Gesture) # server => Armed(Tail(Gesture), ops, server)
  BY <1>0, ArmedTail
<1>2. Armed(<<Op("closeService")>>, ops, server)
  <2>1. Len(<<Op("closeService")>>) = 1 /\ <<Op("closeService")>>[1].op = "closeService"
    BY DEF Op
  <2> QED
    BY <2>1 DEF Armed
<1> QED
  BY <1>1, <1>2, RemainingIs, EmptyList

(* The reports of one change of keys use no other service than the keys do.  *)
LEMMA KeyStatesArmed ==
  ASSUME Typed, NEW name \in {"keys", "finalKeys"}, NEW desired \in SUBSET Usages,
         NEW u \in Seq(Operation), NEW ops, name \notin ops, NEW server,
         Armed(u, ops, server)
  PROVE  Armed(KeyStates(name, desired) \o u, ops, server)
<1> DEFINE s == KeyStates(name, desired)
<1>1. s \in Seq(Operation)
  BY KeyStatesType DEF Typed, HeldType
<1>2. Len(s) = 3 /\ s[1].op = name /\ s[2].op = name /\ s[3].op = name
  BY DEF KeyStates, Keys
<1> HIDE DEF s
<1>3. Armed(s, ops, server)
  BY <1>2 DEF Armed
<1>4. Armed(s \o u, ops, server)
  BY <1>1, <1>3, ArmedConcat
<1> QED
  BY <1>4 DEF s

(* The gesture begins or ends a report.                                      *)
LEMMA TouchGesture ==
  ASSUME Typed, Shape, TouchOk,
         \/ Ensure("gesture") \/ Issue("gesture") \/ Prepare("gesture")
         \/ Succeeds("gesture") \/ Fails("gesture")
  PROVE  TouchOk'
<1>0. /\ TaskType /\ ModeType /\ LoopShape /\ GestureShape /\ Gesture \in Seq(Operation)
      /\ HeldType /\ PhoneType /\ contact \in BOOLEAN
  BY Parts DEF Typed, Shape, ServiceType
<1>t. Gesture # <<>> => Tail(Gesture) \in Seq(Operation) /\ ~LoopTouches
  BY <1>0, GestureNow, TouchIs DEF NoGesture
<1>u. "closeService" \notin HidUsers
  BY DEF HidUsers
<1>a. /\ Gesture # <<>> /\ Lead(Gesture) # "ensure" =>
           hid # "none" \/ Armed(Tail(Gesture), HidUsers, "ensure")
      /\ Gesture # <<>> /\ Lead(Gesture) \in HidUsers => hid # "none"
      /\ Gesture # <<>> /\ Lead(Gesture) \in Suppressed =>
           hid # "none" \/ Armed(Remaining("gesture"), HidUsers, "ensure")
  <2>1. "ensure" \notin Suppressed
    BY DEF Suppressed
  <2> QED
    BY <1>u, <2>1, TouchIs, GestureArmed
<1>1. CASE Ensure("gesture")
  <2>1. /\ TaskType' /\ Gesture # <<>> /\ Lead(Gesture) \in {"ensure", "indigo"}
        /\ UNCHANGED <<focused, contact, closing, phone, doubt>>
        /\ hid' \in {hid, "new"}
        /\ Lead(Gesture) = "ensure" => hid' # "none"
        /\ GestureMoves(Tail(Gesture), "run") \/ GestureMoves(Gesture, "await")
    BY <1>0, <1>1, GestureEnsures
  <2>2. Lead(Gesture) \notin TouchReports
    BY <2>1 DEF TouchReports
  <2>3. ~GestureTouches /\ (TouchKnown' <=> TouchKnown)
    BY <2>1, <2>2 DEF GestureTouches, TouchKnown
  <2>4. /\ contact' => hid' # "none"
        /\ hid # "none" => hid' # "none"
    BY <2>1, TouchIs
  <2>5. CASE GestureMoves(Tail(Gesture), "run")
    BY <1>t, <1>a, <2>1, <2>3, <2>4, <2>5, TouchIs, TouchGestureStep
  <2>6. CASE GestureMoves(Gesture, "await")
    BY <1>0, <1>t, <2>1, <2>2, <2>3, <2>4, <2>6, TouchIs, TouchGestureStep
  <2> QED
    BY <2>1, <2>5, <2>6
<1>2. CASE Issue("gesture")
  <2> DEFINE x == Lead(Gesture)
  <2>1. /\ TaskType' /\ Gesture # <<>> /\ x \in Awaited /\ GestureAt # "await"
        /\ UNCHANGED <<focused, closing, phone, doubt, hid>>
        /\ contact' \in BOOLEAN
        /\ x \in TouchHolds => contact'
        /\ x \notin TouchReports => (contact' <=> contact)
        /\ \/ GestureMoves(Gesture, "await") /\ (x \in TouchLets => ~contact')
           \/ /\ GestureMoves(Tail(Gesture), "run") /\ x \notin TouchHolds
              /\ contact' <=> contact
    BY <1>0, <1>2, GestureIssues
  <2>2. ~GestureTouches
    BY <2>1 DEF GestureTouches
  <2>3. x \in TouchHolds => hid # "none" /\ gesture # "none"
    <3>1. x \in TouchHolds => x = "drag"
      BY <1>0, <2>1, GestureNames
         DEF TouchHolds, GestureOps, ScrollOps, HomeOps, ShortcutOps, ShortcutFinals
    <3> QED
      BY <1>0, <1>a, <2>1, <3>1, GestureNames DEF HidUsers, ScrollOps
  <2>4. x \in TouchReports => x \in TouchHolds \/ x \in TouchLets
    BY DEF TouchReports, TouchHolds, TouchLets
  <2>5. x # "ensure"
    BY <2>1 DEF Awaited, Holding, Suppressed
  <2>6. hid # "none" \/ Armed(Gesture, HidUsers, "ensure")
    BY TouchIs
  <2>7. CASE GestureMoves(Gesture, "await") /\ (x \in TouchLets => ~contact')
    <3>1. x \in TouchReports => (contact' <=> x \in TouchHolds)
      <4>1. x \in TouchLets => x \notin TouchHolds
        BY DEF TouchLets, TouchHolds
      <4> QED
        BY <2>1, <2>4, <2>7, <4>1
    <3>2. x \notin TouchReports => TouchKnown'
      BY <1>t, <2>1, <2>2, TouchIs DEF TouchKnown
    <3>3. /\ contact' => hid' # "none"
          /\ contact' => contact \/ gesture # "none"
      BY <2>1, <2>3, <2>4, <2>7, TouchIs
    <3> QED
      BY <1>0, <2>1, <2>6, <2>7, <3>1, <3>2, <3>3, TouchGestureStep
  <2>8. CASE GestureMoves(Tail(Gesture), "run") /\ (contact' <=> contact)
    <3>1. TouchKnown'
      BY <1>t, <2>1, <2>2, <2>8, TouchIs DEF TouchKnown
    <3>2. contact' => hid' # "none"
      BY <2>1, <2>8, TouchIs
    <3> QED
      BY <1>t, <1>a, <2>1, <2>5, <2>8, <3>1, <3>2, TouchGestureStep
  <2> QED
    BY <2>1, <2>7, <2>8
<1>3. CASE Prepare("gesture")
  <2>1. /\ TaskType' /\ Gesture # <<>> /\ GestureAt # "await"
        /\ Lead(Gesture) \in {"report", "finalReport", "check", "again"}
        /\ UNCHANGED <<focused, hid, contact, closing, phone, doubt>>
        /\ Lead(Gesture) = "report" =>
             GestureMoves(KeyStates("keys", Head(Gesture).keys) \o Tail(Gesture), "run")
        /\ Lead(Gesture) = "finalReport" =>
             GestureMoves((IF Sendable THEN KeyStates("finalKeys", {}) ELSE <<>>)
                            \o Tail(Gesture), "run")
        /\ Lead(Gesture) = "check" =>
             GestureMoves(Tail(Gesture), "run") \/ GestureMoves(<<>>, "run")
        /\ Lead(Gesture) = "again" => GestureMoves(Drags, "run") \/ GestureMoves(<<>>, "run")
    BY <1>0, <1>3, GesturePrepares
  <2>2. TouchKnown' /\ (contact' => hid' # "none")
    BY <1>t, <2>1, TouchIs DEF GestureTouches, TouchKnown
  <2>3. ASSUME NEW s \in Seq(Operation), GestureMoves(s, "run"),
               hid # "none" \/ Armed(s, HidUsers, "ensure")
        PROVE  TouchOk'
    BY <2>1, <2>2, <2>3, TouchGestureStep
  <2>4. /\ hid # "none" \/ Armed(Tail(Gesture), HidUsers, "ensure")
        /\ Tail(Gesture) \in Seq(Operation) /\ Head(Gesture).keys \in SUBSET Usages
    BY <1>0, <1>t, <1>a, <2>1, GestureNow
  <2>5. GestureMoves(Tail(Gesture), "run") \/ GestureMoves(<<>>, "run") => TouchOk'
    BY <2>3, <2>4, EmptyList
  <2>6. ASSUME NEW name \in {"keys", "finalKeys"}, NEW desired \in SUBSET Usages,
               GestureMoves(KeyStates(name, desired) \o Tail(Gesture), "run")
        PROVE  TouchOk'
    <3> DEFINE s == KeyStates(name, desired) \o Tail(Gesture)
    <3>1. s \in Seq(Operation)
      BY <1>0, <2>4, KeyStatesType, ConcatFacts DEF HeldType
    <3>2. hid # "none" \/ Armed(s, HidUsers, "ensure")
      BY <2>4, KeyStatesArmed DEF HidUsers
    <3>3. GestureMoves(s, "run")
      BY <2>6
    <3> HIDE DEF s
    <3> QED
      BY <2>3, <3>1, <3>2, <3>3
  <2>7. CASE Lead(Gesture) = "report"
    BY <2>1, <2>4, <2>6, <2>7
  <2>8. CASE Lead(Gesture) = "finalReport"
    <3>1. CASE Sendable
      <4>1. GestureMoves(KeyStates("finalKeys", {}) \o Tail(Gesture), "run")
        BY <2>1, <2>8, <3>1
      <4>2. {} \in SUBSET Usages
        OBVIOUS
      <4> QED
        BY <2>6, <4>1, <4>2
    <3>2. CASE ~Sendable
      <4>1. GestureMoves(<<>> \o Tail(Gesture), "run") /\ <<>> \o Tail(Gesture) = Tail(Gesture)
        BY <2>1, <2>4, <2>8, <3>2
      <4> QED
        BY <2>5, <4>1
    <3> QED
      BY <3>1, <3>2
  <2>9. CASE Lead(Gesture) = "check"
    BY <2>1, <2>5, <2>9
  <2>10. CASE Lead(Gesture) = "again"
    <3>1. hid # "none"
      BY <1>a, <2>1, <2>10 DEF HidUsers
    <3>2. GestureMoves(Drags, "run") => TouchOk'
      BY <2>3, <3>1, DragsList
    <3> QED
      BY <2>1, <2>5, <2>10, <3>2
  <2> QED
    BY <2>1, <2>7, <2>8, <2>9, <2>10
<1>4. CASE Succeeds("gesture")
  <2>1. /\ TaskType' /\ Gesture # <<>> /\ GestureAt = "await"
        /\ Sure(Lead(Gesture), Head(Gesture).keys)
        /\ hid' = IF Lead(Gesture) = "ensure" THEN "open" ELSE hid
        /\ GestureMoves(Tail(Gesture), "run")
        /\ UNCHANGED <<focused, contact, closing>>
    BY <1>0, <1>4, GestureSucceeds
  <2>2. TouchKnown'
    BY <1>t, <2>1, TouchIs, TouchAnswered DEF GestureTouches
  <2> QED
    BY <1>t, <1>a, <2>1, <2>2, TouchIs, TouchGestureStep
<1>5. CASE Fails("gesture")
  <2>1. /\ TaskType' /\ Gesture # <<>> /\ GestureAt = "await"
        /\ Unsure(Lead(Gesture))
        /\ Lead(Gesture) \in Suppressed => GestureMoves(Remaining("gesture"), "run")
        /\ Lead(Gesture) \notin Suppressed => GestureMoves(<<>>, "run")
        /\ UNCHANGED <<focused, hid, contact, closing>>
    BY <1>0, <1>5, GestureFails
  <2>2. TouchKnown'
    BY <1>t, <2>1, TouchIs, TouchAnswered DEF GestureTouches
  <2>3. CASE Lead(Gesture) \in Suppressed
    BY <1>t, <1>a, <2>1, <2>2, <2>3, RemainingIs, TouchIs, TouchGestureStep
  <2>4. CASE Lead(Gesture) \notin Suppressed
    BY <1>t, <2>1, <2>2, <2>4, EmptyList, TouchIs, TouchGestureStep
  <2> QED
    BY <2>3, <2>4
<1> QED
  BY <1>1, <1>2, <1>3, <1>4, <1>5

(* A gesture begins or ends, or is joined.                                   *)
LEMMA TouchJoins ==
  ASSUME Typed, Shape, TouchOk, Start \/ Finally \/ Join \/ Joined
  PROVE  TouchOk'
<1>0. /\ TaskType /\ ModeType /\ LoopShape /\ GestureShape /\ Loop \in Seq(Operation)
      /\ PhoneType
  BY Parts DEF Typed, Shape
<1>f. gesture # "none" => /\ Armed(GestureFinal, HidUsers, "ensure")
                          /\ Lead(Loop) \notin Lifted /\ ~Settled
  <2>1. gesture # "none" => Lead(Loop) \notin Lifted /\ ~Settled
    BY DEF Shape, Apart, Lifted, NoGesture, Active, Releasing
  <2>2. gesture # "none" => Armed(GestureFinal, HidUsers, "ensure")
    BY <1>0, BodyArmed, EmptyList DEF GestureShape, ModeType
  <2> QED
    BY <2>1, <2>2
<1>1. CASE Start
  <2>1. /\ TaskType' /\ Loop # <<>> /\ LoopAt = "run" /\ Lead(Loop) \in Gestures
        /\ Loop' = Tail(Loop) /\ LoopAt' = "run"
        /\ Gesture' = Body(Lead(Loop)) /\ GestureAt' = "ready"
        /\ UNCHANGED <<focused, hid, contact, phone, doubt>>
    BY <1>0, <1>1, StartDoes
  <2>2. focused /\ NoGesture
    <3>1. Lead(Loop) \in Acts \cap Pointing
      BY <2>1 DEF Acts, Pointing, Starts
    <3> QED
      BY <1>0, <3>1, Alone DEF Active
  <2>3. /\ ~LoopTouches /\ ~GestureTouches /\ ~LoopTouches' /\ ~GestureTouches'
    BY <1>0, <2>1, <2>2, Parts DEF LoopTouches, GestureTouches, NoGesture
  <2>4. TouchKnown'
    BY <2>1, <2>3, TouchIs DEF TouchKnown
  <2>5. (Lead(Loop))' = "stop"
    <3>1. Lead(Tail(Loop)) = "stop"
      BY <1>0, <2>1, LoopNames DEF LoopAfter, Gestures
    <3> QED
      BY <2>1, <3>1
  <2>6. ~Settled' /\ "stop" \notin Lifted'
    BY <2>1, <2>2 DEF Settled, Lifted, AfterJoin, Starts, Gestures
  <2>7. (Armed(Gesture, HidUsers, "ensure"))'
    <3>1. Armed(Body(Lead(Loop)), HidUsers, "ensure")
      BY <2>1, BodyArmed
    <3> QED
      BY <2>1, <3>1 DEF Armed
  <2>8. contact' => hid' # "none"
    BY <2>1, TouchIs
  <2> QED
    BY <2>1, <2>3, <2>4, <2>5, <2>6, <2>7, <2>8, TouchNext
<1>2. CASE Finally
  <2>1. /\ TaskType' /\ Gesture = <<>> /\ GestureAt = "run" /\ gesture # "none"
        /\ Gesture' = GestureFinal /\ GestureAt' = "run"
        /\ UNCHANGED <<Loop, LoopAt, LoopFinal>>
        /\ UNCHANGED <<focused, hid, contact, closing, phone, doubt>>
    BY <1>2, FinallyDoes
  <2>2. /\ LoopTouches' <=> LoopTouches
        /\ ~GestureTouches /\ ~GestureTouches'
        /\ Lifted' = Lifted /\ (Settled' <=> Settled) /\ (TouchKnown' <=> TouchKnown)
    BY <2>1 DEF LoopTouches, GestureTouches, Lifted, Settled, TouchKnown
  <2>3. (Armed(Gesture, HidUsers, "ensure"))'
    BY <1>f, <2>1 DEF Armed
  <2>4. (Lead(Loop))' = Lead(Loop)
    BY <2>1
  <2> QED
    BY <2>1, <2>2, <2>3, <2>4, TouchIs, TouchNext
<1>j. ASSUME TaskType', Loop # <<>>, Lead(Loop) = "join", LoopMoves(Tail(Loop), "run"),
             UNCHANGED <<focused, hid, contact, closing, phone, doubt>>
      PROVE  TouchOk'
  <2>1. ~LoopTouches /\ (TouchKnown' <=> TouchKnown)
    BY <1>j DEF LoopTouches, TouchReports, TouchKnown
  <2>2. Lead(Tail(Loop)) \notin Lifted /\ Lead(Tail(Loop)) \notin {"touch", "move"}
    BY <1>j, LiftedTail DEF Lifted, AfterJoin, Starts, Gestures
  <2>3. Tail(Loop) \in Seq(Operation)
    BY <1>0, <1>j, LoopNow
  <2> QED
    BY <1>j, <2>1, <2>2, <2>3, TouchIs, TouchLoopStep
<1>3. CASE Join
  <2>1. /\ TaskType' /\ Loop # <<>> /\ Lead(Loop) = "join" /\ LoopAt = "run"
        /\ UNCHANGED <<focused, hid, contact, closing>>
        /\ \/ LoopMoves(Tail(Loop), "run") /\ UNCHANGED <<phone, doubt>>
           \/ /\ gesture # "none" /\ Dropped
              /\ Loop' = Loop /\ LoopFinal' = LoopFinal /\ LoopAt' = "await"
              /\ GestureAt = "await" => Unsure(Lead(Gesture))
              /\ GestureAt # "await" => UNCHANGED <<phone, doubt>>
    BY <1>0, <1>3, JoinDoes
  <2>2. CASE LoopMoves(Tail(Loop), "run") /\ UNCHANGED <<phone, doubt>>
    BY <1>j, <2>1, <2>2
  <2>3. CASE /\ gesture # "none" /\ Dropped
             /\ Loop' = Loop /\ LoopFinal' = LoopFinal /\ LoopAt' = "await"
             /\ GestureAt = "await" => Unsure(Lead(Gesture))
             /\ GestureAt # "await" => UNCHANGED <<phone, doubt>>
    <3>1. /\ Gesture' = IF GestureAt = "ready" THEN <<>> ELSE GestureFinal
          /\ GestureAt' = "run"
      BY <2>3 DEF Dropped
    <3>2. /\ ~LoopTouches /\ ~LoopTouches' /\ ~GestureTouches'
          /\ Lifted' = Lifted /\ (Settled' <=> Settled)
      BY <2>1, <2>3, <3>1
         DEF LoopTouches, GestureTouches, Lifted, Settled, TouchReports
    <3>3. TouchKnown'
      <4>1. CASE GestureAt = "await"
        BY <2>1, <2>3, <3>2, <4>1, TouchIs, TouchAnswered DEF GestureTouches
      <4>2. CASE GestureAt # "await"
        BY <2>1, <2>3, <3>2, <4>2, TouchIs DEF GestureTouches, TouchKnown
      <4> QED
        BY <4>1, <4>2
    <3>4. (Armed(Gesture, HidUsers, "ensure"))'
      <4>1. Armed(Gesture', HidUsers, "ensure")
        BY <1>f, <2>3, <3>1, EmptyList
      <4> QED
        BY <4>1 DEF Armed
    <3>5. (Lead(Loop))' = Lead(Loop)
      BY <2>3
    <3> QED
      BY <1>f, <2>1, <2>3, <3>2, <3>3, <3>4, <3>5, TouchIs, TouchNext
  <2> QED
    BY <2>1, <2>2, <2>3
<1>4. CASE Joined
  <2>1. /\ TaskType' /\ Loop # <<>> /\ Lead(Loop) = "join" /\ LoopMoves(Tail(Loop), "run")
        /\ UNCHANGED <<focused, hid, contact, closing, phone, doubt>>
    BY <1>4, JoinedDoes
  <2> QED
    BY <1>j, <2>1
<1> QED
  BY <1>1, <1>2, <1>3, <1>4

(* close_session: the bridge is interrupted, and closed once more.           *)
LEMMA TouchCloses ==
  ASSUME Typed, Shape, TouchOk, Cancel \/ BridgeClose \/ BridgeClosed \/ UNCHANGED vars
  PROVE  TouchOk'
<1>0. /\ TaskType /\ ModeType /\ LoopShape /\ GestureShape /\ PhoneType
  BY DEF Typed, Shape
<1>s. ASSUME TaskType', Still, UNCHANGED <<focused, hid, contact, phone, doubt>>,
             Settled' => Settled
      PROVE  TouchOk'
  <2>1. /\ (LoopTouches' <=> LoopTouches) /\ (GestureTouches' <=> GestureTouches)
        /\ Lifted' = Lifted /\ (TouchKnown' <=> TouchKnown)
        /\ (Lead(Loop))' = Lead(Loop) /\ (Lead(Gesture))' = Lead(Gesture)
    BY <1>s DEF Still, LoopTouches, GestureTouches, Lifted, TouchKnown
  <2>2. (Armed(Gesture, HidUsers, "ensure"))' <=> Armed(Gesture, HidUsers, "ensure")
    BY <1>s DEF Still, Armed
  <2> QED
    BY <1>s, <2>1, <2>2, TouchIs, TouchNext
<1>c. ASSUME TaskType', Cut, UNCHANGED <<focused, hid, contact>>,
             Settled' => Settled,
             LoopFinal = <<>> /\ ~focused => Settled
      PROVE  TouchOk'
  <2>1. /\ Loop' = LoopFinal /\ LoopAt' = "run" /\ Gesture' = Gesture
        /\ GestureAt' = GestureAt
        /\ LoopAt = "await" => Unsure(Lead(Loop))
        /\ LoopAt # "await" => UNCHANGED <<phone, doubt>>
    BY <1>c DEF Cut
  <2>2. ~LoopTouches' /\ (GestureTouches' <=> GestureTouches)
    BY <2>1 DEF LoopTouches, GestureTouches
  <2>3. ~GestureTouches => TouchKnown'
    <3>1. CASE LoopAt = "await"
      BY <1>c, <2>1, <3>1, TouchIs, TouchAnswered DEF LoopTouches
    <3>2. CASE LoopAt # "await"
      BY <1>c, <2>1, <3>2, TouchIs DEF LoopTouches, TouchKnown
    <3> QED
      BY <3>1, <3>2
  <2>4. (Armed(Gesture, HidUsers, "ensure"))' <=> Armed(Gesture, HidUsers, "ensure")
    BY <2>1 DEF Armed
  <2>5. (Lead(Loop))' = Lead(LoopFinal) /\ (Lead(Gesture))' = Lead(Gesture)
        /\ Lifted' = Lifted
    BY <1>c, <2>1 DEF Lifted
  <2>6. /\ Lead(LoopFinal) \notin {"touch", "move"}
        /\ Lead(LoopFinal) \in Lifted => LoopFinal = <<>> /\ ~focused
    <3>1. LoopFinal = <<>> \/ LoopFinal = Close
      BY <1>0 DEF LoopShape
    <3>2. /\ LoopFinal = <<>> => Lead(LoopFinal) = "stop"
          /\ LoopFinal # <<>> => Lead(LoopFinal) = "join"
      BY <3>1, EmptyList, CloseList
    <3> QED
      BY <3>2 DEF Lifted, AfterJoin, Starts, Gestures
  <2> QED
    BY <1>c, <2>2, <2>3, <2>4, <2>5, <2>6, TouchIs, TouchNext
<1>1. CASE Cancel
  <2>1. /\ TaskType' /\ closing = "no" /\ closing' = "asked"
        /\ UNCHANGED <<focused, hid, contact>>
        /\ \/ Still /\ UNCHANGED <<phone, doubt>>
           \/ /\ Joining /\ Dropped /\ Loop' = Loop /\ LoopFinal' = LoopFinal
              /\ LoopAt' = "await"
              /\ GestureAt = "await" => Unsure(Lead(Gesture))
              /\ GestureAt # "await" => UNCHANGED <<phone, doubt>>
           \/ Cut
    BY <1>0, <1>1, CancelDoes
  <2>2. CASE Still /\ UNCHANGED <<phone, doubt>>
    <3>1. Settled' => Settled
      BY <2>1, <2>2 DEF Settled, Still
    <3> QED
      BY <1>s, <2>1, <2>2, <3>1
  <2>3. CASE /\ Joining /\ Dropped /\ Loop' = Loop /\ LoopFinal' = LoopFinal
             /\ LoopAt' = "await"
             /\ GestureAt = "await" => Unsure(Lead(Gesture))
             /\ GestureAt # "await" => UNCHANGED <<phone, doubt>>
    <3>1. gesture = "none" /\ GestureFinal = <<>>
      BY <1>0, <2>3 DEF Shape, Apart, GestureShape
    <3>2. Gesture' = <<>> /\ GestureAt' = "run"
      BY <2>3, <3>1 DEF Dropped
    <3>3. /\ ~LoopTouches /\ ~LoopTouches' /\ ~GestureTouches'
          /\ Lifted' = Lifted /\ (Settled' => Settled)
      BY <2>1, <2>3, <3>2
         DEF LoopTouches, GestureTouches, Lifted, Settled, TouchReports, Joining
    <3>4. TouchKnown'
      <4>1. CASE GestureAt = "await"
        BY <2>1, <2>3, <3>3, <4>1, TouchIs, TouchAnswered DEF GestureTouches
      <4>2. CASE GestureAt # "await"
        BY <2>1, <2>3, <3>3, <4>2, TouchIs DEF GestureTouches, TouchKnown
      <4> QED
        BY <4>1, <4>2
    <3>5. (Armed(Gesture, HidUsers, "ensure"))'
      <4>1. Armed(Gesture', HidUsers, "ensure")
        BY <3>2, EmptyList
      <4> QED
        BY <4>1 DEF Armed
    <3>6. (Lead(Loop))' = Lead(Loop)
      BY <2>3
    <3> QED
      BY <2>1, <3>3, <3>4, <3>5, <3>6, TouchIs, TouchNext
  <2>4. CASE Cut
    <3>1. (Settled' => Settled) /\ (LoopFinal = <<>> /\ ~focused => Settled)
      BY <1>0, <2>1, <2>4, CloseList DEF Settled, Cut, LoopShape
    <3> QED
      BY <1>c, <2>1, <2>4, <3>1
  <2> QED
    BY <2>1, <2>2, <2>3, <2>4
<1>2. CASE BridgeClose
  <2>1. /\ TaskType' /\ closing = "asked" /\ closing' = "bridge"
        /\ Loop = <<>> /\ LoopFinal = <<>> /\ LoopMoves(Close, "run")
        /\ UNCHANGED <<focused, hid, contact, phone, doubt>>
    BY <1>0, <1>2, BridgeCloseDoes
  <2>2. ~LoopTouches /\ ~LoopTouches' /\ (GestureTouches' <=> GestureTouches)
    BY <1>0, <2>1, Parts DEF LoopTouches, GestureTouches, LoopMoves
  <2>3. /\ (TouchKnown' <=> TouchKnown) /\ (Settled' => Settled) /\ Lifted' = Lifted
    BY <2>1 DEF TouchKnown, Settled, Lifted, LoopMoves
  <2>4. Lead(Close) = "join" /\ "join" \notin Lifted
    BY CloseList DEF Lifted, AfterJoin, Starts, Gestures
  <2>5. (Armed(Gesture, HidUsers, "ensure"))' <=> Armed(Gesture, HidUsers, "ensure")
    BY <2>1 DEF Armed, LoopMoves
  <2>6. (Lead(Loop))' = Lead(Close) /\ (Lead(Gesture))' = Lead(Gesture)
    BY <2>1 DEF LoopMoves
  <2> QED
    BY <2>1, <2>2, <2>3, <2>4, <2>5, <2>6, TouchIs, TouchNext
<1>3. CASE BridgeClosed
  <2>1. /\ TaskType' /\ closing = "bridge" /\ closing' = "done"
        /\ UNCHANGED <<focused, hid, contact>>
        /\ (Still /\ UNCHANGED <<phone, doubt>>) \/ Cut
    BY <1>0, <1>3, BridgeClosedDoes
  <2>2. LoopFinal = <<>>
    BY <1>0, <2>1 DEF LoopShape
  <2>3. (Settled' => Settled) /\ (LoopFinal = <<>> /\ ~focused => Settled)
    BY <2>1, <2>2 DEF Settled
  <2> QED
    BY <1>s, <1>c, <2>1, <2>3
<1>4. CASE UNCHANGED vars
  <2>1. /\ UNCHANGED <<focused, hid, contact, phone, doubt>> /\ UNCHANGED <<task, closing>>
    BY <1>4 DEF vars, services, record
  <2>2. TaskType' /\ Still
    BY <1>0, <2>1, StillIs
  <2>3. Settled' => Settled
    BY <2>1, <2>2 DEF Settled, Still
  <2> QED
    BY <1>s, <2>1, <2>2, <2>3
<1> QED
  BY <1>1, <1>2, <1>3, <1>4

(* Every step keeps what is known of the contact.                            *)
LEMMA TouchStep ==
  ASSUME Typed, Shape, TouchOk, [Next]_vars
  PROVE  TouchOk'
BY Steps, TouchReads, TouchLoop, TouchGesture, TouchJoins, TouchCloses

-----------------------------------------------------------------------------
(* The keys.                                                                 *)

(* Where the keys are cleared there is no gesture.                           *)
LEMMA ClearedAlone ==
  ASSUME Typed, Shape
  PROVE  Lead(Loop) \in Cleared \/ Settled => NoGesture
<1>0. TaskType /\ Loop \in Seq(Operation)
  BY Parts DEF Typed
<1>1. Settled => NoGesture
  BY DEF Shape, Apart
<1>2. Lead(Loop) \in AfterJoin => NoGesture
  BY <1>0, Alone
<1>3. Lead(Loop) = "stop" /\ ~focused => NoGesture
  BY <1>0, LeadFacts, Unfocused
<1> QED
  BY <1>1, <1>2, <1>3 DEF Cleared

(* What comes before an operation of the loop.                               *)
LEMMA BeforeTail ==
  ASSUME Typed, Shape, Loop # <<>>
  PROVE  LET x == Lead(Loop)
             y == Lead(Tail(Loop))
         IN /\ y \in Cleared => x \in Cleared \cup {"clearKeys"}
            /\ y \in AfterJoin => x \in AfterJoin \cup {"join"}
            /\ y = "keys" => x = "keys"
            /\ y = "keyboard" => x = "ensure"
            /\ y \in {"hold", "letGo", "reportHeld", "keys"} =>
                 x \in {"keyboard", "hold", "letGo", "reportHeld", "keys"}
            /\ y \in Resting =>
                 x \in Resting \cup {"keys", "reportHeld", "clearKeys"} \cup (AfterJoin \ {"lift"})
<1> DEFINE x == Lead(Loop)
           y == Lead(Tail(Loop))
<1>0. TaskType /\ LoopShape
  BY DEF Typed, Shape
<1>1. x \in LoopOps /\ y \in LoopAfter(x)
  BY <1>0, LoopNames
<1>2. x \in Acts \cup Connecting => focused
  BY <1>0, Alone DEF Active
<1> HIDE DEF x, y
<1>a. AfterJoin = {"lift", "clearKeys", "closeHid", "closeIndigo", "dropHid", "dropIndigo",
                   "forget", "home", "search", "paste"}
  BY DEF AfterJoin, Starts, Gestures
<1>b. Acts = {"keyboard", "hold", "letGo", "reportHeld", "keys", "touch", "untouch", "move",
              "scroll", "home", "search", "paste"}
  BY DEF Acts, Typing, Pointing, Starts, Gestures
<1>c. Connecting = {"ensure", "enable"}
  BY DEF Connecting
<1>3. CASE x \in Acts \cup Connecting
  <2>1. Cleared = {"closeHid", "closeIndigo", "dropHid", "dropIndigo", "forget", "home",
                   "search", "paste"}
    BY <1>2, <1>3, <1>a DEF Cleared
  <2>2. y \notin AfterJoin
    BY <1>1, <1>3, <1>a, <1>b, <1>c DEF LoopAfter
  <2>3. y \notin Cleared
    BY <1>a, <2>1, <2>2
  <2>4. /\ y = "keys" => x = "keys"
        /\ y = "keyboard" => x = "ensure"
        /\ y \in {"hold", "letGo", "reportHeld", "keys"} =>
             x \in {"keyboard", "hold", "letGo", "reportHeld", "keys"}
    BY <1>1, <1>3, <1>b, <1>c DEF LoopAfter
  <2>5. y \in Resting =>
          x \in Resting \cup {"keys", "reportHeld", "clearKeys"} \cup (AfterJoin \ {"lift"})
    BY <1>1, <1>3, <1>a, <1>b, <1>c DEF LoopAfter, Resting
  <2> QED
    BY <2>2, <2>3, <2>4, <2>5 DEF x, y
<1>4. CASE x \in {"join", "lift", "clearKeys", "closeHid", "closeIndigo", "dropHid",
                  "dropIndigo", "forget", "disable"}
  <2>1. x \in {"closeHid", "closeIndigo", "dropHid", "dropIndigo", "forget"} => x \in Cleared
    BY <1>a DEF Cleared
  <2>2. y \in Cleared => x \in Cleared \cup {"clearKeys"}
    <3>1. y \in Cleared => y \notin {"lift", "clearKeys", "join"}
      BY <1>a DEF Cleared
    <3>2. x \in {"join", "lift", "disable"} => y \in {"lift", "clearKeys", "join"}
      BY <1>1 DEF LoopAfter
    <3> QED
      BY <1>4, <2>1, <3>1, <3>2
  <2>3. y \in AfterJoin => x \in AfterJoin \cup {"join"}
    BY <1>1, <1>4, <1>a DEF LoopAfter
  <2>4. y \notin {"keys", "keyboard", "hold", "letGo", "reportHeld"}
    BY <1>1, <1>4 DEF LoopAfter
  <2>5. y \in Resting => x \in AfterJoin \ {"lift"}
    BY <1>1, <1>4, <1>a DEF LoopAfter, Resting
  <2> QED
    BY <2>2, <2>3, <2>4, <2>5 DEF x, y
<1> QED
  BY <1>1, <1>3, <1>4 DEF LoopOps

(* An answer to the report x, and what it leaves of the keys.                *)
LEMMA KeysSure ==
  ASSUME NEW x, NEW keys, Sure(x, keys), KeysOk,
         reported' = IF x \in KeyReports THEN keys ELSE reported
  PROVE  /\ doubt'.keys = "none" => phone'.keys = reported'
         /\ x \notin KeyReports => (KeysClear' <=> KeysClear) /\ doubt'.keys = doubt.keys
                                   /\ reported' = reported
         /\ x \in KeyReports => reported' = keys /\ (keys = {} => KeysClear')
BY DEF Sure, KeysOk, KeysClear, KeyReports

(* And what a failure leaves.                                                *)
LEMMA KeysUnsure ==
  ASSUME NEW x, Unsure(x), KeysOk, reported' = reported
  PROVE  /\ doubt'.keys = "none" => phone'.keys = reported'
         /\ x \notin KeyReports => (KeysClear' <=> KeysClear) /\ doubt'.keys = doubt.keys
         /\ x \in KeyReports => doubt'.keys # "none"
         /\ x = "clearKeys" => KeysClear'
BY DEF Unsure, KeysOk, KeysClear, KeyReports

(* A step of the loop.                                                       *)
LEMMA KeysLoopStep ==
  ASSUME Typed, Shape, KeysOk, NEW s \in Seq(Operation), NEW at \in {"run", "await"},
         LoopMoves(s, at), UNCHANGED <<focused, closing>>,
         doubt'.keys = "none" => phone'.keys = reported',
         ~Sendable' => KeysClear' /\ (~Sendable \/ NoGesture),
         Lead(s) \in {"hold", "letGo", "reportHeld", "keys"} => Sendable',
         Lead(s) = "keyboard" => hid' # "none",
         Lead(s) \in Cleared \/ Settled => KeysClear'
  PROVE  KeysOk'
<1>1. /\ Loop' = s /\ LoopFinal' = LoopFinal /\ Gesture' = Gesture /\ (Lead(Loop))' = Lead(s)
  BY DEF LoopMoves
<1>2. Cleared' = Cleared
  BY DEF Cleared
<1>3. Settled' => Settled \/ Lead(s) \in Cleared
  BY <1>1, EmptyList DEF Settled, Cleared
<1>4. Sendable' \/ (Armed(Gesture, KeyUsers, "keyboard"))'
  <2>1. NoGesture => Armed(Gesture, KeyUsers, "keyboard")
    BY EmptyList DEF NoGesture
  <2>2. Sendable' \/ Armed(Gesture, KeyUsers, "keyboard")
    BY <2>1 DEF KeysOk
  <2> QED
    BY <1>1, <2>2 DEF Armed
<1> QED
  BY <1>1, <1>2, <1>3, <1>4 DEF KeysOk

(* A step of the gesture.                                                    *)
LEMMA KeysGestureStep ==
  ASSUME Typed, Shape, KeysOk, NEW s \in Seq(Operation), NEW at \in {"run", "await"},
         GestureMoves(s, at), UNCHANGED <<focused, closing>>, Gesture # <<>>,
         doubt'.keys = "none" => phone'.keys = reported',
         Sendable => Sendable', hid # "none" => hid' # "none",
         ~Sendable' => KeysClear',
         Sendable' \/ Armed(s, KeyUsers, "keyboard")
  PROVE  KeysOk'
<1>1. /\ Gesture' = s /\ LoopFinal' = LoopFinal /\ Loop' = Loop /\ (Lead(Loop))' = Lead(Loop)
  BY DEF GestureMoves
<1>2. Cleared' = Cleared /\ (Settled' <=> Settled)
  BY <1>1 DEF Cleared, Settled
<1>3. Lead(Loop) \notin Cleared /\ ~Settled
  BY ClearedAlone DEF NoGesture
<1>4. Sendable' \/ (Armed(Gesture, KeyUsers, "keyboard"))'
  BY <1>1 DEF Armed
<1> QED
  BY <1>1, <1>2, <1>3, <1>4 DEF KeysOk

(* The loop reads an event, or mpv has exited.                               *)
LEMMA KeysReads ==
  ASSUME Typed, Shape, KeysOk, Reads \/ EndOfFile
  PROVE  KeysOk'
<1>0. TaskType /\ LoopShape
  BY DEF Typed, Shape
<1>1. CASE Reads
  <2>1. PICK s \in Seq(Operation) : Read(s)
    BY <1>1, ReadsDoes
  <2>2. /\ Loop' = s /\ LoopFinal' = LoopFinal /\ Gesture' = Gesture /\ LoopFinal # <<>>
        /\ UNCHANGED <<hid, keyboard, reported, phone, doubt>>
        /\ Lead(s) \in {"stop", "join", "move", "ensure", "untouch", "scroll"}
        /\ Lead(s) = "stop" => focused'
    BY <2>1 DEF Read, LoopMoves
  <2>3. (Sendable' <=> Sendable) /\ (KeysClear' <=> KeysClear)
    BY <2>2 DEF Sendable, KeysClear
  <2>4. Lead(s) \notin Cleared' /\ ~Settled'
    BY <2>2 DEF Cleared, AfterJoin, Starts, Gestures, Settled
  <2>5. (Armed(Gesture, KeyUsers, "keyboard"))' <=> Armed(Gesture, KeyUsers, "keyboard")
    BY <2>2 DEF Armed
  <2>6. (Lead(Loop))' = Lead(s)
    BY <2>2
  <2> QED
    BY <2>2, <2>3, <2>4, <2>5, <2>6 DEF KeysOk
<1>2. CASE EndOfFile
  <2>1. /\ Loop = <<>> /\ LoopFinal # <<>> /\ Loop' = Close /\ LoopFinal' = <<>>
        /\ Gesture' = Gesture
        /\ UNCHANGED <<focused, hid, keyboard, reported, closing, phone, doubt>>
    BY <1>2, EndOfFileDoes DEF Typed
  <2>2. (Sendable' <=> Sendable) /\ (KeysClear' <=> KeysClear)
    BY <2>1 DEF Sendable, KeysClear
  <2>3. Lead(Close) = "join" /\ "join" \notin Cleared'
    BY CloseList DEF Cleared, AfterJoin, Starts, Gestures
  <2>4. Settled' => KeysClear
    <3>1. ~focused => KeysClear
      BY <2>1, EmptyList DEF KeysOk, Cleared
    <3> QED
      BY <2>1, <3>1 DEF Settled
  <2>5. (Armed(Gesture, KeyUsers, "keyboard"))' <=> Armed(Gesture, KeyUsers, "keyboard")
    BY <2>1 DEF Armed
  <2>6. (Lead(Loop))' = Lead(Close)
    BY <2>1
  <2> QED
    BY <2>1, <2>2, <2>3, <2>4, <2>5, <2>6 DEF KeysOk
<1> QED
  BY <1>1, <1>2

(* The loop begins or ends a report.                                         *)
LEMMA KeysLoop ==
  ASSUME Typed, Shape, KeysOk,
         \/ Ensure("loop") \/ Issue("loop") \/ Prepare("loop")
         \/ Succeeds("loop") \/ Fails("loop")
  PROVE  KeysOk'
<1>0. /\ TaskType /\ ModeType /\ LoopShape /\ GestureShape /\ Loop \in Seq(Operation)
      /\ HeldType /\ PhoneType /\ keyboard \in BOOLEAN
  BY Parts DEF Typed, Shape, ServiceType
<1>t. Loop # <<>> => Tail(Loop) \in Seq(Operation)
  BY <1>0, LoopNow
<1>c. Lead(Loop) \in {"dropHid", "closeHid", "forget"} => KeysClear /\ NoGesture
  <2>1. Lead(Loop) \in {"dropHid", "closeHid", "forget"} => Lead(Loop) \in Cleared
    BY DEF Cleared, AfterJoin
  <2> QED
    BY <2>1, ClearedAlone DEF KeysOk
<1>k. /\ Lead(Loop) \in {"hold", "letGo", "reportHeld", "keys"} => Sendable
      /\ Lead(Loop) = "keyboard" => hid # "none"
      /\ Lead(Loop) \in Cleared \/ Settled => KeysClear
      /\ doubt.keys = "none" => phone.keys = reported
      /\ ~Sendable => KeysClear
  BY DEF KeysOk
<1>i. InputFailed \in Seq(Operation) /\ Lead(InputFailed) = "disable"
  BY InputFailedList
<1>d. "disable" \notin Cleared
  BY DEF Cleared, AfterJoin, Starts, Gestures
<1>1. CASE Ensure("loop")
  <2>1. /\ Loop # <<>> /\ Lead(Loop) = "ensure"
        /\ UNCHANGED <<focused, closing, keyboard, reported, phone, doubt>>
        /\ \/ LoopMoves(Tail(Loop), "run") /\ hid # "none" /\ hid' = hid
           \/ LoopMoves(Loop, "await") /\ hid' = "new"
    BY <1>0, <1>1, LoopEnsures
  <2>2. (KeysClear' <=> KeysClear) /\ hid' # "none" /\ (~Sendable' => ~Sendable)
    BY <2>1 DEF KeysClear, Sendable
  <2>3. Lead(Loop) \notin Cleared \cup {"clearKeys"}
        /\ Lead(Loop) \notin {"keyboard", "hold", "letGo", "reportHeld", "keys"}
    <3>1. focused
      BY <1>0, <2>1, Alone DEF Connecting
    <3> QED
      BY <2>1, <3>1 DEF Cleared, AfterJoin, Starts, Gestures
  <2>4. CASE LoopMoves(Tail(Loop), "run")
    BY <1>t, <1>k, <2>1, <2>2, <2>3, <2>4, BeforeTail, KeysLoopStep
  <2>5. CASE LoopMoves(Loop, "await")
    BY <1>0, <1>k, <2>1, <2>2, <2>3, <2>5, KeysLoopStep
  <2> QED
    BY <2>1, <2>4, <2>5
<1>2. CASE Issue("loop")
  <2> DEFINE x == Lead(Loop)
  <2>1. /\ Loop # <<>> /\ x \in Awaited
        /\ UNCHANGED <<focused, closing, keyboard, reported, phone, doubt>>
        /\ hid' = IF x = "dropHid" THEN "none" ELSE hid
        /\ \/ LoopMoves(Loop, "await")
           \/ /\ LoopMoves(Tail(Loop), "run")
              /\ x = "clearKeys" => ~Sendable
              /\ x = "keyboard" => keyboard
    BY <1>0, <1>2, LoopIssues
  <2>2. KeysClear' <=> KeysClear
    BY <2>1 DEF KeysClear
  <2>3. /\ Sendable' <=> Sendable /\ x # "dropHid"
        /\ ~Sendable' => KeysClear' /\ (~Sendable \/ NoGesture)
    BY <1>c, <1>k, <2>1, <2>2 DEF Sendable
  <2>4. CASE LoopMoves(Loop, "await")
    <3>1. x \in {"hold", "letGo", "reportHeld", "keys"} => Sendable'
      BY <1>k, <2>3
    <3>2. x = "keyboard" => hid' # "none"
      BY <1>k, <2>1
    <3> QED
      BY <1>0, <1>k, <2>1, <2>2, <2>3, <2>4, <3>1, <3>2, KeysLoopStep
  <2>5. CASE /\ LoopMoves(Tail(Loop), "run")
             /\ x = "clearKeys" => ~Sendable
             /\ x = "keyboard" => keyboard
    <3>1. Lead(Tail(Loop)) \in {"hold", "letGo", "reportHeld", "keys"} => Sendable'
      BY <1>k, <2>1, <2>3, <2>5, BeforeTail DEF Sendable
    <3>2. Lead(Tail(Loop)) # "keyboard"
      BY <2>1, BeforeTail DEF Awaited, Holding, Suppressed
    <3>3. Lead(Tail(Loop)) \in Cleared => KeysClear'
      BY <1>k, <2>1, <2>2, <2>5, BeforeTail
    <3> QED
      BY <1>t, <1>k, <2>1, <2>2, <2>3, <2>5, <3>1, <3>2, <3>3, KeysLoopStep
  <2> QED
    BY <2>1, <2>4, <2>5
<1>3. CASE Prepare("loop")
  <2> DEFINE x == Lead(Loop)
             s == IF x = "reportHeld"
                  THEN KeyStates("keys", UNION held) \o Tail(Loop) ELSE Tail(Loop)
  <2>1. /\ Loop # <<>>
        /\ x \in {"enable", "disable", "forget", "hold", "letGo", "reportHeld"}
        /\ LoopMoves(s, "run")
        /\ UNCHANGED <<focused, hid, closing, phone, doubt>>
        /\ keyboard' <=> keyboard /\ x # "forget"
        /\ keyboard' \in BOOLEAN
        /\ reported' = IF x = "forget" THEN {} ELSE reported
    BY <1>0, <1>3, LoopPrepares
  <2>2. s \in Seq(Operation) /\ (x = "reportHeld" => Lead(s) = "keys")
    <3>1. CASE x = "reportHeld"
      <4>1. Lead(Tail(Loop)) # "keys"
        BY <1>0, <2>1, <3>1, LoopNames DEF LoopAfter
      <4> QED
        BY <1>0, <1>t, <2>1, <3>1, <4>1, HeldKeys, KeyStatesList
    <3>2. CASE x # "reportHeld"
      BY <1>t, <2>1, <3>2
    <3> QED
      BY <3>1, <3>2
  <2>3. /\ KeysClear => KeysClear'
        /\ doubt'.keys = "none" => phone'.keys = reported'
    BY <1>c, <1>k, <2>1 DEF KeysClear
  <2>4. /\ Sendable' <=> Sendable /\ x # "forget"
        /\ ~Sendable' => KeysClear' /\ (~Sendable \/ NoGesture)
    BY <1>c, <1>k, <2>1, <2>3 DEF Sendable
  <2>5. Lead(s) \in {"hold", "letGo", "reportHeld", "keys"} => Sendable'
    <3>1. CASE x = "reportHeld"
      BY <1>k, <2>4, <3>1
    <3>2. CASE x # "reportHeld"
      BY <1>k, <2>1, <2>4, <3>2, BeforeTail
    <3> QED
      BY <3>1, <3>2
  <2>6. Lead(s) # "keyboard"
    <3>1. CASE x = "reportHeld"
      BY <2>2, <3>1
    <3>2. CASE x # "reportHeld"
      BY <2>1, <3>2, BeforeTail
    <3> QED
      BY <3>1, <3>2
  <2>7. Lead(s) \in Cleared => KeysClear'
    <3>1. CASE x = "reportHeld"
      BY <2>2, <3>1 DEF Cleared, AfterJoin, Starts, Gestures
    <3>2. CASE x # "reportHeld"
      BY <1>k, <2>1, <2>3, <3>2, BeforeTail
    <3> QED
      BY <3>1, <3>2
  <2> HIDE DEF s
  <2> QED
    BY <1>k, <2>1, <2>2, <2>3, <2>4, <2>5, <2>6, <2>7, KeysLoopStep
<1>4. CASE Succeeds("loop")
  <2> DEFINE x == Lead(Loop)
  <2>1. /\ Loop # <<>> /\ x # "join" /\ Sure(x, Head(Loop).keys)
        /\ reported' = IF x \in KeyReports THEN Head(Loop).keys ELSE reported
        /\ hid' = IF x = "ensure" THEN "open" ELSE IF x = "closeHid" THEN "none" ELSE hid
        /\ keyboard' <=> x = "keyboard" \/ (keyboard /\ x # "closeHid")
        /\ keyboard' \in BOOLEAN
        /\ LoopMoves(Tail(Loop), "run")
        /\ UNCHANGED <<focused, closing>>
    BY <1>0, <1>4, LoopSucceeds
  <2>2. /\ doubt'.keys = "none" => phone'.keys = reported'
        /\ x \notin KeyReports => (KeysClear' <=> KeysClear)
        /\ x \in KeyReports => (Head(Loop).keys = {} => KeysClear')
    BY <2>1, KeysSure
  <2>3. x = "clearKeys" => KeysClear'
    BY <1>0, <2>2, Alone DEF KeyReports
  <2>4. Sendable /\ x # "closeHid" => Sendable'
    BY <2>1 DEF Sendable
  <2>5. x \in KeyReports => x \in {"keys", "clearKeys"}
    BY <1>0, <2>1, LoopNames
       DEF KeyReports, LoopOps, Connecting, Acts, Typing, Pointing, Starts, Gestures
  <2>6. ~Sendable' => KeysClear' /\ (~Sendable \/ NoGesture)
    <3>1. CASE x = "closeHid"
      BY <1>c, <2>2, <3>1 DEF KeyReports
    <3>2. CASE x # "closeHid"
      BY <1>k, <2>2, <2>3, <2>4, <2>5, <3>2
    <3> QED
      BY <3>1, <3>2
  <2>7. Lead(Tail(Loop)) \in {"hold", "letGo", "reportHeld", "keys"} => Sendable'
    <3>1. x = "keyboard" => Sendable'
      BY <1>k, <2>1 DEF Sendable
    <3> QED
      BY <1>k, <2>1, <2>4, <3>1, BeforeTail
  <2>8. Lead(Tail(Loop)) = "keyboard" => hid' # "none"
    BY <2>1, BeforeTail
  <2>9. Lead(Tail(Loop)) \in Cleared \/ Settled => KeysClear'
    <3>1. "keys" \notin Cleared /\ "clearKeys" \notin Cleared
      BY DEF Cleared, AfterJoin, Starts, Gestures
    <3>2. x = "keys" => ~Settled
      <4>1. x = "keys" => x \in Acts
        BY DEF Acts, Typing
      <4> QED
        BY <1>0, <4>1, Alone DEF Active, Settled
    <3> QED
      BY <1>k, <2>1, <2>2, <2>3, <2>5, <3>1, <3>2, BeforeTail
  <2> QED
    BY <1>t, <2>1, <2>2, <2>6, <2>7, <2>8, <2>9, KeysLoopStep
<1>5. CASE Fails("loop")
  <2> DEFINE x == Lead(Loop)
  <2>1. /\ Loop # <<>> /\ x # "join" /\ Unsure(x)
        /\ hid' = IF x = "closeHid" THEN "none" ELSE hid
        /\ keyboard' <=> keyboard /\ x # "closeHid"
        /\ keyboard' \in BOOLEAN
        /\ x \in Suppressed => LoopMoves(Tail(Loop), "run")
        /\ x \notin Suppressed => LoopMoves(InputFailed, "run")
        /\ UNCHANGED <<focused, closing, reported>>
    BY <1>0, <1>5, LoopFails
  <2>2. /\ doubt'.keys = "none" => phone'.keys = reported'
        /\ x \notin KeyReports => (KeysClear' <=> KeysClear)
        /\ x = "clearKeys" => KeysClear'
    BY <2>1, KeysUnsure
  <2>3. Sendable' <=> Sendable /\ x # "closeHid"
    BY <2>1 DEF Sendable
  <2>4. x \in KeyReports => x \in {"keys", "clearKeys"}
    BY <1>0, <2>1, LoopNames
       DEF KeyReports, LoopOps, Connecting, Acts, Typing, Pointing, Starts, Gestures
  <2>5. ~Sendable' => KeysClear' /\ (~Sendable \/ NoGesture)
    <3>1. CASE x = "closeHid"
      BY <1>c, <2>2, <3>1 DEF KeyReports
    <3>2. CASE x # "closeHid"
      BY <1>k, <2>2, <2>3, <2>4, <3>2
    <3> QED
      BY <3>1, <3>2
  <2>6. Settled => KeysClear'
    <3>1. x = "keys" => ~Settled
      <4>1. x = "keys" => x \in Acts
        BY DEF Acts, Typing
      <4> QED
        BY <1>0, <4>1, Alone DEF Active, Settled
    <3> QED
      BY <1>k, <2>2, <2>4, <3>1
  <2>7. CASE x \in Suppressed
    <3>1. x \notin {"keyboard", "hold", "letGo", "reportHeld", "keys", "ensure"}
      BY <2>7 DEF Suppressed
    <3>2. Lead(Tail(Loop)) \in Cleared => KeysClear'
      BY <1>k, <2>1, <2>2, <2>4, <3>1, BeforeTail
    <3>3. Lead(Tail(Loop)) \notin {"hold", "letGo", "reportHeld", "keys", "keyboard"}
      BY <2>1, <3>1, BeforeTail
    <3> QED
      BY <1>t, <2>1, <2>2, <2>5, <2>6, <2>7, <3>2, <3>3, KeysLoopStep
  <2>8. CASE x \notin Suppressed
    BY <1>i, <1>d, <2>1, <2>2, <2>5, <2>6, <2>8, KeysLoopStep
  <2> QED
    BY <2>7, <2>8
<1> QED
  BY <1>1, <1>2, <1>3, <1>4, <1>5

(* The gesture begins or ends a report.                                      *)
LEMMA KeysGesture ==
  ASSUME Typed, Shape, TouchOk, KeysOk,
         \/ Ensure("gesture") \/ Issue("gesture") \/ Prepare("gesture")
         \/ Succeeds("gesture") \/ Fails("gesture")
  PROVE  KeysOk'
<1>0. /\ TaskType /\ ModeType /\ LoopShape /\ GestureShape /\ Gesture \in Seq(Operation)
      /\ HeldType /\ PhoneType /\ keyboard \in BOOLEAN
  BY Parts DEF Typed, Shape, ServiceType
<1>t. Gesture # <<>> => Tail(Gesture) \in Seq(Operation)
  BY <1>0, GestureNow
<1>k. /\ doubt.keys = "none" => phone.keys = reported
      /\ ~Sendable => KeysClear
      /\ Sendable \/ Armed(Gesture, KeyUsers, "keyboard")
  BY DEF KeysOk
<1>a. /\ Gesture # <<>> /\ Lead(Gesture) # "keyboard" =>
           Sendable \/ Armed(Tail(Gesture), KeyUsers, "keyboard")
      /\ Gesture # <<>> /\ Lead(Gesture) \in KeyUsers => Sendable
      /\ Gesture # <<>> /\ Lead(Gesture) \in Suppressed =>
           Sendable \/ Armed(Remaining("gesture"), KeyUsers, "keyboard")
  <2>1. "keyboard" \notin Suppressed /\ "closeService" \notin KeyUsers
    BY DEF Suppressed, KeyUsers
  <2> QED
    BY <1>k, <2>1, GestureArmed
<1>h. Gesture # <<>> /\ Lead(Gesture) = "keyboard" => hid # "none"
  <2>1. "closeService" \notin HidUsers /\ "keyboard" \in HidUsers
    BY DEF HidUsers
  <2> QED
    BY <2>1, TouchIs, GestureArmed
<1>n. Gesture # <<>> /\ Lead(Gesture) \in KeyReports => Lead(Gesture) \in KeyUsers
  BY <1>0, GestureNames
     DEF KeyReports, KeyUsers, GestureOps, ScrollOps, HomeOps, ShortcutOps, ShortcutFinals
<1>1. CASE Ensure("gesture")
  <2>1. /\ Gesture # <<>> /\ Lead(Gesture) \in {"ensure", "indigo"}
        /\ UNCHANGED <<focused, closing, keyboard, reported, phone, doubt>>
        /\ hid' \in {hid, "new"}
        /\ GestureMoves(Tail(Gesture), "run") \/ GestureMoves(Gesture, "await")
    BY <1>0, <1>1, GestureEnsures
  <2>2. /\ KeysClear' <=> KeysClear
        /\ Sendable => Sendable'
        /\ hid # "none" => hid' # "none"
    BY <2>1 DEF KeysClear, Sendable
  <2>3. CASE GestureMoves(Tail(Gesture), "run")
    BY <1>t, <1>a, <1>k, <2>1, <2>2, <2>3, KeysGestureStep
  <2>4. CASE GestureMoves(Gesture, "await")
    BY <1>0, <1>k, <2>1, <2>2, <2>4, KeysGestureStep
  <2> QED
    BY <2>1, <2>3, <2>4
<1>2. CASE Issue("gesture")
  <2>1. /\ Gesture # <<>>
        /\ UNCHANGED <<focused, closing, keyboard, reported, phone, doubt, hid>>
        /\ \/ GestureMoves(Gesture, "await")
           \/ /\ GestureMoves(Tail(Gesture), "run")
              /\ Lead(Gesture) = "keyboard" => keyboard
    BY <1>0, <1>2, GestureIssues
  <2>2. (KeysClear' <=> KeysClear) /\ (Sendable' <=> Sendable)
    BY <2>1 DEF KeysClear, Sendable
  <2>3. CASE GestureMoves(Gesture, "await")
    BY <1>0, <1>k, <2>1, <2>2, <2>3, KeysGestureStep
  <2>4. CASE /\ GestureMoves(Tail(Gesture), "run")
             /\ Lead(Gesture) = "keyboard" => keyboard
    <3>1. Lead(Gesture) = "keyboard" => Sendable
      BY <1>h, <2>1, <2>4 DEF Sendable
    <3> QED
      BY <1>t, <1>a, <1>k, <2>1, <2>2, <2>4, <3>1, KeysGestureStep
  <2> QED
    BY <2>1, <2>3, <2>4
<1>3. CASE Prepare("gesture")
  <2>1. /\ Gesture # <<>>
        /\ Lead(Gesture) \in {"report", "finalReport", "check", "again"}
        /\ UNCHANGED <<focused, hid, keyboard, reported, closing, phone, doubt>>
        /\ Lead(Gesture) = "report" =>
             GestureMoves(KeyStates("keys", Head(Gesture).keys) \o Tail(Gesture), "run")
        /\ Lead(Gesture) = "finalReport" =>
             GestureMoves((IF Sendable THEN KeyStates("finalKeys", {}) ELSE <<>>)
                            \o Tail(Gesture), "run")
        /\ Lead(Gesture) = "check" =>
             GestureMoves(Tail(Gesture), "run") \/ GestureMoves(<<>>, "run")
        /\ Lead(Gesture) = "again" => GestureMoves(Drags, "run") \/ GestureMoves(<<>>, "run")
    BY <1>0, <1>3, GesturePrepares
  <2>2. (KeysClear' <=> KeysClear) /\ (Sendable' <=> Sendable)
    BY <2>1 DEF KeysClear, Sendable
  <2>3. ASSUME NEW s \in Seq(Operation), GestureMoves(s, "run"),
               Sendable \/ Armed(s, KeyUsers, "keyboard")
        PROVE  KeysOk'
    BY <1>k, <2>1, <2>2, <2>3, KeysGestureStep
  <2>4. /\ Sendable \/ Armed(Tail(Gesture), KeyUsers, "keyboard")
        /\ Tail(Gesture) \in Seq(Operation) /\ Head(Gesture).keys \in SUBSET Usages
    BY <1>0, <1>t, <1>a, <2>1, GestureNow
  <2>5. GestureMoves(Tail(Gesture), "run") \/ GestureMoves(<<>>, "run") => KeysOk'
    BY <2>3, <2>4, EmptyList
  <2>6. ASSUME Sendable, NEW name \in {"keys", "finalKeys"}, NEW desired \in SUBSET Usages,
               GestureMoves(KeyStates(name, desired) \o Tail(Gesture), "run")
        PROVE  KeysOk'
    <3> DEFINE s == KeyStates(name, desired) \o Tail(Gesture)
    <3>1. s \in Seq(Operation)
      BY <1>0, <2>4, KeyStatesType, ConcatFacts DEF HeldType
    <3>2. GestureMoves(s, "run")
      BY <2>6
    <3> HIDE DEF s
    <3> QED
      BY <2>3, <2>6, <3>1, <3>2
  <2>7. CASE Lead(Gesture) = "report"
    BY <1>a, <2>1, <2>4, <2>6, <2>7 DEF KeyUsers
  <2>8. CASE Lead(Gesture) = "finalReport"
    <3>1. CASE Sendable
      <4>1. GestureMoves(KeyStates("finalKeys", {}) \o Tail(Gesture), "run")
        BY <2>1, <2>8, <3>1
      <4>2. {} \in SUBSET Usages
        OBVIOUS
      <4> QED
        BY <2>6, <3>1, <4>1, <4>2
    <3>2. CASE ~Sendable
      <4>1. GestureMoves(<<>> \o Tail(Gesture), "run") /\ <<>> \o Tail(Gesture) = Tail(Gesture)
        BY <2>1, <2>4, <2>8, <3>2
      <4> QED
        BY <2>5, <4>1
    <3> QED
      BY <3>1, <3>2
  <2>9. CASE Lead(Gesture) = "check"
    BY <2>1, <2>5, <2>9
  <2>10. CASE Lead(Gesture) = "again"
    <3>1. Armed(Drags, KeyUsers, "keyboard")
      <4>1. /\ Len(Drags) = 4 /\ Drags[1].op = "drag" /\ Drags[2].op = "drag"
            /\ Drags[3].op = "lift" /\ Drags[4].op = "again"
        BY DEF Drags, Op
      <4> QED
        BY <4>1 DEF Armed, KeyUsers
    <3>2. GestureMoves(Drags, "run") => KeysOk'
      BY <2>3, <3>1, DragsList
    <3> QED
      BY <2>1, <2>5, <2>10, <3>2
  <2> QED
    BY <2>1, <2>7, <2>8, <2>9, <2>10
<1>4. CASE Succeeds("gesture")
  <2>1. /\ Gesture # <<>> /\ Sure(Lead(Gesture), Head(Gesture).keys)
        /\ reported' = IF Lead(Gesture) \in KeyReports THEN Head(Gesture).keys ELSE reported
        /\ hid' = IF Lead(Gesture) = "ensure" THEN "open" ELSE hid
        /\ keyboard' <=> Lead(Gesture) = "keyboard" \/ keyboard
        /\ keyboard' \in BOOLEAN
        /\ GestureMoves(Tail(Gesture), "run")
        /\ UNCHANGED <<focused, closing>>
    BY <1>0, <1>4, GestureSucceeds
  <2>2. /\ doubt'.keys = "none" => phone'.keys = reported'
        /\ Lead(Gesture) \notin KeyReports => (KeysClear' <=> KeysClear)
    BY <2>1, KeysSure
  <2>3. /\ Sendable => Sendable'
        /\ hid # "none" => hid' # "none"
        /\ Lead(Gesture) = "keyboard" => Sendable'
    BY <1>h, <2>1 DEF Sendable
  <2>4. ~Sendable' => KeysClear'
    BY <1>a, <1>k, <1>n, <2>1, <2>2, <2>3
  <2> QED
    BY <1>t, <1>a, <2>1, <2>2, <2>3, <2>4, KeysGestureStep
<1>5. CASE Fails("gesture")
  <2>1. /\ Gesture # <<>> /\ Unsure(Lead(Gesture))
        /\ Lead(Gesture) \in Suppressed => GestureMoves(Remaining("gesture"), "run")
        /\ Lead(Gesture) \notin Suppressed => GestureMoves(<<>>, "run")
        /\ UNCHANGED <<focused, hid, keyboard, reported, closing>>
    BY <1>0, <1>5, GestureFails
  <2>2. /\ doubt'.keys = "none" => phone'.keys = reported'
        /\ Lead(Gesture) \notin KeyReports => (KeysClear' <=> KeysClear)
    BY <2>1, KeysUnsure
  <2>3. Sendable' <=> Sendable
    BY <2>1 DEF Sendable
  <2>4. ~Sendable' => KeysClear'
    BY <1>a, <1>k, <1>n, <2>1, <2>2, <2>3
  <2>5. CASE Lead(Gesture) \in Suppressed
    BY <1>a, <2>1, <2>2, <2>3, <2>4, <2>5, RemainingIs, KeysGestureStep
  <2>6. CASE Lead(Gesture) \notin Suppressed
    BY <2>1, <2>2, <2>3, <2>4, <2>6, EmptyList, KeysGestureStep
  <2> QED
    BY <2>5, <2>6
<1> QED
  BY <1>1, <1>2, <1>3, <1>4, <1>5

(* A gesture begins or ends, or is joined.                                   *)
LEMMA KeysJoins ==
  ASSUME Typed, Shape, KeysOk, Start \/ Finally \/ Join \/ Joined
  PROVE  KeysOk'
<1>0. /\ TaskType /\ ModeType /\ LoopShape /\ GestureShape /\ Loop \in Seq(Operation)
      /\ Gesture \in Seq(Operation) /\ PhoneType
  BY Parts DEF Typed, Shape
<1>k. /\ Lead(Loop) \in {"hold", "letGo", "reportHeld", "keys"} => Sendable
      /\ Lead(Loop) = "keyboard" => hid # "none"
      /\ Lead(Loop) \in Cleared \/ Settled => KeysClear
      /\ doubt.keys = "none" => phone.keys = reported
      /\ ~Sendable => KeysClear
      /\ Sendable \/ Armed(Gesture, KeyUsers, "keyboard")
  BY DEF KeysOk
<1>f. gesture # "none" => Armed(GestureFinal, KeyUsers, "keyboard") /\ ~Settled
  <2>1. gesture # "none" => Armed(GestureFinal, KeyUsers, "keyboard")
    BY <1>0, BodyArmed, EmptyList DEF GestureShape, ModeType
  <2> QED
    BY <2>1, ClearedAlone DEF NoGesture
<1>1. CASE Start
  <2>1. /\ Loop # <<>> /\ Lead(Loop) \in Gestures
        /\ Loop' = Tail(Loop) /\ Gesture' = Body(Lead(Loop))
        /\ UNCHANGED <<focused, hid, keyboard, reported, phone, doubt>>
    BY <1>0, <1>1, StartDoes
  <2>2. focused
    <3>1. Lead(Loop) \in Acts
      BY <2>1 DEF Acts, Pointing, Starts
    <3> QED
      BY <1>0, <3>1, Alone DEF Active
  <2>3. (Lead(Loop))' = "stop"
    <3>1. Lead(Tail(Loop)) = "stop"
      BY <1>0, <2>1, LoopNames DEF LoopAfter, Gestures
    <3> QED
      BY <2>1, <3>1
  <2>4. ~Settled' /\ "stop" \notin Cleared'
    BY <2>1, <2>2 DEF Settled, Cleared, AfterJoin, Starts, Gestures
  <2>5. (Armed(Gesture, KeyUsers, "keyboard"))'
    <3>1. Armed(Body(Lead(Loop)), KeyUsers, "keyboard")
      BY <2>1, BodyArmed
    <3> QED
      BY <2>1, <3>1 DEF Armed
  <2>6. (Sendable' <=> Sendable) /\ (KeysClear' <=> KeysClear)
    BY <2>1 DEF Sendable, KeysClear
  <2> QED
    BY <1>k, <2>1, <2>3, <2>4, <2>5, <2>6 DEF KeysOk
<1>2. CASE Finally
  <2>1. /\ gesture # "none" /\ Gesture' = GestureFinal
        /\ UNCHANGED <<Loop, LoopAt, LoopFinal>>
        /\ UNCHANGED <<focused, hid, keyboard, reported, closing, phone, doubt>>
    BY <1>2, FinallyDoes
  <2>2. /\ Cleared' = Cleared /\ (Settled' <=> Settled) /\ (Lead(Loop))' = Lead(Loop)
        /\ (Sendable' <=> Sendable) /\ (KeysClear' <=> KeysClear)
    BY <2>1 DEF Cleared, Settled, Sendable, KeysClear
  <2>3. (Armed(Gesture, KeyUsers, "keyboard"))'
    BY <1>f, <2>1 DEF Armed
  <2> QED
    BY <1>k, <2>1, <2>2, <2>3 DEF KeysOk
<1>j. ASSUME Loop # <<>>, Lead(Loop) = "join", LoopMoves(Tail(Loop), "run"),
             UNCHANGED <<focused, hid, keyboard, reported, closing, phone, doubt>>
      PROVE  KeysOk'
  <2>1. (Sendable' <=> Sendable) /\ (KeysClear' <=> KeysClear)
    BY <1>j DEF Sendable, KeysClear
  <2>2. Lead(Tail(Loop)) = "lift"
    BY <1>0, <1>j, LoopNames DEF LoopAfter
  <2>3. Tail(Loop) \in Seq(Operation) /\ "lift" \notin Cleared
    BY <1>0, <1>j, LoopNow DEF Cleared, AfterJoin, Starts, Gestures
  <2> QED
    BY <1>j, <1>k, <2>1, <2>2, <2>3, KeysLoopStep
<1>3. CASE Join
  <2>1. /\ Loop # <<>> /\ Lead(Loop) = "join"
        /\ UNCHANGED <<focused, hid, keyboard, reported, closing>>
        /\ \/ LoopMoves(Tail(Loop), "run") /\ UNCHANGED <<phone, doubt>>
           \/ /\ gesture # "none" /\ Dropped /\ Loop' = Loop /\ LoopFinal' = LoopFinal
              /\ GestureAt = "await" => Unsure(Lead(Gesture))
              /\ GestureAt # "await" => UNCHANGED <<phone, doubt>>
    BY <1>0, <1>3, JoinDoes
  <2>2. CASE LoopMoves(Tail(Loop), "run") /\ UNCHANGED <<phone, doubt>>
    BY <1>j, <2>1, <2>2
  <2>3. CASE /\ gesture # "none" /\ Dropped /\ Loop' = Loop /\ LoopFinal' = LoopFinal
             /\ GestureAt = "await" => Unsure(Lead(Gesture))
             /\ GestureAt # "await" => UNCHANGED <<phone, doubt>>
    <3>1. Gesture' = IF GestureAt = "ready" THEN <<>> ELSE GestureFinal
      BY <2>3 DEF Dropped
    <3>2. /\ Cleared' = Cleared /\ (Settled' <=> Settled) /\ (Sendable' <=> Sendable)
          /\ (Lead(Loop))' = "join" /\ "join" \notin Cleared
      BY <2>1, <2>3
         DEF Cleared, Settled, Sendable, AfterJoin, Starts, Gestures
    <3>3. /\ doubt'.keys = "none" => phone'.keys = reported'
          /\ ~Sendable => KeysClear'
      <4>1. CASE GestureAt = "await"
        <5>1. Gesture # <<>>
          BY <1>0, <4>1, Parts
        <5>2. Lead(Gesture) \in KeyReports => Sendable
          <6>1. Lead(Gesture) \in KeyReports => Lead(Gesture) \in KeyUsers
            BY <1>0, <5>1, GestureNames
               DEF KeyReports, KeyUsers, GestureOps, ScrollOps, HomeOps, ShortcutOps,
                   ShortcutFinals
          <6>2. "closeService" \notin KeyUsers
            BY DEF KeyUsers
          <6> QED
            BY <1>k, <5>1, <6>1, <6>2, GestureArmed
        <5> QED
          BY <1>k, <2>1, <2>3, <4>1, <5>2, KeysUnsure
      <4>2. CASE GestureAt # "await"
        BY <1>k, <2>1, <2>3, <4>2 DEF KeysClear
      <4> QED
        BY <4>1, <4>2
    <3>4. (Armed(Gesture, KeyUsers, "keyboard"))'
      <4>1. Armed(Gesture', KeyUsers, "keyboard")
        BY <1>f, <2>3, <3>1, EmptyList
      <4> QED
        BY <4>1 DEF Armed
    <3> QED
      BY <1>f, <1>k, <2>1, <2>3, <3>2, <3>3, <3>4 DEF KeysOk
  <2> QED
    BY <2>1, <2>2, <2>3
<1>4. CASE Joined
  <2>1. /\ Loop # <<>> /\ Lead(Loop) = "join" /\ LoopMoves(Tail(Loop), "run")
        /\ UNCHANGED <<focused, hid, keyboard, reported, closing, phone, doubt>>
    BY <1>4, JoinedDoes
  <2> QED
    BY <1>j, <2>1
<1> QED
  BY <1>1, <1>2, <1>3, <1>4

(* close_session: the bridge is interrupted, and closed once more.           *)
LEMMA KeysCloses ==
  ASSUME Typed, Shape, KeysOk, Cancel \/ BridgeClose \/ BridgeClosed \/ UNCHANGED vars
  PROVE  KeysOk'
<1>0. /\ TaskType /\ ModeType /\ LoopShape /\ GestureShape /\ PhoneType
      /\ Loop \in Seq(Operation) /\ Gesture \in Seq(Operation)
  BY Parts DEF Typed, Shape
<1>k. /\ Lead(Loop) \in {"hold", "letGo", "reportHeld", "keys"} => Sendable
      /\ Lead(Loop) = "keyboard" => hid # "none"
      /\ Lead(Loop) \in Cleared \/ Settled => KeysClear
      /\ doubt.keys = "none" => phone.keys = reported
      /\ ~Sendable => KeysClear
      /\ Sendable \/ Armed(Gesture, KeyUsers, "keyboard")
  BY DEF KeysOk
<1>s. ASSUME Still, UNCHANGED <<focused, hid, keyboard, reported, phone, doubt>>,
             Settled' => Settled
      PROVE  KeysOk'
  <2>1. /\ Cleared' = Cleared /\ (Sendable' <=> Sendable) /\ (KeysClear' <=> KeysClear)
        /\ (Lead(Loop))' = Lead(Loop)
    BY <1>s DEF Still, Cleared, Sendable, KeysClear
  <2>2. (Armed(Gesture, KeyUsers, "keyboard"))' <=> Armed(Gesture, KeyUsers, "keyboard")
    BY <1>s DEF Still, Armed
  <2> QED
    BY <1>s, <1>k, <2>1, <2>2 DEF KeysOk
<1>c. ASSUME Cut, UNCHANGED <<focused, hid, keyboard, reported>>,
             Settled' => Settled,
             LoopFinal = <<>> /\ ~focused => Settled
      PROVE  KeysOk'
  <2>1. /\ Loop' = LoopFinal /\ Gesture' = Gesture
        /\ LoopAt = "await" => Unsure(Lead(Loop))
        /\ LoopAt # "await" => UNCHANGED <<phone, doubt>>
    BY <1>c DEF Cut
  <2>2. Sendable' <=> Sendable
    BY <1>c DEF Sendable
  <2>3. /\ doubt'.keys = "none" => phone'.keys = reported'
        /\ ~Sendable => KeysClear'
        /\ ~focused /\ KeysClear => KeysClear'
    <3>1. CASE LoopAt = "await"
      <4>1. Loop # <<>>
        BY <1>0, <3>1, Parts
      <4>2. /\ Lead(Loop) \in KeyReports => Lead(Loop) \in {"keys", "clearKeys"}
            /\ Lead(Loop) = "keys" => focused
        <5>1. Lead(Loop) \in KeyReports => Lead(Loop) \in {"keys", "clearKeys"}
          BY <1>0, <4>1, LoopNames
             DEF KeyReports, LoopOps, Connecting, Acts, Typing, Pointing, Starts, Gestures
        <5>2. "keys" \in Acts
          BY DEF Acts, Typing
        <5> QED
          BY <1>0, <5>1, <5>2, Alone DEF Active
      <4> QED
        BY <1>c, <1>k, <2>1, <3>1, <4>2, KeysUnsure
    <3>2. CASE LoopAt # "await"
      BY <1>c, <1>k, <2>1, <3>2 DEF KeysClear
    <3> QED
      BY <3>1, <3>2
  <2>4. (Armed(Gesture, KeyUsers, "keyboard"))' <=> Armed(Gesture, KeyUsers, "keyboard")
    BY <2>1 DEF Armed
  <2>5. (Lead(Loop))' = Lead(LoopFinal) /\ Cleared' = Cleared
    BY <1>c, <2>1 DEF Cleared
  <2>6. /\ Lead(LoopFinal) \in {"stop", "join"}
        /\ Lead(LoopFinal) \in Cleared => LoopFinal = <<>> /\ ~focused
    <3>1. LoopFinal = <<>> \/ LoopFinal = Close
      BY <1>0 DEF LoopShape
    <3>2. /\ LoopFinal = <<>> => Lead(LoopFinal) = "stop"
          /\ LoopFinal # <<>> => Lead(LoopFinal) = "join"
      BY <3>1, EmptyList, CloseList
    <3> QED
      BY <3>2 DEF Cleared, AfterJoin, Starts, Gestures
  <2>7. (Lead(Loop))' \in Cleared' \/ Settled' => KeysClear'
    <3>1. (Lead(Loop))' \in Cleared' => Settled /\ ~focused
      BY <1>c, <2>5, <2>6
    <3>2. Settled' => Settled /\ ~focused
      BY <1>c DEF Settled
    <3> QED
      BY <1>k, <2>3, <3>1, <3>2
  <2> QED
    BY <1>k, <2>2, <2>3, <2>4, <2>5, <2>6, <2>7, <2>1 DEF KeysOk
<1>1. CASE Cancel
  <2>1. /\ closing = "no" /\ closing' = "asked"
        /\ UNCHANGED <<focused, hid, keyboard, reported>>
        /\ \/ Still /\ UNCHANGED <<phone, doubt>>
           \/ /\ Joining /\ Dropped /\ Loop' = Loop /\ LoopFinal' = LoopFinal
              /\ GestureAt = "await" => Unsure(Lead(Gesture))
              /\ GestureAt # "await" => UNCHANGED <<phone, doubt>>
           \/ Cut
    BY <1>0, <1>1, CancelDoes
  <2>2. CASE Still /\ UNCHANGED <<phone, doubt>>
    <3>1. Settled' => Settled
      BY <2>1, <2>2 DEF Settled, Still
    <3> QED
      BY <1>s, <2>1, <2>2, <3>1
  <2>3. CASE /\ Joining /\ Dropped /\ Loop' = Loop /\ LoopFinal' = LoopFinal
             /\ GestureAt = "await" => Unsure(Lead(Gesture))
             /\ GestureAt # "await" => UNCHANGED <<phone, doubt>>
    <3>1. gesture = "none" /\ GestureFinal = <<>> /\ Loop # <<>>
      BY <1>0, <2>3, Parts DEF Shape, Apart, GestureShape, Joining
    <3>2. Gesture' = <<>>
      BY <2>3, <3>1 DEF Dropped
    <3>3. /\ ~Settled' /\ (Sendable' <=> Sendable) /\ (Lead(Loop))' = "join"
          /\ "join" \notin Cleared'
      BY <2>1, <2>3, <3>1
         DEF Settled, Sendable, Joining, Cleared, AfterJoin, Starts, Gestures
    <3>4. /\ doubt'.keys = "none" => phone'.keys = reported'
          /\ ~Sendable => KeysClear'
      <4>1. CASE GestureAt = "await"
        <5>1. Gesture # <<>>
          BY <1>0, <4>1, Parts
        <5>2. Lead(Gesture) \in KeyReports => Sendable
          <6>1. Lead(Gesture) \in KeyReports => Lead(Gesture) \in KeyUsers
            BY <1>0, <5>1, GestureNames
               DEF KeyReports, KeyUsers, GestureOps, ScrollOps, HomeOps, ShortcutOps,
                   ShortcutFinals
          <6>2. "closeService" \notin KeyUsers
            BY DEF KeyUsers
          <6> QED
            BY <1>k, <5>1, <6>1, <6>2, GestureArmed
        <5> QED
          BY <1>k, <2>1, <2>3, <4>1, <5>2, KeysUnsure
      <4>2. CASE GestureAt # "await"
        BY <1>k, <2>1, <2>3, <4>2 DEF KeysClear
      <4> QED
        BY <4>1, <4>2
    <3>5. (Armed(Gesture, KeyUsers, "keyboard"))'
      <4>1. Armed(Gesture', KeyUsers, "keyboard")
        BY <3>2, EmptyList
      <4> QED
        BY <4>1 DEF Armed
    <3> QED
      BY <2>1, <3>3, <3>4, <3>5 DEF KeysOk
  <2>4. CASE Cut
    <3>1. (Settled' => Settled) /\ (LoopFinal = <<>> /\ ~focused => Settled)
      BY <1>0, <2>1, <2>4, CloseList DEF Settled, Cut, LoopShape
    <3> QED
      BY <1>c, <2>1, <2>4, <3>1
  <2> QED
    BY <2>1, <2>2, <2>3, <2>4
<1>2. CASE BridgeClose
  <2>1. /\ closing = "asked" /\ closing' = "bridge"
        /\ Loop = <<>> /\ LoopFinal = <<>> /\ LoopMoves(Close, "run")
        /\ UNCHANGED <<focused, hid, keyboard, reported, phone, doubt>>
    BY <1>0, <1>2, BridgeCloseDoes
  <2>2. /\ (Sendable' <=> Sendable) /\ (KeysClear' <=> KeysClear) /\ (Settled' => Settled)
    BY <2>1 DEF Sendable, KeysClear, Settled, LoopMoves
  <2>3. Lead(Close) = "join" /\ "join" \notin Cleared'
    BY CloseList DEF Cleared, AfterJoin, Starts, Gestures
  <2>4. (Armed(Gesture, KeyUsers, "keyboard"))' <=> Armed(Gesture, KeyUsers, "keyboard")
    BY <2>1 DEF Armed, LoopMoves
  <2>5. (Lead(Loop))' = Lead(Close)
    BY <2>1 DEF LoopMoves
  <2> QED
    BY <1>k, <2>1, <2>2, <2>3, <2>4, <2>5 DEF KeysOk
<1>3. CASE BridgeClosed
  <2>1. /\ closing = "bridge" /\ closing' = "done"
        /\ UNCHANGED <<focused, hid, keyboard, reported>>
        /\ (Still /\ UNCHANGED <<phone, doubt>>) \/ Cut
    BY <1>0, <1>3, BridgeClosedDoes
  <2>2. LoopFinal = <<>>
    BY <1>0, <2>1 DEF LoopShape
  <2>3. (Settled' => Settled) /\ (LoopFinal = <<>> /\ ~focused => Settled)
    BY <2>1, <2>2 DEF Settled
  <2> QED
    BY <1>s, <1>c, <2>1, <2>3
<1>4. CASE UNCHANGED vars
  <2>1. UNCHANGED <<focused, hid, keyboard, reported, phone, doubt, task, closing>>
    BY <1>4 DEF vars, services, record
  <2>2. Still
    BY <1>0, <2>1, StillIs
  <2>3. Settled' => Settled
    BY <2>1, <2>2 DEF Settled, Still
  <2> QED
    BY <1>s, <2>1, <2>2, <2>3
<1> QED
  BY <1>1, <1>2, <1>3, <1>4

(* Every step keeps what is known of the keys.                               *)
LEMMA KeysStep ==
  ASSUME Typed, Shape, TouchOk, KeysOk, [Next]_vars
  PROVE  KeysOk'
BY Steps, KeysReads, KeysLoop, KeysGesture, KeysJoins, KeysCloses

-----------------------------------------------------------------------------
(* The keys that are held.                                                   *)

(* A step of the loop.                                                       *)
LEMMA HeldLoopStep ==
  ASSUME HeldOk, NEW s \in Seq(Operation), NEW at, LoopMoves(s, at), gesture' = gesture,
         at = "await" => Lead(s) # "reportHeld",
         Lead(s) \in AfterJoin => held' = {},
         held' = held \/ held' = {} \/ gesture \in {"none", "scroll"},
         RunOf(s, "keys", UNION held'),
         LoopFinal # <<>> /\ Lead(s) \in Resting /\ NoShortcut => HeldReported'
  PROVE  HeldOk'
<1>1. /\ Loop' = s /\ LoopFinal' = LoopFinal /\ Gesture' = Gesture
      /\ GestureFinal' = GestureFinal /\ (Lead(Loop))' = Lead(s)
      /\ GestureAt' = GestureAt
  BY DEF LoopMoves
<1>2. NoShortcut' <=> NoShortcut
  BY <1>1 DEF NoShortcut
<1>3. (RunOf(Loop, "keys", UNION held))'
  BY <1>1 DEF RunOf
<1>4. (RunOf(Gesture, "finalKeys", {}))'
  BY <1>1 DEF HeldOk, RunOf
<1>5. gesture' \in {"home", "search", "paste"} => held' = {}
  BY DEF HeldOk
<1>6. LoopAt' = at
  BY DEF LoopMoves
<1> QED
  BY <1>6, <1>1, <1>2, <1>3, <1>4, <1>5 DEF HeldOk

(* A list that does not begin with a change of keys has no goal.             *)
LEMMA NoRun ==
  ASSUME NEW s, NEW name, NEW goal, Lead(s) # name
  PROVE  RunOf(s, name, goal)
BY DEF RunOf

(* The loop goes on with its next operation.                                 *)
LEMMA HeldTailStep ==
  ASSUME Typed, Shape, HeldOk, Loop # <<>>, LoopMoves(Tail(Loop), "run"),
         UNCHANGED <<gesture, held>>, Lead(Loop) \notin {"join", "reportHeld"},
         Lead(Loop) \in Resting => doubt'.keys = doubt.keys /\ reported' = reported,
         Lead(Loop) = "keys" /\ doubt'.keys = "none" => reported' = Head(Loop).keys,
         Lead(Loop) \in AfterJoin \ {"lift"} => KeysClear'
  PROVE  HeldOk'
<1> DEFINE x == Lead(Loop)
           s == Tail(Loop)
<1>0. TaskType /\ Loop \in Seq(Operation)
  BY Parts DEF Typed
<1>1. s \in Seq(Operation)
  BY <1>0, LoopNow
<1>2. /\ x \in AfterJoin => held = {}
      /\ RunOf(Loop, "keys", UNION held)
      /\ LoopFinal # <<>> /\ x \in Resting /\ NoShortcut => HeldReported
  BY DEF HeldOk
<1>3. Lead(s) \in AfterJoin => held' = {}
  BY <1>2, BeforeTail
<1>4. x = "keys" => RunOf(s, "keys", UNION held)
                    /\ (Lead(s) # "keys" => Head(Loop).keys = UNION held)
  BY <1>0, <1>2, RunTail
<1>5. RunOf(s, "keys", UNION held')
  BY <1>4, BeforeTail, NoRun
<1>6. LoopFinal # <<>> /\ Lead(s) \in Resting /\ NoShortcut => HeldReported'
  <2>1. CASE x \in Resting
    BY <1>2, <2>1 DEF HeldReported
  <2>2. CASE x = "keys" /\ Lead(s) \in Resting
    <3>1. Lead(s) # "keys"
      BY <2>2 DEF Resting
    <3> QED
      BY <1>4, <2>2, <3>1 DEF HeldReported
  <2>3. CASE x \in AfterJoin \ {"lift"}
    <3>1. held = {} /\ UNION held = {}
      BY <1>2, <2>3
    <3> QED
      BY <2>3, <3>1 DEF HeldReported, KeysClear
  <2> QED
    BY <2>1, <2>2, <2>3, BeforeTail DEF AfterJoin
<1> HIDE DEF s
<1>7. LoopMoves(s, "run")
  BY DEF s
<1> QED
  BY <1>1, <1>3, <1>5, <1>6, <1>7, HeldLoopStep

(* The loop reads an event, or mpv has exited.                               *)
LEMMA HeldReads ==
  ASSUME Typed, Shape, HeldOk, Reads \/ EndOfFile
  PROVE  HeldOk'
<1>0. TaskType /\ LoopShape
  BY DEF Typed, Shape
<1>1. CASE Reads
  <2>1. PICK s \in Seq(Operation) : Read(s)
    BY <1>1, ReadsDoes
  <2>2. /\ LoopMoves(s, "run") /\ Loop = <<>>
        /\ UNCHANGED <<held, reported, gesture, doubt>>
        /\ Lead(s) \in {"stop", "join", "move", "ensure", "untouch", "scroll"}
    BY <2>1 DEF Read
  <2>3. Lead(s) \notin AfterJoin
    BY <2>2 DEF AfterJoin, Starts, Gestures
  <2>4. RunOf(s, "keys", UNION held')
    BY <2>2, NoRun
  <2>5. LoopFinal # <<>> /\ Lead(s) \in Resting /\ NoShortcut => HeldReported'
    BY <2>2, EmptyList DEF HeldOk, HeldReported, Resting
  <2> QED
    BY <2>2, <2>3, <2>4, <2>5, HeldLoopStep
<1>2. CASE EndOfFile
  <2>1. /\ Loop' = Close /\ LoopFinal' = <<>> /\ Gesture' = Gesture
        /\ GestureAt' = GestureAt /\ UNCHANGED <<held, gesture>>
    BY <1>2, EndOfFileDoes DEF Typed
  <2>2. (Lead(Loop))' = "join" /\ "join" \notin AfterJoin
    BY <2>1, CloseList DEF AfterJoin, Starts, Gestures
  <2>3. (RunOf(Loop, "keys", UNION held))'
    BY <2>2 DEF RunOf
  <2>4. (RunOf(Gesture, "finalKeys", {}))'
    BY <2>1 DEF HeldOk, RunOf
  <2> QED
    BY <2>1, <2>2, <2>3, <2>4 DEF HeldOk
<1> QED
  BY <1>1, <1>2

(* The loop begins or ends a report.                                         *)
LEMMA HeldLoop ==
  ASSUME Typed, Shape, KeysOk, HeldOk,
         \/ Ensure("loop") \/ Issue("loop") \/ Prepare("loop")
         \/ Succeeds("loop") \/ Fails("loop")
  PROVE  HeldOk'
<1>0. /\ TaskType /\ ModeType /\ LoopShape /\ GestureShape /\ Loop \in Seq(Operation)
      /\ HeldType /\ PhoneType
  BY Parts DEF Typed, Shape
<1>t. Loop # <<>> => Tail(Loop) \in Seq(Operation)
  BY <1>0, LoopNow
<1>k. Lead(Loop) \in AfterJoin \ {"lift", "clearKeys"} => KeysClear
  BY DEF KeysOk, Cleared
<1>h. /\ Lead(Loop) \in AfterJoin => held = {}
      /\ RunOf(Loop, "keys", UNION held)
      /\ LoopFinal # <<>> /\ Lead(Loop) \in Resting /\ NoShortcut => HeldReported
  BY DEF HeldOk
<1>r. Resting \cap KeyReports = {}
  BY DEF Resting, KeyReports
<1>a. \A x \in AfterJoin \ {"lift", "clearKeys"} : x \notin KeyReports
  BY DEF AfterJoin, KeyReports, Starts, Gestures
<1>s. ASSUME LoopMoves(Loop, "await"), UNCHANGED <<gesture, held, reported, doubt>>,
             Lead(Loop) # "reportHeld"
      PROVE  HeldOk'
  BY <1>0, <1>h, <1>s, HeldLoopStep DEF HeldReported
<1>1. CASE Ensure("loop")
  <2>1. /\ Loop # <<>> /\ Lead(Loop) = "ensure"
        /\ UNCHANGED <<held, reported, gesture, doubt>>
        /\ LoopMoves(Tail(Loop), "run") \/ LoopMoves(Loop, "await")
    BY <1>0, <1>1, LoopEnsures
  <2>2. CASE LoopMoves(Tail(Loop), "run")
    BY <2>1, <2>2, HeldTailStep DEF AfterJoin, Starts, Gestures
  <2> QED
    BY <1>s, <2>1, <2>2
<1>2. CASE Issue("loop")
  <2>1. /\ Loop # <<>> /\ Lead(Loop) \in Awaited
        /\ UNCHANGED <<held, reported, gesture, phone, doubt>>
        /\ \/ LoopMoves(Loop, "await")
           \/ /\ LoopMoves(Tail(Loop), "run")
              /\ Lead(Loop) = "keys" => Head(Loop).keys = reported
              /\ Lead(Loop) = "clearKeys" => ~Sendable
    BY <1>0, <1>2, LoopIssues
  <2>2. Lead(Loop) \notin {"join", "reportHeld"}
    BY <2>1 DEF Awaited, Holding, Suppressed
  <2>3. CASE /\ LoopMoves(Tail(Loop), "run")
             /\ Lead(Loop) = "keys" => Head(Loop).keys = reported
             /\ Lead(Loop) = "clearKeys" => ~Sendable
    <3>1. Lead(Loop) \in AfterJoin \ {"lift"} => KeysClear
      BY <1>k, <2>3 DEF KeysOk
    <3>2. KeysClear' <=> KeysClear
      BY <2>1 DEF KeysClear
    <3> QED
      BY <2>1, <2>2, <2>3, <3>1, <3>2, HeldTailStep
  <2> QED
    BY <1>s, <2>1, <2>2, <2>3
<1>3. CASE Prepare("loop")
  <2> DEFINE x == Lead(Loop)
  <2>1. /\ Loop # <<>>
        /\ x \in {"enable", "disable", "forget", "hold", "letGo", "reportHeld"}
        /\ LoopMoves(IF x = "reportHeld" THEN KeyStates("keys", UNION held) \o Tail(Loop)
                     ELSE Tail(Loop), "run")
        /\ UNCHANGED <<gesture, phone, doubt>>
        /\ reported' = IF x = "forget" THEN {} ELSE reported
        /\ x = "forget" => held' = {}
        /\ x \notin {"hold", "letGo", "forget"} => held' = held
    BY <1>0, <1>3, LoopPrepares
  <2>2. Lead(Tail(Loop)) \in LoopAfter(x)
    BY <1>0, <2>1, LoopNames
  <2>3. CASE x = "reportHeld"
    <3> DEFINE s == KeyStates("keys", UNION held) \o Tail(Loop)
    <3>1. Lead(Tail(Loop)) # "keys"
      BY <2>2, <2>3 DEF LoopAfter
    <3>2. s \in Seq(Operation) /\ Lead(s) = "keys" /\ RunOf(s, "keys", UNION held)
      BY <1>0, <1>t, <2>1, <2>3, <3>1, HeldKeys, KeyStatesList
    <3>3. LoopMoves(s, "run") /\ held' = held
      BY <2>1, <2>3
    <3>4. "keys" \notin AfterJoin /\ "keys" \notin Resting
      BY DEF AfterJoin, Starts, Gestures, Resting
    <3> HIDE DEF s
    <3> QED
      BY <2>1, <3>2, <3>3, <3>4, HeldLoopStep
  <2>4. CASE x \in {"enable", "disable"}
    <3>1. LoopMoves(Tail(Loop), "run") /\ UNCHANGED <<held, reported>>
      BY <2>1, <2>4
    <3> QED
      BY <2>1, <2>4, <3>1, HeldTailStep DEF AfterJoin, Starts, Gestures
  <2>5. CASE x \in {"hold", "letGo"}
    <3>1. Lead(Tail(Loop)) = "reportHeld"
      BY <2>2, <2>5 DEF LoopAfter
    <3>2. "reportHeld" \notin AfterJoin /\ "reportHeld" \notin Resting
      BY DEF AfterJoin, Starts, Gestures, Resting
    <3>3. gesture \in {"none", "scroll"}
      <4>1. x \in Acts
        BY <2>5 DEF Acts, Typing
      <4> QED
        BY <1>0, <4>1, Alone DEF NoGesture
    <3>4. RunOf(Tail(Loop), "keys", UNION held')
      BY <3>1, NoRun
    <3>5. LoopMoves(Tail(Loop), "run")
      BY <2>1, <2>5
    <3> QED
      BY <1>t, <2>1, <3>1, <3>2, <3>3, <3>4, <3>5, HeldLoopStep
  <2>6. CASE x = "forget"
    <3>1. Lead(Tail(Loop)) = "stop"
      BY <2>2, <2>6 DEF LoopAfter
    <3>2. LoopMoves(Tail(Loop), "run") /\ held' = {} /\ reported' = {} /\ UNION held' = {}
      BY <2>1, <2>6
    <3>3. RunOf(Tail(Loop), "keys", UNION held')
      BY <3>1, NoRun
    <3>4. HeldReported'
      BY <3>2 DEF HeldReported
    <3> QED
      BY <1>t, <2>1, <3>2, <3>3, <3>4, HeldLoopStep
  <2> QED
    BY <2>1, <2>3, <2>4, <2>5, <2>6
<1>4. CASE Succeeds("loop")
  <2>1. /\ Loop # <<>> /\ LoopAt = "await" /\ Lead(Loop) # "join"
        /\ Sure(Lead(Loop), Head(Loop).keys)
        /\ reported' = IF Lead(Loop) \in KeyReports THEN Head(Loop).keys ELSE reported
        /\ LoopMoves(Tail(Loop), "run")
        /\ UNCHANGED <<held, gesture>>
    BY <1>0, <1>4, LoopSucceeds
  <2>2. Lead(Loop) # "reportHeld"
    BY <2>1 DEF HeldOk
  <2>3. /\ Lead(Loop) \notin KeyReports =>
             /\ KeysClear' <=> KeysClear
             /\ doubt'.keys = doubt.keys /\ reported' = reported
        /\ Lead(Loop) \in KeyReports =>
             reported' = Head(Loop).keys /\ (Head(Loop).keys = {} => KeysClear')
    BY <2>1, KeysSure
  <2>4. Lead(Loop) = "clearKeys" => KeysClear'
    BY <1>0, <2>3, Alone DEF KeyReports
  <2>5. Lead(Loop) \in AfterJoin \ {"lift"} => KeysClear'
    BY <1>a, <1>k, <2>3, <2>4
  <2> QED
    BY <1>r, <2>1, <2>2, <2>3, <2>5, HeldTailStep DEF KeyReports
<1>5. CASE Fails("loop")
  <2>1. /\ Loop # <<>> /\ LoopAt = "await" /\ Lead(Loop) # "join" /\ Unsure(Lead(Loop))
        /\ Lead(Loop) \in Suppressed => LoopMoves(Tail(Loop), "run")
        /\ Lead(Loop) \notin Suppressed => LoopMoves(InputFailed, "run")
        /\ UNCHANGED <<held, reported, gesture>>
    BY <1>0, <1>5, LoopFails
  <2>2. /\ Lead(Loop) \notin KeyReports =>
             (KeysClear' <=> KeysClear) /\ doubt'.keys = doubt.keys
        /\ Lead(Loop) \in KeyReports => doubt'.keys # "none"
        /\ Lead(Loop) = "clearKeys" => KeysClear'
    BY <2>1, KeysUnsure
  <2>3. CASE Lead(Loop) \in Suppressed
    <3>1. Lead(Loop) \in AfterJoin \ {"lift"} => KeysClear'
      BY <1>a, <1>k, <2>2
    <3>2. Lead(Loop) # "reportHeld"
      BY <2>1 DEF HeldOk
    <3> QED
      BY <1>r, <2>1, <2>2, <2>3, <3>1, <3>2, HeldTailStep DEF KeyReports
  <2>4. CASE Lead(Loop) \notin Suppressed
    <3>1. LoopMoves(InputFailed, "run") /\ InputFailed \in Seq(Operation)
          /\ Lead(InputFailed) = "disable"
      BY <2>1, <2>4, InputFailedList
    <3>2. "disable" \notin AfterJoin /\ "disable" \notin Resting
      BY DEF AfterJoin, Starts, Gestures, Resting
    <3>3. RunOf(InputFailed, "keys", UNION held')
      BY <3>1, NoRun
    <3> QED
      BY <2>1, <3>1, <3>2, <3>3, HeldLoopStep
  <2> QED
    BY <2>3, <2>4
<1> QED
  BY <1>1, <1>2, <1>3, <1>4, <1>5

(* A step of the gesture.                                                    *)
LEMMA HeldGestureStep ==
  ASSUME HeldOk, NEW s \in Seq(Operation), NEW at, GestureMoves(s, at),
         UNCHANGED <<gesture, held>>, at = "await" => Lead(s) # "finalReport",
         RunOf(s, "finalKeys", {}),
         /\ LoopFinal # <<>> /\ Lead(Loop) \in Resting
         /\ gesture \in {"search", "paste"} =>
              GestureFinal = <<>> /\ Lead(s) \in {"closeService", "stop"}
         => HeldReported'
  PROVE  HeldOk'
<1>1. /\ Loop' = Loop /\ LoopFinal' = LoopFinal /\ Gesture' = s /\ LoopAt' = LoopAt
      /\ GestureFinal' = GestureFinal /\ (Lead(Loop))' = Lead(Loop)
      /\ (Lead(Gesture))' = Lead(s) /\ GestureAt' = at
  BY DEF GestureMoves
<1>2. NoShortcut' <=>
        (gesture \in {"search", "paste"} =>
           GestureFinal = <<>> /\ Lead(s) \in {"closeService", "stop"})
  BY <1>1 DEF NoShortcut
<1>3. (RunOf(Loop, "keys", UNION held))'
  BY <1>1 DEF HeldOk, RunOf
<1>4. (RunOf(Gesture, "finalKeys", {}))'
  BY <1>1 DEF RunOf
<1> QED
  BY <1>1, <1>2, <1>3, <1>4 DEF HeldOk

(* What a gesture sends of the keys it sends in a shortcut, while the loop   *)
(* reads no event; then nothing is held.                                     *)
LEMMA ShortcutOnly ==
  ASSUME Typed, Shape, HeldOk, Gesture # <<>>, LoopFinal # <<>>, Lead(Loop) \in Resting
  PROVE  /\ gesture # "none"
         /\ NoShortcut => Lead(Gesture) \notin KeyReports
         /\ ~NoShortcut => held = {}
         /\ ~NoShortcut /\ GestureFinal = <<>> =>
              Lead(Gesture) \in {"finalReport", "finalKeys"}
<1>0. TaskType /\ ModeType /\ LoopShape /\ GestureShape
  BY DEF Typed, Shape
<1>1. gesture # "none"
  <2>1. ~Joining /\ closing # "done"
    BY <1>0 DEF Joining, Resting, LoopShape
  <2> QED
    BY <2>1 DEF Shape, Apart
<1>2. /\ Lead(Gesture) \in GestureOps
      /\ Lead(Gesture) \in ScrollOps \cup HomeOps \cup ShortcutOps \cup {"ensure", "sleep"} =>
           GestureFinal # <<>>
      /\ Lead(Gesture) \in ScrollOps => gesture = "scroll"
      /\ Lead(Gesture) \in HomeOps => gesture = "home"
      /\ Lead(Gesture) \in ShortcutOps \cup ShortcutFinals => gesture \in {"search", "paste"}
      /\ Lead(Gesture) = "lift" => gesture = "scroll"
      /\ Lead(Gesture) = "unpress" => gesture = "home"
  BY <1>0, <1>1, GestureNames
<1>3. NoShortcut => Lead(Gesture) \notin KeyReports
  <2>1. Lead(Gesture) \in KeyReports => Lead(Gesture) \in {"keys", "finalKeys"}
    BY <1>2 DEF KeyReports, GestureOps, ScrollOps, HomeOps, ShortcutOps, ShortcutFinals
  <2> QED
    BY <1>2, <2>1 DEF NoShortcut, ShortcutOps, ShortcutFinals
<1>4. ~NoShortcut => gesture \in {"search", "paste"} /\ held = {}
  BY DEF NoShortcut, HeldOk
<1>5. ~NoShortcut /\ GestureFinal = <<>> => Lead(Gesture) \in ShortcutFinals
  BY <1>2, <1>4 DEF GestureOps
<1>6. ~NoShortcut /\ GestureFinal = <<>> => Lead(Gesture) # "closeService"
  BY DEF NoShortcut
<1> QED
  BY <1>1, <1>3, <1>4, <1>5, <1>6 DEF ShortcutFinals

(* The gesture begins or ends a report.                                      *)
LEMMA HeldGesture ==
  ASSUME Typed, Shape, KeysOk, HeldOk,
         \/ Ensure("gesture") \/ Issue("gesture") \/ Prepare("gesture")
         \/ Succeeds("gesture") \/ Fails("gesture")
  PROVE  HeldOk'
<1>0. /\ TaskType /\ ModeType /\ LoopShape /\ GestureShape /\ Gesture \in Seq(Operation)
      /\ HeldType /\ PhoneType
  BY Parts DEF Typed, Shape
<1>t. Gesture # <<>> => Tail(Gesture) \in Seq(Operation)
  BY <1>0, GestureNow
<1>h. /\ RunOf(Gesture, "finalKeys", {})
      /\ LoopFinal # <<>> /\ Lead(Loop) \in Resting /\ NoShortcut => HeldReported
  BY DEF HeldOk
<1>u. UNION {} = {}
  OBVIOUS
<1>n. Gesture # <<>> /\ Lead(Tail(Gesture)) = "finalKeys" =>
        Lead(Gesture) = "finalKeys"
  <2>1. ASSUME Gesture # <<>>, Lead(Tail(Gesture)) = "finalKeys"
        PROVE  Lead(Gesture) = "finalKeys"
    <3>1. CASE GestureFinal = <<>>
      <4>1. Linked("final", Gesture)
        BY <1>0, <3>1 DEF GestureShape
      <4>2. "finalKeys" \in After("final", Lead(Gesture))
        BY <1>0, <2>1, <4>1, LinkedTail
      <4> QED
        BY <4>2 DEF After, FinalAfter
    <3>2. CASE GestureFinal # <<>>
      <4>1. gesture # "none" /\ Linked(gesture, Gesture)
        BY <1>0, <3>2 DEF GestureShape
      <4>2. "finalKeys" \in After(gesture, Lead(Gesture))
        BY <1>0, <2>1, <4>1, LinkedTail
      <4>3. CASE gesture = "scroll"
        BY <4>2, <4>3 DEF After, ScrollAfter
      <4>4. CASE gesture = "home"
        BY <4>2, <4>4 DEF After, HomeAfter
      <4>5. CASE gesture \in {"search", "paste"}
        BY <4>2, <4>5 DEF After, ShortcutAfter
      <4> QED
        BY <1>0, <4>1, <4>3, <4>4, <4>5 DEF ModeType, Gestures
    <3> QED
      BY <3>1, <3>2
  <2> QED
    BY <2>1
<1>r. Gesture # <<>> => /\ RunOf(Tail(Gesture), "finalKeys", {})
                        /\ Lead(Gesture) = "finalKeys"
                             /\ Lead(Tail(Gesture)) # "finalKeys" => Head(Gesture).keys = {}
  <2>1. CASE Lead(Gesture) = "finalKeys"
    BY <1>0, <1>h, <2>1, RunTail
  <2>2. CASE Lead(Gesture) # "finalKeys"
    BY <1>n, <2>2, NoRun
  <2> QED
    BY <2>1, <2>2
\* The gesture goes on with s.
<1>g. ASSUME NEW s \in Seq(Operation), NEW at, GestureMoves(s, at), Gesture # <<>>,
             UNCHANGED <<gesture, held>>, RunOf(s, "finalKeys", {}),
             at = "await" => Lead(s) # "finalReport",
             Lead(Gesture) \notin KeyReports =>
               doubt'.keys = doubt.keys /\ reported' = reported,
             /\ held = {} /\ Lead(Gesture) \in {"finalReport", "finalKeys"}
             /\ Lead(s) \in {"closeService", "stop"}
             => (doubt'.keys = "none" => reported' = {})
      PROVE  HeldOk'
  <2>1. ASSUME LoopFinal # <<>>, Lead(Loop) \in Resting,
               gesture \in {"search", "paste"} =>
                 GestureFinal = <<>> /\ Lead(s) \in {"closeService", "stop"}
        PROVE  HeldReported'
    <3>1. CASE NoShortcut
      BY <1>g, <1>h, <2>1, <3>1, ShortcutOnly DEF HeldReported
    <3>2. CASE ~NoShortcut
      <4>1. gesture \in {"search", "paste"}
        BY <3>2 DEF NoShortcut
      <4>2. held = {} /\ Lead(Gesture) \in {"finalReport", "finalKeys"}
        BY <1>g, <2>1, <3>2, <4>1, ShortcutOnly
      <4> QED
        BY <1>g, <1>u, <2>1, <4>1, <4>2 DEF HeldReported
    <3> QED
      BY <3>1, <3>2
  <2> QED
    BY <1>g, <2>1, HeldGestureStep
<1>1. CASE Ensure("gesture")
  <2>1. /\ Gesture # <<>> /\ Lead(Gesture) \in {"ensure", "indigo"}
        /\ UNCHANGED <<held, reported, gesture, doubt>>
        /\ GestureMoves(Tail(Gesture), "run") \/ GestureMoves(Gesture, "await")
    BY <1>0, <1>1, GestureEnsures
  <2> QED
    BY <1>0, <1>g, <1>h, <1>r, <1>t, <2>1
<1>2. CASE Issue("gesture")
  <2>1. /\ Gesture # <<>> /\ Lead(Gesture) \in Awaited
        /\ UNCHANGED <<held, reported, gesture, doubt>>
        /\ \/ GestureMoves(Gesture, "await")
           \/ /\ GestureMoves(Tail(Gesture), "run")
              /\ Lead(Gesture) = "finalKeys" => Head(Gesture).keys = reported
    BY <1>0, <1>2, GestureIssues
  <2>2. Lead(Gesture) # "finalReport"
    BY <2>1 DEF Awaited, Holding, Suppressed
  <2>3. CASE GestureMoves(Gesture, "await")
    <3>1. Lead(Gesture) = "finalKeys" => Lead(Gesture) \notin {"closeService", "stop"}
      OBVIOUS
    <3> QED
      BY <1>0, <1>g, <1>h, <2>1, <2>2, <2>3, <3>1
  <2>4. CASE /\ GestureMoves(Tail(Gesture), "run")
             /\ Lead(Gesture) = "finalKeys" => Head(Gesture).keys = reported
    <3>1. /\ Lead(Gesture) \in {"finalReport", "finalKeys"}
          /\ Lead(Tail(Gesture)) \in {"closeService", "stop"}
          => reported' = {}
      BY <1>r, <2>1, <2>2, <2>4
    <3> QED
      BY <1>g, <1>r, <1>t, <2>1, <2>4, <3>1
  <2> QED
    BY <2>1, <2>3, <2>4
<1>3. CASE Prepare("gesture")
  <2>1. /\ Gesture # <<>>
        /\ Lead(Gesture) \in {"report", "finalReport", "check", "again"}
        /\ UNCHANGED <<held, reported, gesture, phone, doubt>>
        /\ Lead(Gesture) = "report" =>
             GestureMoves(KeyStates("keys", Head(Gesture).keys) \o Tail(Gesture), "run")
        /\ Lead(Gesture) = "finalReport" =>
             GestureMoves((IF Sendable THEN KeyStates("finalKeys", {}) ELSE <<>>)
                            \o Tail(Gesture), "run")
        /\ Lead(Gesture) = "check" =>
             GestureMoves(Tail(Gesture), "run") \/ GestureMoves(<<>>, "run")
        /\ Lead(Gesture) = "again" => GestureMoves(Drags, "run") \/ GestureMoves(<<>>, "run")
    BY <1>0, <1>3, GesturePrepares
  <2>2. Tail(Gesture) \in Seq(Operation) /\ Head(Gesture).keys \in SUBSET Usages
        /\ {} \in SUBSET Usages
    BY <1>0, <2>1, GestureNow
  <2>3. ASSUME NEW s \in Seq(Operation), GestureMoves(s, "run"), RunOf(s, "finalKeys", {}),
               Lead(Gesture) = "finalReport" /\ Lead(s) \in {"closeService", "stop"} =>
                 ~Sendable
        PROVE  HeldOk'
    <3>1. ~Sendable => (doubt'.keys = "none" => reported' = {})
      BY <2>1 DEF KeysOk, KeysClear
    <3> QED
      BY <1>g, <2>1, <2>3, <3>1
  <2>4. RunOf(<<>>, "finalKeys", {}) /\ RunOf(Drags, "finalKeys", {})
    BY EmptyList, DragsList, NoRun
  <2>k. \E k \in Kinds : Linked(k, Gesture)
    BY <1>0, GestureKinds DEF GestureShape
  <2>5. CASE Lead(Gesture) = "report"
    <3> DEFINE s == KeyStates("keys", Head(Gesture).keys) \o Tail(Gesture)
    <3>1. s \in Seq(Operation) /\ Lead(s) = "keys"
      BY <2>1, <2>2, <2>5, ReportLinked
    <3>2. RunOf(s, "finalKeys", {}) /\ GestureMoves(s, "run")
      BY <2>1, <2>5, <3>1, NoRun
    <3> HIDE DEF s
    <3> QED
      BY <2>3, <2>5, <3>1, <3>2
  <2>6. CASE Lead(Gesture) = "finalReport"
    <3>1. CASE Sendable
      <4> DEFINE s == KeyStates("finalKeys", {}) \o Tail(Gesture)
      <4>1. s \in Seq(Operation) /\ Lead(s) = "finalKeys" /\ RunOf(s, "finalKeys", {})
        BY <2>1, <2>2, <2>6, <2>k, ReportLinked
      <4>2. GestureMoves(s, "run")
        BY <2>1, <2>6, <3>1
      <4> HIDE DEF s
      <4> QED
        BY <2>3, <4>1, <4>2
    <3>2. CASE ~Sendable
      <4>1. GestureMoves(<<>> \o Tail(Gesture), "run") /\ <<>> \o Tail(Gesture) = Tail(Gesture)
        BY <2>1, <2>2, <2>6, <3>2
      <4>2. GestureMoves(Tail(Gesture), "run")
        BY <4>1
      <4> QED
        BY <1>r, <2>1, <2>2, <2>3, <3>2, <4>2
    <3> QED
      BY <3>1, <3>2
  <2>7. CASE Lead(Gesture) \in {"check", "again"}
    BY <1>r, <2>1, <2>2, <2>3, <2>4, <2>7, EmptyList, DragsList
  <2> QED
    BY <2>1, <2>5, <2>6, <2>7
<1>4. CASE Succeeds("gesture")
  <2>1. /\ Gesture # <<>> /\ GestureAt = "await" /\ Sure(Lead(Gesture), Head(Gesture).keys)
        /\ reported' = IF Lead(Gesture) \in KeyReports THEN Head(Gesture).keys ELSE reported
        /\ GestureMoves(Tail(Gesture), "run")
        /\ UNCHANGED <<held, gesture>>
    BY <1>0, <1>4, GestureSucceeds
  <2>2. Lead(Gesture) \notin KeyReports => doubt'.keys = doubt.keys /\ reported' = reported
    BY <2>1, KeysSure
  <2>3. Lead(Gesture) # "finalReport"
    BY <2>1 DEF HeldOk
  <2>4. Lead(Gesture) = "finalKeys" /\ Lead(Tail(Gesture)) \in {"closeService", "stop"} =>
          reported' = {}
    BY <1>r, <2>1 DEF KeyReports
  <2> QED
    BY <1>g, <1>r, <1>t, <2>1, <2>2, <2>3, <2>4
<1>5. CASE Fails("gesture")
  <2>1. /\ Gesture # <<>> /\ GestureAt = "await" /\ Unsure(Lead(Gesture))
        /\ Lead(Gesture) \in Suppressed => GestureMoves(Remaining("gesture"), "run")
        /\ Lead(Gesture) \notin Suppressed => GestureMoves(<<>>, "run")
        /\ UNCHANGED <<held, reported, gesture>>
    BY <1>0, <1>5, GestureFails
  <2>2. /\ Lead(Gesture) \notin KeyReports => doubt'.keys = doubt.keys
        /\ Lead(Gesture) \in KeyReports => doubt'.keys # "none"
    BY <2>1, KeysUnsure
  <2>3. Lead(Gesture) # "finalReport"
    BY <2>1 DEF HeldOk
  <2>4. CASE Lead(Gesture) \in Suppressed
    <3>1. RunOf(Remaining("gesture"), "finalKeys", {})
      <4>1. /\ Lead(<<Op("closeService")>>) = "closeService"
            /\ Lead(<<>>) = "stop"
        BY EmptyList DEF Lead, Op
      <4> QED
        BY <1>r, <2>1, <2>4, <4>1, RemainingIs, NoRun
    <3> QED
      BY <1>g, <2>1, <2>2, <2>3, <2>4, <3>1, RemainingIs DEF KeyReports
  <2>5. CASE Lead(Gesture) \notin Suppressed
    BY <1>g, <2>1, <2>2, <2>3, <2>5, EmptyList, NoRun DEF KeyReports
  <2> QED
    BY <2>4, <2>5
<1> QED
  BY <1>1, <1>2, <1>3, <1>4, <1>5

(* A gesture begins or ends, or is joined.                                   *)
LEMMA HeldJoins ==
  ASSUME Typed, Shape, KeysOk, HeldOk, Start \/ Finally \/ Join \/ Joined
  PROVE  HeldOk'
<1>0. /\ TaskType /\ ModeType /\ LoopShape /\ GestureShape /\ Loop \in Seq(Operation)
      /\ Gesture \in Seq(Operation) /\ PhoneType
  BY Parts DEF Typed, Shape
<1>h. /\ LoopAt = "await" => Lead(Loop) # "reportHeld"
      /\ Lead(Loop) \in AfterJoin => held = {}
      /\ gesture \in {"home", "search", "paste"} => held = {}
      /\ LoopFinal # <<>> /\ Lead(Loop) \in Resting /\ NoShortcut => HeldReported
  BY DEF HeldOk
<1>n. "join" \notin AfterJoin \cup Resting /\ "stop" \notin AfterJoin
  BY DEF AfterJoin, Starts, Gestures, Resting
<1>f. gesture # "none" =>
        /\ GestureFinal = <<>> \/ GestureFinal # <<>>
        /\ Lead(GestureFinal) # "finalKeys"
        /\ GestureFinal # <<>> /\ gesture \in {"search", "paste"} =>
             Lead(GestureFinal) = "finalReport"
  <2>1. GestureFinal = <<>> => Lead(GestureFinal) = "stop"
    BY EmptyList
  <2>2. ASSUME gesture # "none", GestureFinal # <<>>
        PROVE  /\ Lead(GestureFinal) # "finalKeys"
               /\ gesture \in {"search", "paste"} => Lead(GestureFinal) = "finalReport"
    <3>1. gesture \in Gestures /\ GestureFinal = Final(gesture)
      BY <1>0, <2>2 DEF GestureShape, ModeType
    <3> QED
      BY <3>1, FinalList
  <2> QED
    BY <2>1, <2>2
<1>1. CASE Start
  <2> DEFINE g == Lead(Loop)
  <2>1. /\ Loop # <<>> /\ LoopAt = "run" /\ g \in Gestures
        /\ gesture' = g /\ Loop' = Tail(Loop) /\ LoopAt' = "run"
        /\ LoopFinal' = LoopFinal /\ Gesture' = Body(g)
        /\ GestureFinal' = Final(g) /\ GestureAt' = "ready"
        /\ UNCHANGED <<held, reported, doubt>>
    BY <1>0, <1>1, StartDoes
  <2>2. Lead(Tail(Loop)) = "stop"
    BY <1>0, <2>1, LoopNames DEF LoopAfter, Gestures
  <2>3. (Lead(Loop))' = "stop"
    BY <2>1, <2>2
  <2>4. /\ Final(g) # <<>> /\ Lead(Body(g)) # "finalKeys"
    BY <2>1, BodyList, FinalList
  <2>5. g # "scroll" => g \in AfterJoin /\ held = {}
    BY <1>h, <2>1 DEF AfterJoin, Starts
  <2>6. (RunOf(Loop, "keys", UNION held))'
    BY <2>1, <2>2 DEF RunOf
  <2>7. (RunOf(Gesture, "finalKeys", {}))'
    BY <2>1, <2>4 DEF RunOf
  <2>8. g \in {"home", "search", "paste"} => g # "scroll"
    OBVIOUS
  <2>9. LoopFinal' # <<>> /\ NoShortcut' => HeldReported'
    <3>1. ASSUME LoopFinal # <<>>, NoShortcut'
          PROVE  HeldReported
      <4>1. g \in {"scroll", "home"}
        BY <2>1, <2>4, <3>1 DEF NoShortcut, Gestures
      <4>2. CASE g = "scroll"
        <5>1. g \in Pointing /\ g \in Resting
          BY <4>2 DEF Pointing, Starts, Gestures, Resting
        <5>2. gesture = "none"
          BY <1>0, <5>1, Alone DEF NoGesture
        <5> QED
          BY <1>h, <3>1, <5>1, <5>2 DEF NoShortcut
      <4>3. CASE g = "home"
        <5>1. g \in Cleared
          BY <4>3 DEF Cleared, AfterJoin, Starts, Gestures
        <5>2. KeysClear /\ held = {}
          BY <2>5, <4>3, <5>1 DEF KeysOk
        <5> QED
          BY <5>2 DEF KeysClear, HeldReported
      <4> QED
        BY <4>1, <4>2, <4>3
    <3> QED
      BY <2>1, <3>1 DEF HeldReported
  <2> HIDE DEF g
  <2> QED
    BY <1>n, <2>1, <2>3, <2>5, <2>6, <2>7, <2>8, <2>9 DEF HeldOk
<1>2. CASE Finally
  <2>1. /\ Gesture = <<>> /\ gesture # "none"
        /\ gesture' = IF GestureFinal = <<>> THEN "none" ELSE gesture
        /\ Gesture' = GestureFinal /\ GestureFinal' = <<>> /\ GestureAt' = "run"
        /\ UNCHANGED <<Loop, LoopAt, LoopFinal>>
        /\ UNCHANGED <<held, reported, doubt>>
    BY <1>2, FinallyDoes
  <2>2. (Lead(Loop))' = Lead(Loop) /\ (Lead(Gesture))' = Lead(GestureFinal)
    BY <2>1
  <2>3. (RunOf(Loop, "keys", UNION held))'
    BY <2>1 DEF HeldOk, RunOf
  <2>4. (RunOf(Gesture, "finalKeys", {}))'
    BY <1>f, <2>1 DEF RunOf
  <2>5. NoShortcut' => NoShortcut
    <3>1. CASE GestureFinal = <<>>
      BY <2>1, <3>1, EmptyList DEF NoShortcut
    <3>2. CASE GestureFinal # <<>>
      BY <1>f, <2>1, <2>2, <3>2 DEF NoShortcut
    <3> QED
      BY <3>1, <3>2
  <2>6. HeldReported' <=> HeldReported
    BY <2>1 DEF HeldReported
  <2> QED
    BY <1>h, <2>1, <2>2, <2>3, <2>4, <2>5, <2>6 DEF HeldOk
<1>j. ASSUME Loop # <<>>, Lead(Loop) = "join", LoopMoves(Tail(Loop), "run"),
             held' = {}, gesture' = gesture
      PROVE  HeldOk'
  <2>1. Lead(Tail(Loop)) = "lift" /\ "lift" \notin Resting
    BY <1>0, <1>j, LoopNames DEF LoopAfter, Resting
  <2>2. Tail(Loop) \in Seq(Operation)
    BY <1>0, <1>j, LoopNow
  <2>3. RunOf(Tail(Loop), "keys", UNION held')
    BY <2>1, NoRun
  <2> QED
    BY <1>j, <2>1, <2>2, <2>3, HeldLoopStep
<1>3. CASE Join
  <2>1. /\ Loop # <<>> /\ Lead(Loop) = "join" /\ gesture' = "none"
        /\ \/ gesture = "none" /\ LoopMoves(Tail(Loop), "run") /\ held' = {}
           \/ /\ gesture # "none" /\ Dropped /\ held' = held
              /\ Loop' = Loop /\ LoopAt' = "await"
    BY <1>0, <1>3, JoinDoes
  <2>2. CASE gesture = "none" /\ LoopMoves(Tail(Loop), "run") /\ held' = {}
    BY <1>j, <2>1, <2>2
  <2>3. CASE gesture # "none" /\ Dropped /\ held' = held /\ Loop' = Loop /\ LoopAt' = "await"
    <3>1. /\ Gesture' = <<>> \/ Gesture' = GestureFinal
          /\ GestureAt' = "run"
      BY <2>3 DEF Dropped
    <3>2. (Lead(Loop))' = "join"
      BY <2>1, <2>3
    <3>3. (RunOf(Loop, "keys", UNION held))'
      BY <2>1, <2>3 DEF RunOf
    <3>4. (RunOf(Gesture, "finalKeys", {}))'
      <4>1. Lead(Gesture') # "finalKeys"
        BY <1>f, <2>3, <3>1, EmptyList
      <4> QED
        BY <4>1 DEF RunOf
    <3> QED
      BY <1>n, <2>1, <2>3, <3>1, <3>2, <3>3, <3>4 DEF HeldOk
  <2> QED
    BY <2>1, <2>2, <2>3
<1>4. CASE Joined
  <2>1. /\ Loop # <<>> /\ Lead(Loop) = "join" /\ LoopMoves(Tail(Loop), "run")
        /\ held' = {} /\ gesture' = gesture
    BY <1>4, JoinedDoes
  <2> QED
    BY <1>j, <2>1
<1> QED
  BY <1>1, <1>2, <1>3, <1>4

(* close_session: the bridge is interrupted, and closed once more.           *)
LEMMA HeldCloses ==
  ASSUME Typed, Shape, HeldOk, Cancel \/ BridgeClose \/ BridgeClosed \/ UNCHANGED vars
  PROVE  HeldOk'
<1>0. /\ TaskType /\ ModeType /\ LoopShape /\ GestureShape /\ PhoneType
      /\ Loop \in Seq(Operation) /\ Gesture \in Seq(Operation)
  BY Parts DEF Typed, Shape
<1>n. "join" \notin AfterJoin \cup Resting /\ "stop" \notin AfterJoin
  BY DEF AfterJoin, Starts, Gestures, Resting
<1>s. ASSUME Still, UNCHANGED <<held, gesture, reported, doubt>>
      PROVE  HeldOk'
  <2>1. /\ (Lead(Loop))' = Lead(Loop) /\ (Lead(Gesture))' = Lead(Gesture)
        /\ LoopAt' = LoopAt /\ GestureAt' = GestureAt /\ LoopFinal' = LoopFinal
    BY <1>s DEF Still
  <2>2. (NoShortcut' <=> NoShortcut) /\ (HeldReported' <=> HeldReported)
    BY <1>s, <2>1 DEF Still, NoShortcut, HeldReported
  <2>3. (RunOf(Loop, "keys", UNION held))'
    BY <1>s DEF HeldOk, RunOf, Still
  <2>4. (RunOf(Gesture, "finalKeys", {}))'
    BY <1>s DEF HeldOk, RunOf, Still
  <2> QED
    BY <1>s, <2>1, <2>2, <2>3, <2>4 DEF HeldOk
<1>c. ASSUME Cut, UNCHANGED <<held, gesture>>
      PROVE  HeldOk'
  <2>1. /\ Loop' = LoopFinal /\ LoopFinal' = <<>> /\ LoopAt' = "run"
        /\ UNCHANGED <<Gesture, GestureAt>>
    BY <1>c DEF Cut
  <2>2. Lead(LoopFinal) \in {"stop", "join"}
    <3>1. LoopFinal = <<>> \/ LoopFinal = Close
      BY <1>0 DEF LoopShape
    <3> QED
      BY <3>1, EmptyList, CloseList
  <2>3. (Lead(Loop))' = Lead(LoopFinal) /\ (Lead(Gesture))' = Lead(Gesture)
    BY <2>1
  <2>4. (RunOf(Loop, "keys", UNION held))'
    BY <2>1, <2>2 DEF RunOf
  <2>5. (RunOf(Gesture, "finalKeys", {}))'
    BY <2>1 DEF HeldOk, RunOf
  <2>6. /\ GestureAt = "await" => Lead(Gesture) # "finalReport"
        /\ gesture \in {"home", "search", "paste"} => held = {}
    BY DEF HeldOk
  <2>7. (Lead(Loop))' \notin AfterJoin
    BY <1>n, <2>2, <2>3
  <2> QED
    BY <1>c, <2>1, <2>3, <2>4, <2>5, <2>6, <2>7 DEF HeldOk
<1>1. CASE Cancel
  <2>1. /\ UNCHANGED <<held, gesture, reported>>
        /\ \/ Still /\ UNCHANGED <<phone, doubt>>
           \/ /\ Joining /\ Dropped /\ Loop' = Loop /\ LoopAt' = "await"
           \/ Cut
    BY <1>0, <1>1, CancelDoes
  <2>2. CASE Still /\ UNCHANGED <<phone, doubt>>
    BY <1>s, <2>1, <2>2
  <2>3. CASE Joining /\ Dropped /\ Loop' = Loop /\ LoopAt' = "await"
    <3>1. gesture = "none" /\ GestureFinal = <<>>
      BY <1>0, <2>3 DEF Shape, Apart, GestureShape
    <3>2. Gesture' = <<>> /\ GestureAt' = "run"
      BY <2>3, <3>1 DEF Dropped
    <3>3. (Lead(Loop))' = "join" /\ Lead(Loop) = "join"
      BY <2>3 DEF Joining
    <3>4. (RunOf(Loop, "keys", UNION held))'
      BY <2>3, <3>3 DEF RunOf
    <3>5. (RunOf(Gesture, "finalKeys", {}))'
      BY <3>2, EmptyList DEF RunOf
    <3> QED
      BY <1>n, <2>1, <2>3, <3>1, <3>2, <3>3, <3>4, <3>5 DEF HeldOk
  <2> QED
    BY <1>c, <2>1, <2>2, <2>3
<1>2. CASE BridgeClose
  <2>1. LoopFinal = <<>> /\ LoopMoves(Close, "run") /\ UNCHANGED <<held, gesture>>
    BY <1>0, <1>2, BridgeCloseDoes
  <2>2. Close \in Seq(Operation) /\ Lead(Close) = "join"
    BY CloseList
  <2>3. RunOf(Close, "keys", UNION held')
    BY <2>2, NoRun
  <2> QED
    BY <1>n, <2>1, <2>2, <2>3, HeldLoopStep
<1>3. CASE BridgeClosed
  <2>1. /\ UNCHANGED <<held, gesture, reported>>
        /\ (Still /\ UNCHANGED <<phone, doubt>>) \/ Cut
    BY <1>0, <1>3, BridgeClosedDoes
  <2> QED
    BY <1>s, <1>c, <2>1
<1>4. CASE UNCHANGED vars
  <2>1. UNCHANGED <<held, gesture, reported, doubt, task>>
    BY <1>4 DEF vars, record
  <2> QED
    BY <1>0, <1>s, <2>1, StillIs
<1> QED
  BY <1>1, <1>2, <1>3, <1>4

(* Every step keeps what is known of the keys that are held.                 *)
LEMMA HeldStep ==
  ASSUME Typed, Shape, KeysOk, HeldOk, [Next]_vars
  PROVE  HeldOk'
BY Steps, HeldReads, HeldLoop, HeldGesture, HeldJoins, HeldCloses

-----------------------------------------------------------------------------
(* The Home button.                                                          *)

(* A step that concerns neither the button nor the gesture.                  *)
LEMMA ButtonSame ==
  ASSUME ButtonOk, UNCHANGED <<Gesture, GestureAt, GestureFinal, gesture>>,
         homeDown' <=> homeDown,
         phone'.button <=> phone.button, doubt'.button = doubt.button
  PROVE  ButtonOk'
<1>1. (Lead(Gesture))' = Lead(Gesture)
  OBVIOUS
<1>2. ButtonKnown' <=> ButtonKnown
  BY DEF ButtonKnown
<1> QED
  BY <1>1, <1>2 DEF ButtonOk

(* The gesture goes on with s, and the button is not concerned.              *)
LEMMA ButtonGestureStep ==
  ASSUME ButtonOk, NEW s, NEW at \in {"run", "await"}, GestureMoves(s, at), gesture' = gesture,
         homeDown' <=> homeDown,
         phone'.button <=> phone.button, doubt'.button = doubt.button,
         Lead(Gesture) \notin {"press", "unpress"},
         at = "await" => Lead(s) \notin {"press", "unpress"}
  PROVE  ButtonOk'
<1>1. /\ GestureFinal' = GestureFinal /\ (Lead(Gesture))' = Lead(s) /\ GestureAt' = at
  BY DEF GestureMoves
<1>2. ButtonKnown' <=> ButtonKnown
  BY DEF ButtonKnown
<1> QED
  BY <1>1, <1>2 DEF ButtonOk

(* The loop does not press the button.                                       *)
LEMMA ButtonLoop ==
  ASSUME Typed, Shape, ButtonOk,
         \/ Reads \/ EndOfFile \/ Ensure("loop") \/ Issue("loop") \/ Prepare("loop")
         \/ Succeeds("loop") \/ Fails("loop") \/ Joined \/ BridgeClose
  PROVE  ButtonOk'
<1>0. TaskType /\ LoopShape
  BY DEF Typed, Shape
<1>1. CASE Reads
  <2>1. PICK s \in Seq(Operation) : Read(s)
    BY <1>1, ReadsDoes
  <2>2. /\ LoopMoves(s, "run") /\ UNCHANGED <<homeDown, gesture, phone, doubt>>
    BY <2>1 DEF Read
  <2> QED
    BY <2>2, ButtonSame DEF LoopMoves
<1>2. CASE EndOfFile
  BY <1>2, EndOfFileDoes, ButtonSame
<1>3. CASE Ensure("loop")
  BY <1>0, <1>3, LoopEnsures, ButtonSame DEF LoopMoves
<1>4. CASE Issue("loop")
  BY <1>0, <1>4, LoopIssues, ButtonSame DEF LoopMoves
<1>5. CASE Prepare("loop")
  BY <1>0, <1>5, LoopPrepares, ButtonSame DEF LoopMoves
<1>n. Loop # <<>> => Lead(Loop) \notin {"press", "unpress"}
  BY <1>0, LoopNames
     DEF LoopOps, Connecting, Acts, Typing, Pointing, Starts, Gestures
<1>6. CASE Succeeds("loop")
  <2>1. /\ Loop # <<>> /\ Sure(Lead(Loop), Head(Loop).keys) /\ LoopMoves(Tail(Loop), "run")
        /\ UNCHANGED <<homeDown, gesture>>
    BY <1>0, <1>6, LoopSucceeds
  <2>2. (phone'.button <=> phone.button) /\ doubt'.button = doubt.button
    BY <1>n, <2>1 DEF Sure
  <2> QED
    BY <2>1, <2>2, ButtonSame DEF LoopMoves
<1>7. CASE Fails("loop")
  <2>1. /\ Loop # <<>> /\ Unsure(Lead(Loop))
        /\ UNCHANGED <<Gesture, GestureAt, GestureFinal, homeDown, gesture>>
    BY <1>0, <1>7, LoopFails DEF LoopMoves
  <2>2. (phone'.button <=> phone.button) /\ doubt'.button = doubt.button
    BY <1>n, <2>1 DEF Unsure
  <2> QED
    BY <2>1, <2>2, ButtonSame
<1>8. CASE Joined
  BY <1>8, JoinedDoes, ButtonSame DEF LoopMoves
<1>9. CASE BridgeClose
  BY <1>0, <1>9, BridgeCloseDoes, ButtonSame DEF LoopMoves
<1> QED
  BY <1>1, <1>2, <1>3, <1>4, <1>5, <1>6, <1>7, <1>8, <1>9

(* The gesture presses the button, lets go of it, or does something else.    *)
LEMMA ButtonGesture ==
  ASSUME Typed, Shape, ButtonOk,
         \/ Ensure("gesture") \/ Issue("gesture") \/ Prepare("gesture")
         \/ Succeeds("gesture") \/ Fails("gesture")
  PROVE  ButtonOk'
<1>0. TaskType /\ ModeType /\ GestureShape
  BY DEF Typed, Shape
<1>b. /\ homeDown => \/ gesture = "home" /\ GestureFinal # <<>>
                     \/ Lead(Gesture) = "unpress" /\ GestureAt # "await"
      /\ GestureAt = "await" /\ Lead(Gesture) = "press" => homeDown
      /\ ~homeDown /\ ~(GestureAt = "await" /\ Lead(Gesture) = "unpress") => ButtonKnown
  BY DEF ButtonOk
<1>1. CASE Ensure("gesture")
  <2>1. /\ Lead(Gesture) \in {"ensure", "indigo"}
        /\ UNCHANGED <<homeDown, gesture, phone, doubt>>
        /\ GestureMoves(Tail(Gesture), "run") \/ GestureMoves(Gesture, "await")
    BY <1>0, <1>1, GestureEnsures
  <2> QED
    BY <2>1, ButtonGestureStep
<1>2. CASE Issue("gesture")
  <2>1. /\ Gesture # <<>> /\ GestureAt # "await"
        /\ UNCHANGED <<gesture, phone, doubt>>
        /\ homeDown' \in BOOLEAN
        /\ homeDown' <=> Lead(Gesture) = "press" \/ (homeDown /\ Lead(Gesture) # "unpress")
        /\ \/ GestureMoves(Gesture, "await")
           \/ /\ GestureMoves(Tail(Gesture), "run") /\ Lead(Gesture) # "press"
              /\ Lead(Gesture) = "unpress" => ~homeDown
    BY <1>0, <1>2, GestureIssues
  <2>2. ButtonKnown' <=> ButtonKnown
    BY <2>1 DEF ButtonKnown
  <2>3. CASE Lead(Gesture) = "press"
    <3>1. /\ gesture = "home" /\ GestureFinal # <<>> /\ homeDown'
          /\ GestureMoves(Gesture, "await")
      BY <1>0, <2>1, <2>3, GestureNames DEF HomeOps
    <3>2. gesture' = "home" /\ GestureFinal' # <<>> /\ GestureAt' = "await"
      BY <2>1, <3>1 DEF GestureMoves
    <3> QED
      BY <3>1, <3>2 DEF ButtonOk
  <2>4. CASE Lead(Gesture) = "unpress"
    <3>1. ~homeDown'
      BY <2>1, <2>4
    <3>2. CASE GestureMoves(Gesture, "await")
      <4>1. (Lead(Gesture))' = "unpress" /\ GestureAt' = "await"
        BY <2>4, <3>2 DEF GestureMoves
      <4> QED
        BY <3>1, <4>1 DEF ButtonOk
    <3>3. CASE GestureMoves(Tail(Gesture), "run") /\ ~homeDown
      <4>1. GestureAt' = "run" /\ ButtonKnown
        BY <1>b, <2>1, <3>3 DEF GestureMoves
      <4> QED
        BY <2>2, <3>1, <4>1 DEF ButtonOk
    <3> QED
      BY <2>1, <2>4, <3>2, <3>3
  <2>5. CASE Lead(Gesture) \notin {"press", "unpress"}
    <3>1. homeDown' <=> homeDown
      BY <2>1, <2>5
    <3> QED
      BY <2>1, <2>5, <3>1, ButtonGestureStep
  <2> QED
    BY <2>3, <2>4, <2>5
<1>3. CASE Prepare("gesture")
  <2>1. /\ Lead(Gesture) \in {"report", "finalReport", "check", "again"}
        /\ UNCHANGED <<homeDown, gesture, phone, doubt>>
        /\ \E s : GestureMoves(s, "run")
    BY <1>0, <1>3, GesturePrepares
  <2> QED
    BY <2>1, ButtonGestureStep
\* An answer.
<1>4. ASSUME Gesture # <<>>, GestureAt = "await", NEW s, GestureMoves(s, "run"),
             UNCHANGED <<homeDown, gesture>>,
             Lead(Gesture) = "unpress" => ButtonKnown',
             Lead(Gesture) \notin {"press", "unpress"} =>
               (phone'.button <=> phone.button) /\ doubt'.button = doubt.button
      PROVE  ButtonOk'
  <2>1. gesture' = gesture /\ GestureFinal' = GestureFinal /\ GestureAt' = "run"
    BY <1>4 DEF GestureMoves
  <2>2. homeDown => gesture = "home" /\ GestureFinal # <<>>
    BY <1>b, <1>4
  <2>3. ~homeDown => ButtonKnown'
    <3>1. CASE Lead(Gesture) = "unpress"
      BY <1>4, <3>1
    <3>2. CASE Lead(Gesture) # "unpress"
      BY <1>b, <1>4, <3>2 DEF ButtonKnown
    <3> QED
      BY <3>1, <3>2
  <2> QED
    BY <1>4, <2>1, <2>2, <2>3 DEF ButtonOk
<1>5. CASE Succeeds("gesture")
  <2>1. /\ Gesture # <<>> /\ GestureAt = "await"
        /\ Sure(Lead(Gesture), Head(Gesture).keys)
        /\ GestureMoves(Tail(Gesture), "run") /\ UNCHANGED <<homeDown, gesture>>
    BY <1>0, <1>5, GestureSucceeds
  <2>2. /\ Lead(Gesture) = "unpress" => ButtonKnown'
        /\ Lead(Gesture) \notin {"press", "unpress"} =>
             (phone'.button <=> phone.button) /\ doubt'.button = doubt.button
    BY <2>1 DEF Sure, ButtonKnown
  <2> QED
    BY <1>4, <2>1, <2>2
<1>6. CASE Fails("gesture")
  <2>1. /\ Gesture # <<>> /\ GestureAt = "await" /\ Unsure(Lead(Gesture))
        /\ UNCHANGED <<homeDown, gesture>>
        /\ \E s : GestureMoves(s, "run")
    BY <1>0, <1>6, GestureFails
  <2>2. /\ Lead(Gesture) = "unpress" => ButtonKnown'
        /\ Lead(Gesture) \notin {"press", "unpress"} =>
             (phone'.button <=> phone.button) /\ doubt'.button = doubt.button
    BY <2>1 DEF Unsure, ButtonKnown
  <2> QED
    BY <1>4, <2>1, <2>2
<1> QED
  BY <1>1, <1>2, <1>3, <1>5, <1>6

(* A cancelled gesture goes on to let go of the button.                      *)
LEMMA ButtonDropped ==
  ASSUME Typed, Shape, ButtonOk, Dropped, homeDown' = homeDown,
         GestureAt = "run" => gesture = "none" /\ Gesture = <<>>,
         GestureAt = "await" => Unsure(Lead(Gesture)),
         GestureAt # "await" => UNCHANGED <<phone, doubt>>
  PROVE  ButtonOk'
<1>0. TaskType /\ ModeType /\ GestureShape
  BY DEF Typed, Shape
<1>b. /\ homeDown => \/ gesture = "home" /\ GestureFinal # <<>>
                     \/ Lead(Gesture) = "unpress" /\ GestureAt # "await"
      /\ GestureAt = "ready" => ~homeDown
      /\ GestureAt = "await" /\ Lead(Gesture) = "press" => homeDown
      /\ ~homeDown /\ ~(GestureAt = "await" /\ Lead(Gesture) = "unpress") => ButtonKnown
  BY DEF ButtonOk
<1>1. homeDown => (Lead(Gesture))' = "unpress"
  <2>1. ASSUME homeDown PROVE Lead(Gesture') = "unpress"
    <3>1. GestureAt \in {"run", "ready", "await"}
      BY <1>0, Parts
    <3>2. GestureAt = "await" /\ gesture = "home" /\ GestureFinal # <<>>
      BY <1>b, <2>1, <3>1, EmptyList
    <3>3. GestureFinal = Final("home") /\ "home" \in Gestures
      BY <1>0, <3>2 DEF GestureShape, Gestures
    <3>4. Gesture' = GestureFinal
      BY <3>2 DEF Dropped
    <3>5. Lead(Final("home")) = "unpress"
      BY <3>3, FinalList
    <3> QED
      BY <3>3, <3>4, <3>5
  <2> QED
    BY <2>1
<1>2. ~homeDown => ButtonKnown'
  <2>1. CASE GestureAt = "await"
    BY <1>b, <2>1 DEF Unsure, ButtonKnown
  <2>2. CASE GestureAt # "await"
    BY <1>b, <2>2 DEF ButtonKnown
  <2> QED
    BY <2>1, <2>2
<1>3. GestureAt' = "run"
  BY DEF Dropped
<1> QED
  BY <1>1, <1>2, <1>3 DEF ButtonOk

(* A gesture begins or ends, or is cancelled, or the loop is.                *)
LEMMA ButtonJoins ==
  ASSUME Typed, Shape, ButtonOk,
         Start \/ Finally \/ Join \/ Cancel \/ BridgeClosed \/ UNCHANGED vars
  PROVE  ButtonOk'
<1>0. TaskType /\ ModeType /\ LoopShape /\ GestureShape
  BY DEF Typed, Shape
<1>b. /\ homeDown => \/ gesture = "home" /\ GestureFinal # <<>>
                     \/ Lead(Gesture) = "unpress" /\ GestureAt # "await"
      /\ ~homeDown /\ ~(GestureAt = "await" /\ Lead(Gesture) = "unpress") => ButtonKnown
  BY DEF ButtonOk
<1>s. ASSUME Still, UNCHANGED <<homeDown, gesture, phone, doubt>>
      PROVE  ButtonOk'
  BY <1>s, ButtonSame DEF Still
<1>c. ASSUME Cut, UNCHANGED <<homeDown, gesture>>
      PROVE  ButtonOk'
  <2>1. (phone'.button <=> phone.button) /\ doubt'.button = doubt.button
    <3>1. CASE LoopAt = "await"
      <4>1. Loop # <<>>
        BY <1>0, <3>1, Parts
      <4>2. Lead(Loop) \notin {"press", "unpress"}
        BY <1>0, <4>1, LoopNames
           DEF LoopOps, Connecting, Acts, Typing, Pointing, Starts, Gestures
      <4> QED
        BY <1>c, <3>1, <4>2 DEF Cut, Unsure
    <3>2. CASE LoopAt # "await"
      BY <1>c, <3>2 DEF Cut
    <3> QED
      BY <3>1, <3>2
  <2> QED
    BY <1>c, <2>1, ButtonSame DEF Cut
<1>1. CASE Start
  <2>1. /\ Lead(Loop) \in Gestures /\ GestureAt' = "ready"
        /\ UNCHANGED <<homeDown, phone, doubt>>
    BY <1>0, <1>1, StartDoes
  <2>2. gesture = "none" /\ Gesture = <<>>
    BY <1>0, <2>1, Alone DEF Pointing, Starts, NoGesture
  <2>3. Lead(Gesture) = "stop"
    BY <2>2, EmptyList
  <2>4. ~homeDown /\ ButtonKnown
    BY <1>b, <2>2, <2>3
  <2> QED
    BY <2>1, <2>4 DEF ButtonOk, ButtonKnown
<1>2. CASE Finally
  <2>1. /\ Gesture = <<>> /\ GestureAt = "run"
        /\ Gesture' = GestureFinal /\ GestureAt' = "run"
        /\ UNCHANGED <<homeDown, phone, doubt>>
    BY <1>2, FinallyDoes
  <2>2. Lead(Gesture) = "stop"
    BY <2>1, EmptyList
  <2>3. homeDown => (Lead(Gesture))' = "unpress"
    <3>1. ASSUME homeDown PROVE Lead(GestureFinal) = "unpress"
      <4>1. GestureFinal = Final("home") /\ "home" \in Gestures
        BY <1>0, <1>b, <2>2, <3>1 DEF GestureShape, Gestures
      <4>2. Lead(Final("home")) = "unpress"
        BY <4>1, FinalList
      <4> QED
        BY <4>1, <4>2
    <3> QED
      BY <2>1, <3>1
  <2>4. ~homeDown => ButtonKnown'
    BY <1>b, <2>1 DEF ButtonKnown
  <2> QED
    BY <2>1, <2>3, <2>4 DEF ButtonOk
<1>3. CASE Join
  <2>1. /\ GestureAt = "run" => gesture = "none" /\ Gesture = <<>>
        /\ homeDown' = homeDown /\ gesture' = "none"
        /\ \/ gesture = "none" /\ LoopMoves(Tail(Loop), "run") /\ UNCHANGED <<phone, doubt>>
           \/ /\ Dropped
              /\ GestureAt = "await" => Unsure(Lead(Gesture))
              /\ GestureAt # "await" => UNCHANGED <<phone, doubt>>
    BY <1>0, <1>3, JoinDoes
  <2>2. CASE gesture = "none" /\ LoopMoves(Tail(Loop), "run") /\ UNCHANGED <<phone, doubt>>
    BY <2>1, <2>2, ButtonSame DEF LoopMoves
  <2>3. CASE /\ Dropped
             /\ GestureAt = "await" => Unsure(Lead(Gesture))
             /\ GestureAt # "await" => UNCHANGED <<phone, doubt>>
    BY <2>1, <2>3, ButtonDropped
  <2> QED
    BY <2>1, <2>2, <2>3
<1>4. CASE Cancel
  <2>1. /\ GestureAt = "run" => gesture = "none" /\ Gesture = <<>>
        /\ UNCHANGED <<homeDown, gesture>>
        /\ \/ Still /\ UNCHANGED <<phone, doubt>>
           \/ /\ Dropped
              /\ GestureAt = "await" => Unsure(Lead(Gesture))
              /\ GestureAt # "await" => UNCHANGED <<phone, doubt>>
           \/ Cut
    BY <1>0, <1>4, CancelDoes
  <2> QED
    BY <1>s, <1>c, <2>1, ButtonDropped
<1>5. CASE BridgeClosed
  <2>1. /\ UNCHANGED <<homeDown, gesture>>
        /\ (Still /\ UNCHANGED <<phone, doubt>>) \/ Cut
    BY <1>0, <1>5, BridgeClosedDoes
  <2> QED
    BY <1>s, <1>c, <2>1
<1>6. CASE UNCHANGED vars
  <2>1. UNCHANGED <<homeDown, gesture, phone, doubt, task>>
    BY <1>6 DEF vars, record
  <2> QED
    BY <1>0, <1>s, <2>1, StillIs
<1> QED
  BY <1>1, <1>2, <1>3, <1>4, <1>5, <1>6

(* Every step keeps what is known of the Home button.                        *)
LEMMA ButtonStep ==
  ASSUME Typed, Shape, ButtonOk, [Next]_vars
  PROVE  ButtonOk'
BY Steps, ButtonLoop, ButtonGesture, ButtonJoins

-----------------------------------------------------------------------------
(* The inductive invariant, and what follows from it.                        *)

\* At the start nothing is held and no task has anything to do.
LEMMA InitOk == Init => IInv
<1> SUFFICES ASSUME Init
             PROVE  IInv
  OBVIOUS
<1>1. /\ focused = FALSE /\ enabled = TRUE /\ hid = "none" /\ indigo = "none"
      /\ keyboard = FALSE /\ contact = FALSE /\ homeDown = FALSE /\ held = {}
      /\ reported = {} /\ gesture = "none" /\ closing = "no"
      /\ phone = [contact |-> FALSE, keys |-> {}, button |-> FALSE]
  BY DEF Init
<1>2. doubt = [x \in {"contact", "keys", "button"} |-> "none"]
  BY DEF Init
<1>3. /\ task["loop"] = [todo |-> <<>>, final |-> Close, at |-> "run"]
      /\ task["gesture"] = [todo |-> <<>>, final |-> <<>>, at |-> "run"]
      /\ DOMAIN task = Tasks
      /\ task \in [Tasks -> [todo : Seq(Operation), final : Seq(Operation),
                             at : {"run", "ready", "await"}]]
  BY CloseList, EmptyList DEF Init, Absent, Tasks
<1>4. /\ Loop = <<>> /\ LoopFinal = Close /\ LoopAt = "run"
      /\ Gesture = <<>> /\ GestureFinal = <<>> /\ GestureAt = "run"
  BY <1>3 DEF Loop, LoopFinal, LoopAt, Gesture, GestureFinal, GestureAt
<1>5. /\ Lead(Loop) = "stop" /\ Lead(Gesture) = "stop" /\ Len(Loop) = 0
      /\ \A k : Linked(k, Loop) /\ Linked(k, Gesture)
      /\ \A ops, server : Armed(Gesture, ops, server)
  BY <1>4, EmptyList
<1>6. TaskType
  BY <1>3 DEF TaskType, Tasks, Waiting
<1>7. Typed
  <2>1. ModeType /\ ServiceType
    BY <1>1 DEF ModeType, ServiceType
  <2>2. HeldType /\ PhoneType
    BY <1>1, <1>2 DEF HeldType, PhoneType
  <2> QED
    BY <1>6, <2>1, <2>2 DEF Typed
<1>8. LoopFinal # <<>> /\ ~Joining /\ ~Releasing /\ ~Settled
  BY <1>4, <1>5, CloseList DEF Joining, Releasing, Settled
<1>9. Shape
  <2>1. LoopShape
    BY <1>1, <1>4, <1>5 DEF LoopShape
  <2>2. GestureShape
    BY <1>1, <1>4, <1>5 DEF GestureShape
  <2>3. Apart
    BY <1>1, <1>4, <1>5, <1>8 DEF Apart, NoGesture
  <2> QED
    BY <2>1, <2>2, <2>3 DEF Shape
<1>10. doubt.contact = "none" /\ doubt.keys = "none" /\ ~phone.contact /\ phone.keys = {}
       /\ ~phone.button
  BY <1>1, <1>2
<1>11. TouchOk
  <2>1. \A t \in Tasks : ~Touching(t)
    BY <1>3 DEF Tasks, Touching, Waiting
  <2>2. TouchKnown /\ HidServed
    BY <1>1, <1>5, <1>10 DEF TouchKnown, HidServed
  <2> QED
    BY <1>1, <1>5, <2>1, <2>2 DEF TouchOk
<1>12. KeysOk
  BY <1>1, <1>5, <1>10 DEF KeysOk, KeysClear
<1>13. HeldOk
  <2>1. HeldReported /\ UNION held = {}
    BY <1>1 DEF HeldReported
  <2>2. "stop" \notin AfterJoin
    BY DEF AfterJoin, Starts, Gestures
  <2>3. RunOf(Loop, "keys", UNION held) /\ RunOf(Gesture, "finalKeys", {})
    BY <1>5, NoRun
  <2> QED
    BY <1>1, <1>4, <1>5, <2>1, <2>2, <2>3 DEF HeldOk
<1>14. ButtonOk
  BY <1>1, <1>4, <1>5, <1>10 DEF ButtonOk, ButtonKnown
<1> QED
  BY <1>7, <1>9, <1>11, <1>12, <1>13, <1>14 DEF IInv

(* The invariant holds of every state of the bridge.                         *)
LEMMA IInvHolds == Spec => []IInv
<1>1. ASSUME IInv, [Next]_vars
      PROVE  IInv'
  <2>1. Typed /\ Shape /\ TouchOk /\ KeysOk /\ HeldOk /\ ButtonOk
    BY <1>1 DEF IInv
  <2>2. Typed' /\ Shape' /\ TouchOk'
    BY <1>1, <2>1, TypedStep, ShapeStep, TouchStep
  <2>3. KeysOk' /\ HeldOk' /\ ButtonOk'
    BY <1>1, <2>1, KeysStep, HeldStep, ButtonStep
  <2> QED
    BY <2>2, <2>3 DEF IInv
<1> QED
  BY <1>1, InitOk, PTL DEF Spec, Spec0

(* Every variable keeps its type, and no letter is held twice.               *)
THEOREM TypeCorrect == Spec => []TypeOK
<1>1. IInv => TypeOK
  <2> SUFFICES ASSUME IInv
               PROVE  TypeOK
    OBVIOUS
  <2>1. TaskType /\ ModeType /\ ServiceType /\ HeldType /\ PhoneType
    BY DEF IInv, Typed
  <2>2. DOMAIN phone = {"contact", "keys", "button"}
    BY <2>1 DEF PhoneType
  <2>3. doubt \in [DOMAIN phone -> {"none", "hold", "release"}]
    BY <2>1, <2>2 DEF PhoneType
  <2> QED
    BY Zenon, <2>1, <2>3 DEF TypeOK, TaskType, ModeType, ServiceType, HeldType, PhoneType
<1> QED
  BY <1>1, IInvHolds, PTL

(* The two tasks never both wait for a touch report, nor for a report of the *)
(* keys: the loop reports its own only where no gesture can report such.     *)
THEOREM OneReporterHolds == Spec => []OneReporter
<1>1. IInv => OneReporter
  <2> SUFFICES ASSUME IInv
               PROVE  OneReporter
    OBVIOUS
  <2>0. Typed /\ Shape /\ TaskType /\ ModeType /\ LoopShape /\ GestureShape
    BY DEF IInv, Typed, Shape
  <2>1. ASSUME NEW kind \in {TouchReports, KeyReports},
               LoopAt = "await", Lead(Loop) \in kind,
               GestureAt = "await", Lead(Gesture) \in kind
        PROVE  FALSE
    <3>1. Loop # <<>> /\ Gesture # <<>>
      BY <2>0, <2>1, Parts
    <3>2. gesture = "scroll" /\ Lead(Loop) \in Acts \ Pointing
      <4>1. Lead(Loop) \in Pointing \cup AfterJoin \cup {"keys"}
        BY <2>0, <2>1, <3>1, LoopNames
           DEF TouchReports, KeyReports, LoopOps, Connecting, Acts, Typing, Pointing, Starts,
               Gestures, AfterJoin
      <4>2. Lead(Loop) = "keys"
        BY <2>0, <3>1, <4>1, Alone DEF NoGesture
      <4>3. "keys" \in Acts \ Pointing
        BY DEF Acts, Typing, Pointing, Starts, Gestures
      <4> QED
        BY <2>0, <3>1, <4>2, <4>3, Alone DEF NoGesture
    <3>3. kind = KeyReports
      <4>1. Lead(Loop) \notin TouchReports
        BY <2>0, <3>1, <3>2, LoopNames DEF Acts, Typing, TouchReports
      <4> QED
        BY <2>1, <4>1
    <3>4. Lead(Gesture) \in {"keys", "finalKeys"}
      BY <2>0, <2>1, <3>1, <3>3, GestureNames
         DEF KeyReports, GestureOps, ScrollOps, HomeOps, ShortcutOps, ShortcutFinals
    <3> QED
      BY <2>0, <3>1, <3>2, <3>4, GestureNames DEF ShortcutOps, ShortcutFinals
  <2>2. ASSUME NEW kind \in {TouchReports, KeyReports}
        PROVE  \E t \in Tasks : ~(Waiting(t) /\ Now(t).op \in kind)
    <3>1. Waiting("loop") <=> LoopAt = "await"
      BY <2>0, Parts
    <3>2. Waiting("gesture") <=> GestureAt = "await"
      BY <2>0, Parts
    <3>3. LoopAt = "await" => Now("loop").op = Lead(Loop)
      BY <2>0, LoopNow, Parts
    <3>4. GestureAt = "await" => Now("gesture").op = Lead(Gesture)
      BY <2>0, GestureNow, Parts
    <3> QED
      BY <2>1, <2>2, <3>1, <3>2, <3>3, <3>4 DEF Tasks
  <2> QED
    BY <2>2 DEF OneReporter
<1> QED
  BY <1>1, IInvHolds, PTL

(* Between two events, where the loop reads: it has nothing left to do, and  *)
(* neither task waits for a report of its own.                               *)
LEMMA ReadingIs ==
  ASSUME Typed, Reading
  PROVE  Loop = <<>> /\ LoopFinal # <<>> /\ Lead(Loop) = "stop" /\ LoopAt # "await"
<1>1. Loop = <<>> /\ LoopFinal # <<>>
  BY DEF Reading, Loop, LoopFinal
<1> QED
  BY <1>1, EmptyList, Parts DEF Typed

(* Between two events the bridge knows what the phone holds.                 *)
THEOREM InSyncHolds == Spec => []InSync
<1>1. IInv => InSync
  <2> SUFFICES ASSUME IInv, Reading, gesture = "none", task["gesture"] = Absent
               PROVE  /\ doubt.contact = "none" => phone.contact = contact
                      /\ doubt.keys = "none" => phone.keys = reported /\ reported = UNION held
                      /\ doubt.button = "none" => ~phone.button
    BY DEF InSync
  <2>0. Typed /\ Shape /\ TaskType /\ TouchOk /\ KeysOk /\ HeldOk /\ ButtonOk /\ PhoneType
        /\ ServiceType
    BY DEF IInv, Typed
  <2>1. /\ Loop = <<>> /\ LoopFinal # <<>> /\ Lead(Loop) = "stop" /\ LoopAt # "await"
    BY <2>0, ReadingIs
  <2>2. Gesture = <<>> /\ GestureAt = "run" /\ Lead(Gesture) = "stop"
    BY EmptyList DEF Absent, Gesture, GestureAt
  <2>3. doubt.contact = "none" => phone.contact = contact
    <3>1. ~LoopTouches /\ ~GestureTouches
      BY <2>1, <2>2 DEF LoopTouches, GestureTouches
    <3>2. TouchKnown
      BY <2>0, <3>1, TouchIs
    <3>3. phone.contact \in BOOLEAN /\ contact \in BOOLEAN
      BY <2>0 DEF PhoneType, ServiceType
    <3> QED
      BY Zenon, <3>2, <3>3 DEF TouchKnown
  <2>4. NoShortcut /\ Lead(Loop) \in Resting
    BY <2>1 DEF NoShortcut, Resting
  <2>5. doubt.keys = "none" => phone.keys = reported /\ reported = UNION held
    BY <2>0, <2>1, <2>4 DEF KeysOk, HeldOk, HeldReported
  <2>6. doubt.button = "none" => ~phone.button
    BY <2>0, <2>2 DEF ButtonOk, ButtonKnown
  <2> QED
    BY <2>3, <2>5, <2>6
<1> QED
  BY <1>1, IInvHolds, PTL

(* Out of focus the phone holds nothing, unless a release failed.            *)
THEOREM ReleasedHolds == Spec => []Released
<1>1. IInv => Released
  <2> SUFFICES ASSUME IInv, Reading, ~focused
               PROVE  /\ doubt.contact # "release" => ~phone.contact
                      /\ doubt.keys # "release" => phone.keys = {}
                      /\ doubt.button # "release" => ~phone.button
    BY DEF Released
  <2>0. Typed /\ Shape /\ TaskType /\ TouchOk /\ KeysOk /\ ButtonOk /\ PhoneType
    BY DEF IInv, Typed
  <2>1. /\ Loop = <<>> /\ LoopFinal # <<>> /\ Lead(Loop) = "stop" /\ LoopAt # "await"
    BY <2>0, ReadingIs
  <2>2. "stop" \in Lifted /\ "stop" \in Cleared
    BY DEF Lifted, Cleared
  <2>3. NoGesture
    BY <2>0, <2>1, <2>2, ClearedAlone
  <2>4. Gesture = <<>> /\ Lead(Gesture) = "stop" /\ GestureAt # "await"
    BY <2>0, <2>3, EmptyList, Parts DEF NoGesture
  <2>5. doubt.contact # "release" => ~phone.contact
    <3>1. ~LoopTouches /\ ~GestureTouches
      BY <2>1, <2>4 DEF LoopTouches, GestureTouches
    <3>2. TouchKnown /\ ~contact
      BY <2>0, <2>1, <2>2, <3>1, TouchIs
    <3>3. doubt.contact \in {"none", "hold", "release"}
      BY <2>0 DEF PhoneType
    <3> QED
      BY <3>2, <3>3 DEF TouchKnown
  <2>6. doubt.keys # "release" => phone.keys = {}
    BY <2>0, <2>1, <2>2 DEF KeysOk, KeysClear
  <2>7. doubt.button # "release" => ~phone.button
    BY <2>0, <2>3, <2>4 DEF ButtonOk, ButtonKnown, NoGesture
  <2> QED
    BY <2>5, <2>6, <2>7
<1> QED
  BY <1>1, IInvHolds, PTL

(* What the loop comes to wait for.                                          *)
LEMMA LoopWaits ==
  ASSUME Typed, Shape, [Next]_vars, LoopAt' = "await", LoopAt # "await"
  PROVE  Loop' = Loop /\ Loop # <<>> /\ (Issue("loop") \/ Lead(Loop) \in {"ensure", "join"})
<1>0. TaskType /\ ModeType /\ LoopShape /\ GestureShape
  BY DEF Typed, Shape
<1>1. CASE Reads
  BY <1>1, ReadsDoes DEF Read, LoopMoves
<1>2. CASE EndOfFile
  BY <1>2, EndOfFileDoes
<1>3. CASE Ensure("loop")
  BY <1>0, <1>3, LoopEnsures DEF LoopMoves
<1>4. CASE Issue("loop")
  BY <1>0, <1>4, LoopIssues DEF LoopMoves
<1>5. CASE Prepare("loop")
  BY <1>0, <1>5, LoopPrepares DEF LoopMoves
<1>6. CASE Succeeds("loop") \/ Fails("loop") \/ Joined
  BY <1>0, <1>6, LoopSucceeds, LoopFails, JoinedDoes
<1>7. CASE Ensure("gesture") \/ Issue("gesture")
  BY <1>0, <1>7, GestureEnsures, GestureIssues DEF GestureMoves
<1>8. CASE Prepare("gesture")
  BY <1>0, <1>8, GesturePrepares DEF GestureMoves
<1>9. CASE Succeeds("gesture") \/ Fails("gesture")
  BY <1>0, <1>9, GestureSucceeds, GestureFails DEF GestureMoves
<1>10. CASE Start \/ Finally
  BY <1>0, <1>10, StartDoes, FinallyDoes
<1>11. CASE Join
  BY <1>0, <1>11, JoinDoes DEF LoopMoves
<1>12. CASE Cancel
  BY <1>0, <1>12, CancelDoes DEF Still, Joining, Cut
<1>13. CASE BridgeClose \/ BridgeClosed
  BY <1>0, <1>13, BridgeCloseDoes, BridgeClosedDoes DEF LoopMoves, Still, Cut
<1>14. CASE UNCHANGED vars
  BY <1>0, <1>14, StillIs DEF vars, Still
<1> QED
  BY <1>1, <1>2, <1>3, <1>4, <1>5, <1>6, <1>7, <1>8, <1>9, <1>10, <1>11, <1>12, <1>13,
     <1>14, Steps

(* What a gesture comes to wait for.                                         *)
LEMMA GestureWaits ==
  ASSUME Typed, Shape, [Next]_vars, GestureAt' = "await", GestureAt # "await"
  PROVE  /\ Gesture' = Gesture /\ Gesture # <<>>
         /\ Issue("gesture") \/ Lead(Gesture) \in {"ensure", "indigo"}
<1>0. TaskType /\ ModeType /\ LoopShape /\ GestureShape
  BY DEF Typed, Shape
<1>1. CASE Reads
  BY <1>1, ReadsDoes DEF Read, LoopMoves
<1>2. CASE EndOfFile
  BY <1>2, EndOfFileDoes
<1>3. CASE Ensure("loop") \/ Issue("loop")
  BY <1>0, <1>3, LoopEnsures, LoopIssues DEF LoopMoves
<1>4. CASE Prepare("loop")
  BY <1>0, <1>4, LoopPrepares DEF LoopMoves
<1>5. CASE Succeeds("loop") \/ Fails("loop") \/ Joined
  BY <1>0, <1>5, LoopSucceeds, LoopFails, JoinedDoes DEF LoopMoves
<1>6. CASE Ensure("gesture")
  BY <1>0, <1>6, GestureEnsures DEF GestureMoves
<1>7. CASE Issue("gesture")
  BY <1>0, <1>7, GestureIssues DEF GestureMoves
<1>8. CASE Prepare("gesture")
  BY <1>0, <1>8, GesturePrepares DEF GestureMoves
<1>9. CASE Succeeds("gesture") \/ Fails("gesture")
  BY <1>0, <1>9, GestureSucceeds, GestureFails DEF GestureMoves
<1>10. CASE Start \/ Finally
  BY <1>0, <1>10, StartDoes, FinallyDoes
<1>11. CASE Join
  BY <1>0, <1>11, JoinDoes DEF LoopMoves, Dropped
<1>12. CASE Cancel
  BY <1>0, <1>12, CancelDoes DEF Still, Dropped, Cut
<1>13. CASE BridgeClose \/ BridgeClosed
  BY <1>0, <1>13, BridgeCloseDoes, BridgeClosedDoes DEF LoopMoves, Still, Cut
<1>14. CASE UNCHANGED vars
  BY <1>0, <1>14, StillIs DEF vars, Still
<1> QED
  BY <1>1, <1>2, <1>3, <1>4, <1>5, <1>6, <1>7, <1>8, <1>9, <1>10, <1>11, <1>12, <1>13,
     <1>14, Steps

(* What a task comes to wait for, it presses or moves only in focus: a       *)
(* gesture that runs has not been cancelled, since the loop that cancels it  *)
(* is then waiting for it.                                                   *)
THEOREM NoInputUnfocusedHolds == Spec => NoInputUnfocused
<1>1. ASSUME IInv, [Next]_vars, NEW t \in Tasks, task'[t].at = "await",
             Head(task'[t].todo).op \in Holding, task[t].at # "await"
      PROVE  Active
  <2>0. Typed /\ Shape /\ TaskType /\ ModeType /\ LoopShape /\ GestureShape
    BY <1>1 DEF IInv, Typed, Shape
  <2>1. CASE t = "loop"
    <3>1. LoopAt' = "await" /\ LoopAt # "await" /\ Head(Loop').op \in Holding
      BY <1>1, <2>1 DEF LoopAt, Loop
    <3>2. Loop' = Loop /\ Loop # <<>> /\ (Issue("loop") \/ Lead(Loop) \in {"ensure", "join"})
      BY <1>1, <2>0, <3>1, LoopWaits
    <3>3. Lead(Loop) \in Holding
      BY <3>1, <3>2 DEF Lead
    <3>4. Lead(Loop) \in Acts
      BY <2>0, <3>2, <3>3, LoopNames
         DEF Holding, LoopOps, Connecting, Acts, Typing, Pointing, Starts, Gestures
    <3> QED
      BY <2>0, <3>4, Alone
  <2>2. CASE t = "gesture"
    <3>1. GestureAt' = "await" /\ GestureAt # "await" /\ Head(Gesture').op \in Holding
      BY <1>1, <2>2 DEF GestureAt, Gesture
    <3>2. /\ Gesture' = Gesture /\ Gesture # <<>>
          /\ Issue("gesture") \/ Lead(Gesture) \in {"ensure", "indigo"}
      BY <1>1, <2>0, <3>1, GestureWaits
    <3>3. Lead(Gesture) \in Holding
      BY <3>1, <3>2 DEF Lead
    <3>4. gesture # "none"
      BY <2>0, <3>2, <3>3, GestureNames
         DEF Holding, GestureOps, ScrollOps, HomeOps, ShortcutOps, ShortcutFinals
    <3>5. ~Releasing
      <4>1. MayRun("gesture")
        BY <3>2, <3>3 DEF Issue, Running, Holding
      <4>2. LoopAt = "run" => Lead(Loop) = "stop"
        BY <2>0, <4>1, MayRunIs, EmptyList
      <4> QED
        BY <4>2 DEF Releasing
    <3> QED
      BY <2>0, <3>4, <3>5 DEF Shape, Apart
  <2> QED
    BY <1>1, <2>1, <2>2 DEF Tasks
<1>2. ASSUME IInv, [Next]_vars
      PROVE  \A t \in Tasks :
               task'[t].at = "await" /\ Head(task'[t].todo).op \in Holding
                 /\ task[t].at # "await" => Active
  BY <1>1, <1>2
<1> QED
  BY <1>2, IInvHolds, PTL DEF Spec, Spec0, NoInputUnfocused

=============================================================================
