------------------------- MODULE SessionInput_proofs -------------------------
(***************************************************************************)
(* Proofs about SessionInput: its type invariant, that the worker and the  *)
(* phone agree between commands, that a command which met no failure has   *)
(* had its effect, and that modifiers and letters change apart.            *)
(*                                                                         *)
(* The argument is that of a proof of a sequential program.  The lists a   *)
(* handler can be running are described by which operation may follow      *)
(* which; each operation has a precondition, which holds when the handler  *)
(* comes to it, and one that holds while it awaits the phone.  The session *)
(* can interfere at an await only, and while the tunnel is open it has     *)
(* nothing to do but to warm the input up.                                 *)
(***************************************************************************)
EXTENDS SessionInput, Integers, SequenceTheorems, TLAPS

-----------------------------------------------------------------------------
(* The lists of operations.                                                  *)

\* Where a list ends.
Stop == Op("stop")

\* What comes first in s, when y comes after s.
FirstOr(s, y) == IF s = <<>> THEN y ELSE Head(s)
First(s) == FirstOr(s, Stop)

\* In one report modifiers change or letters do, never both.
Apart(k, l) == k \cap Mods = l \cap Mods \/ k \cap Letters = l \cap Letters

\* The operations that can come after x in a list of the handler.
After(x) ==
  CASE x = "pasteboard" -> {"ensure"}
    [] x = "ensure" -> {"contact", "release", "drag", "keyboard"}
    [] x = "reconnect" -> {"enable"}
    [] x = "enable" -> {"contact"}
    [] x = "drag" -> {"drag", "lift"}
    [] x = "lift" -> {"disable", "stop"}
    [] x = "keyboard" -> {"report"}
    [] x = "report" -> {"report", "stop"}
    [] x = "keys" -> {"keys", "report", "stop"}
    [] x = "indigo" -> {"press"}
    [] x = "press" -> {"unpress"}
    [] x = "disable" -> {"relContact"}
    [] x = "relContact" -> {"relKeys"}
    [] x = "relKeys" -> {"clear"}
    [] x = "clear" -> {"closeHid", "stop"}
    [] x = "closeHid" -> {"closeIndigo"}
    [] x = "closeIndigo" -> {"noKeyboard", "stop"}
    [] x \in {"contact", "release", "unpress", "noKeyboard"} -> {"stop"}
    [] OTHER -> {}

Follows(x, y) ==
  /\ y.op \in After(x.op)
  /\ x.op = "keys" /\ y.op = "keys" => Apart(x.keys, y.keys)

\* Each operation of s may come after the one before it, and y after s.
Chain(s, y) ==
  \A i \in 1..Len(s) : Follows(s[i], IF i = Len(s) THEN y ELSE s[i + 1])
Linked(s) == Chain(s, Stop)

-----------------------------------------------------------------------------
(* The inductive invariant.                                                  *)

Todo == task["handler"].todo

\* The record a command is kept in.
CommandOk ==
  command = [name |-> command.name, keys |-> command.keys, failed |-> command.failed]

\* A task awaits one of its operations.
WaitsOk == \A t \in Tasks : Waiting(t) => task[t].todo # <<>>

\* TypeOK, and that the records are whole, by the variables that change together.
TaskType ==
  /\ task \in [Tasks -> [todo : Seq(Operation), at : {"run", "await", "stale"}]]
  /\ WaitsOk
CommandType ==
  /\ command.failed \in BOOLEAN
  /\ [name |-> command.name, keys |-> command.keys] \in Commands \cup {NoCommand}
  /\ CommandOk
SessionType ==
  /\ phase \in {"startup", "warming", "running", "cleanup", "ended"}
  /\ tunnel \in {"none", "open", "closed"}
  /\ hid \in {"none", "new", "open"} /\ indigo \in {"none", "new", "open"}
FlagType ==
  /\ inputEnabled \in BOOLEAN /\ keyboard \in BOOLEAN /\ contact \in BOOLEAN
  /\ lost \in BOOLEAN /\ fault \in BOOLEAN
PhoneType == phone \in [contact : BOOLEAN, keys : SUBSET Usages, button : BOOLEAN]
ReportType == reported \in SUBSET Usages

Typed ==
  TaskType /\ CommandType /\ SessionType /\ FlagType /\ PhoneType /\ ReportType

\* Before the tunnel is closed the session only warms the input up.
ShapeOk ==
  tunnel # "closed" =>
    /\ task["session"].todo \in {<<>>, <<Op("warm")>>}
    /\ Linked(Todo)

\* The phone and the worker agree on the contact; on the keys.
TouchAgrees == (phone.contact <=> contact) /\ (contact => hid # "none")
KeysReleasable == phone.keys = {} \/ (keyboard /\ hid # "none")
KeysAgree == phone.keys = reported /\ KeysReleasable

TouchKnown == phone.contact => contact
NoTouch == ~contact /\ ~phone.contact
NothingHeld == NoTouch /\ phone.keys = {} /\ reported = {}

\* The operations of a list that has met no failure, and the end of a list.
Settled == {"pasteboard", "ensure", "reconnect", "enable", "contact", "drag",
            "release", "keyboard", "report", "keys", "indigo", "press", "unpress",
            "closeIndigo", "stop"}

NeedsHid == {"enable", "contact", "drag", "release", "lift", "keyboard", "report",
             "keys"}

\* What holds when the handler has the list s left.
TouchBefore(s) ==
  LET op == First(s).op
  IN /\ op \in Settled => TouchAgrees
     /\ op \in NeedsHid => hid # "none"
     /\ op = "lift" => TouchKnown
     /\ op \in {"disable", "relContact"} => TouchKnown /\ (contact => hid # "none")
     /\ op \in {"relKeys", "clear", "closeHid", "noKeyboard"} => NoTouch
     /\ op = "closeIndigo" /\ Tail(s) # <<>> => NoTouch

KeysBefore(s) ==
  LET op == First(s).op
  IN /\ op \in Settled \cup {"lift"} => KeysAgree
     /\ op \in {"report", "keys"} => keyboard
     /\ op \in {"disable", "relContact", "relKeys"} => KeysReleasable
     /\ op \in {"clear", "closeHid", "noKeyboard"} => phone.keys = {}
     /\ op \in {"closeHid", "noKeyboard"} => reported = {}
     /\ op = "closeIndigo" /\ Tail(s) # <<>> => phone.keys = {} /\ reported = {}

\* What holds while the handler awaits the phone; an assignment awaits nothing.
TouchDuring(s) ==
  LET op == First(s).op
  IN IF op \in {"contact", "drag"} THEN contact /\ hid # "none"
     ELSE IF op \in {"release", "lift", "relContact"} THEN ~contact
     ELSE /\ op \notin Local /\ TouchBefore(s)
          /\ op \in {"ensure", "reconnect"} => hid # "none"

Live == tunnel # "closed" /\ ~lost

TouchOk == Live => IF Waiting("handler") THEN TouchDuring(Todo) ELSE TouchBefore(Todo)
KeysOk == Live => KeysBefore(Todo)

\* The report to send next keeps modifiers and letters apart.
ApartOk ==
  tunnel # "closed" /\ First(Todo).op = "keys" => Apart(reported, First(Todo).keys)

\* The last operation of a command that has met no failure.
Last(c) ==
  CASE c.name \in {"down", "move"} -> {Op("contact")}
    [] c.name = "up" -> {Op("release")}
    [] c.name = "gesture" -> {Op("lift")}
    [] c.name = "key_state" -> {Keys("report", Valid(c.keys)), Keys("keys", Valid(c.keys))}
    [] c.name \in {"spotlight", "paste"} -> {Keys("report", {}), Keys("keys", {})}
    [] c.name = "home" -> {Op("unpress")}
    [] c.name = "release_input" -> {Op("clear")}
    [] OTHER -> {}

DoneOk ==
  Live /\ ~command.failed =>
    IF Todo = <<>> THEN Done(command) ELSE Todo[Len(Todo)] \in Last(command)

\* What the phone holds; the inductive invariant.
SyncOk == Typed /\ ShapeOk /\ TouchOk /\ KeysOk
IInv == SyncOk /\ ApartOk /\ DoneOk

-----------------------------------------------------------------------------
(* Facts about lists.                                                        *)

(* What SessionInput runs of a list: the head of a non-empty list, and what  *)
(* is left after it.                                                         *)
LEMMA TailFacts ==
  ASSUME NEW s \in Seq(Operation), s # <<>>
  PROVE  /\ Head(s) \in Operation /\ Tail(s) \in Seq(Operation)
         /\ Len(s) \in Nat \ {0} /\ Len(Tail(s)) = Len(s) - 1
         /\ Head(s) = s[1]
         /\ \A i \in 1..(Len(s) - 1) : Tail(s)[i] = s[i + 1]
  OBVIOUS

(* The head of a linked list is followed by the head of its rest, the rest   *)
(* is linked and ends as the list does.                                      *)
LEMMA LinkedTail ==
  ASSUME NEW s \in Seq(Operation), s # <<>>
  PROVE  /\ Tail(s) = <<>> => s[Len(s)] = Head(s)
         /\ Tail(s) # <<>> => Tail(s)[Len(Tail(s))] = s[Len(s)]
         /\ Linked(s) => Linked(Tail(s)) /\ Follows(Head(s), First(Tail(s)))
<1> DEFINE u == Tail(s)
<1>1. /\ u \in Seq(Operation) /\ Len(s) \in Nat \ {0} /\ Len(u) = Len(s) - 1
      /\ Head(s) = s[1] /\ \A i \in 1..(Len(s) - 1) : u[i] = s[i + 1]
  BY TailFacts
<1>2. u = <<>> <=> Len(u) = 0
  BY <1>1, EmptySeq
<1>3. u # <<>> => Head(u) = u[1] /\ u[1] = s[2]
  BY <1>1, <1>2
<1> HIDE DEF u
<1>4. /\ u = <<>> => s[Len(s)] = Head(s)
      /\ u # <<>> => u[Len(u)] = s[Len(s)]
  BY <1>1, <1>2
<1>5. ASSUME Linked(s) PROVE Linked(u) /\ Follows(Head(s), First(u))
  <2>1. Linked(u)
    BY <1>1, <1>2, <1>5 DEF Linked, Chain
  <2>2. Follows(s[1], IF 1 = Len(s) THEN Stop ELSE s[1 + 1])
    BY <1>1, <1>5 DEF Linked, Chain
  <2>3. First(u) = IF 1 = Len(s) THEN Stop ELSE s[1 + 1]
    BY <1>1, <1>2, <1>3 DEF First, FirstOr
  <2> QED
    BY <1>1, <2>1, <2>2, <2>3
<1> QED
  BY <1>4, <1>5 DEF u

(* Two chains make one if the head of the second may follow the first.       *)
LEMMA ChainConcat ==
  ASSUME NEW s \in Seq(Operation), NEW u \in Seq(Operation), NEW y, s # <<>>,
         Chain(s, FirstOr(u, y)), Chain(u, y)
  PROVE  /\ Chain(s \o u, y) /\ s \o u \in Seq(Operation) /\ s \o u # <<>>
         /\ Head(s \o u) = Head(s)
         /\ (s \o u)[Len(s \o u)] = IF u = <<>> THEN s[Len(s)] ELSE u[Len(u)]
<1> DEFINE v == s \o u
<1>1. /\ v \in Seq(Operation) /\ Len(v) = Len(s) + Len(u)
      /\ \A i \in 1..Len(s) : v[i] = s[i]
      /\ \A i \in 1..Len(u) : v[Len(s) + i] = u[i]
      /\ Len(s) \in Nat \ {0} /\ Len(u) \in Nat
  OBVIOUS
<1>2. Head(s) = s[1] /\ (u # <<>> => Head(u) = u[1] /\ Len(u) # 0)
  OBVIOUS
<1>3. v # <<>> /\ Head(v) = v[1]
  BY <1>1
<1>4. u = <<>> <=> Len(u) = 0
  BY EmptySeq
<1> HIDE DEF v
<1>5. v[Len(v)] = IF u = <<>> THEN s[Len(s)] ELSE u[Len(u)]
  BY <1>1, <1>4
<1>6. ASSUME NEW i \in 1..Len(v)
      PROVE  Follows(v[i], IF i = Len(v) THEN y ELSE v[i + 1])
  <2>1. CASE i < Len(s)
    BY <1>1, <2>1 DEF Chain
  <2>2. CASE i = Len(s)
    <3>1. FirstOr(u, y) = IF i = Len(v) THEN y ELSE v[i + 1]
      BY <1>1, <1>2, <1>4, <2>2 DEF FirstOr
    <3> QED
      BY <1>1, <2>2, <3>1 DEF Chain
  <2>3. CASE i > Len(s)
    <3>0. \A k \in 1..Len(u) : v[Len(s) + k] = u[k]
      BY <1>1
    <3>1. PICK j : j \in 1..Len(u) /\ i = Len(s) + j
      <4>1. i - Len(s) \in 1..Len(u) /\ i = Len(s) + (i - Len(s))
        BY <1>1, <2>3
      <4> QED
        BY <4>1
    <3>2. /\ v[i] = u[j] /\ (i = Len(v) <=> j = Len(u))
          /\ j # Len(u) => j + 1 \in 1..Len(u) /\ i + 1 = Len(s) + (j + 1)
      <4>1. v[Len(s) + j] = u[j]
        BY <3>0, <3>1
      <4>2. Len(s) \in Nat /\ Len(u) \in Nat /\ Len(v) = Len(s) + Len(u)
        BY <1>1
      <4>3. /\ i = Len(v) <=> j = Len(u)
            /\ j # Len(u) => j + 1 \in 1..Len(u)
            /\ i + 1 = Len(s) + (j + 1)
        BY <3>1, <4>2
      <4> QED
        BY <3>1, <4>1, <4>3
    <3>4. j # Len(u) => v[i + 1] = u[j + 1]
      BY <1>1, <3>2
    <3>3. Follows(u[j], IF j = Len(u) THEN y ELSE u[j + 1])
      BY <3>1 DEF Chain
    <3> QED
      BY <3>2, <3>3, <3>4
  <2> QED
    BY <1>1, <2>1, <2>2, <2>3
<1>7. Chain(v, y)
  BY <1>6 DEF Chain
<1>8. Head(v) = Head(s)
  BY <1>1, <1>2, <1>3
<1> QED
  BY <1>1, <1>3, <1>5, <1>7, <1>8 DEF v

(* A list of one operation.                                                  *)
LEMMA ChainOne ==
  ASSUME NEW x \in Operation, NEW y, Follows(x, y)
  PROVE  /\ <<x>> \in Seq(Operation) /\ <<x>> # <<>> /\ Chain(<<x>>, y)
         /\ Head(<<x>>) = x /\ <<x>>[Len(<<x>>)] = x /\ Tail(<<x>>) = <<>>
<1> DEFINE s == <<x>>
<1>1. /\ s \in Seq(Operation) /\ s # <<>> /\ Len(s) = 1 /\ s[1] = x
      /\ Head(s) = x /\ Tail(s) = <<>>
  OBVIOUS
<1> HIDE DEF s
<1>2. Chain(s, y)
  BY <1>1 DEF Chain
<1> QED
  BY <1>1, <1>2 DEF s

(* An operation is one whatever the keys of its report.                      *)
LEMMA OperationType ==
  ASSUME NEW name \in Fragile \cup Suppressed \cup Local, NEW keys \in SUBSET Usages
  PROVE  /\ Op(name) \in Operation /\ Op(name).op = name /\ Op(name).keys = {}
         /\ Keys(name, keys) \in Operation /\ Keys(name, keys).op = name
         /\ Keys(name, keys).keys = keys
  BY DEF Op, Keys, Operation

(* release_input() is a list that ends with the assignment of reported_keys; *)
(* what is left of a recovery may come after it.                             *)
LEMMA ReleaseList ==
  /\ Release \in Seq(Operation) /\ Release # <<>>
  /\ Head(Release) = Op("relContact") /\ Release[Len(Release)] = Op("clear")
  /\ \A y : y.op \in {"closeHid", "stop"} => Chain(Release, y)
<1>1. /\ Op("relContact") \in Operation /\ Op("relKeys") \in Operation
      /\ Op("clear") \in Operation
  BY DEF Op, Operation, Suppressed, Local
<1>2. /\ Release \in Seq(Operation) /\ Release # <<>> /\ Len(Release) = 3
      /\ Release[1] = Op("relContact") /\ Release[2] = Op("relKeys")
      /\ Release[3] = Op("clear") /\ Head(Release) = Op("relContact")
  BY <1>1 DEF Release
<1>3. ASSUME NEW y, y.op \in {"closeHid", "stop"} PROVE Chain(Release, y)
  BY <1>2, <1>3 DEF Chain, Follows, After, Op
<1> QED
  BY <1>2, <1>3

(* _close_input_services() closes the touch service, the Home service and    *)
(* forgets the keyboard.                                                     *)
LEMMA CloseServicesList ==
  /\ CloseServices \in Seq(Operation) /\ CloseServices # <<>>
  /\ Chain(CloseServices, Stop) /\ Head(CloseServices) = Op("closeHid")
<1>1. /\ Op("closeHid") \in Operation /\ Op("closeIndigo") \in Operation
      /\ Op("noKeyboard") \in Operation
  BY DEF Op, Operation, Suppressed, Local
<1>2. /\ CloseServices \in Seq(Operation) /\ CloseServices # <<>>
      /\ Len(CloseServices) = 3 /\ CloseServices[1] = Op("closeHid")
      /\ CloseServices[2] = Op("closeIndigo") /\ CloseServices[3] = Op("noKeyboard")
      /\ Head(CloseServices) = Op("closeHid")
  BY <1>1 DEF CloseServices
<1>3. Chain(CloseServices, Stop)
  BY <1>2 DEF Chain, Follows, After, Op, Stop
<1> QED
  BY <1>2, <1>3

(* cleanup() releases the input, then closes its services.                   *)
LEMMA CleanupList == CleanupInput \in Seq(Operation) /\ CleanupInput # <<>>
<1>1. Chain(Release, FirstOr(CloseServices, Stop))
  BY ReleaseList, CloseServicesList DEF FirstOr, Op
<1> QED
  BY <1>1, ReleaseList, CloseServicesList, ChainConcat DEF CleanupInput

(* _mark_input_failed() disables the input, releases it and closes it.       *)
LEMMA InputFailedList ==
  /\ InputFailed \in Seq(Operation) /\ InputFailed # <<>>
  /\ Chain(InputFailed, Stop) /\ Head(InputFailed) = Op("disable")
<1> DEFINE s == <<Op("disable")>>
           u == s \o Release
<1>1. InputFailed = u \o CloseServices
  BY DEF InputFailed
<1>2. /\ s \in Seq(Operation) /\ s # <<>> /\ Head(s) = Op("disable")
      /\ Chain(s, Op("relContact"))
  <2>1. Op("disable") \in Operation
    BY DEF Op, Operation, Local
  <2>2. Follows(Op("disable"), Op("relContact"))
    BY DEF Follows, After, Op
  <2> QED
    BY <2>1, <2>2, ChainOne
<1> HIDE DEF s
<1>3. FirstOr(Release, Op("closeHid")) = Op("relContact")
  BY ReleaseList DEF FirstOr
<1>4. Chain(Release, Op("closeHid"))
  BY ReleaseList DEF Op
<1>5. /\ u \in Seq(Operation) /\ u # <<>> /\ Chain(u, Op("closeHid"))
      /\ Head(u) = Op("disable")
  BY <1>2, <1>3, <1>4, ReleaseList, ChainConcat
<1> HIDE DEF u
<1>6. FirstOr(CloseServices, Stop) = Op("closeHid")
  BY CloseServicesList DEF FirstOr
<1> QED
  BY <1>1, <1>5, <1>6, CloseServicesList, ChainConcat

(* What a handler does about a failure.                                      *)
LEMMA RecoveryList ==
  ASSUME NEW op
  PROVE  /\ Recovery(op) \in Seq(Operation) /\ Recovery(op) # <<>>
         /\ Linked(Recovery(op))
         /\ First(Recovery(op)).op = IF op = "drag" THEN "lift"
              ELSE IF op \in {"indigo", "press", "unpress"} THEN "closeIndigo"
              ELSE "disable"
         /\ op \in {"indigo", "press", "unpress"} => Tail(Recovery(op)) = <<>>
<1>1. CASE op = "drag"
  <2> DEFINE s == <<Op("lift")>>
  <2>1. Follows(Op("lift"), Op("disable")) /\ Op("lift") \in Operation
    BY DEF Follows, After, Op, Operation, Suppressed
  <2>2. /\ s \in Seq(Operation) /\ s # <<>> /\ Chain(s, Op("disable"))
        /\ Head(s) = Op("lift")
    BY <2>1, ChainOne
  <2> HIDE DEF s
  <2>3. FirstOr(InputFailed, Stop) = Op("disable")
    BY InputFailedList DEF FirstOr
  <2>4. /\ s \o InputFailed \in Seq(Operation) /\ s \o InputFailed # <<>>
        /\ Chain(s \o InputFailed, Stop) /\ Head(s \o InputFailed) = Op("lift")
    BY <2>2, <2>3, InputFailedList, ChainConcat
  <2>5. First(s \o InputFailed).op = "lift"
    BY <2>4 DEF First, FirstOr, Op
  <2>6. Recovery(op) = s \o InputFailed
    BY <1>1 DEF Recovery, s
  <2> QED
    BY <1>1, <2>4, <2>5, <2>6 DEF Linked
<1>2. CASE op \in {"indigo", "press", "unpress"}
  <2>1. Follows(Op("closeIndigo"), Stop) /\ Op("closeIndigo") \in Operation
    BY DEF Follows, After, Op, Operation, Suppressed, Stop
  <2>2. Recovery(op) = <<Op("closeIndigo")>>
    BY <1>2 DEF Recovery
  <2>3. /\ Recovery(op) \in Seq(Operation) /\ Recovery(op) # <<>>
        /\ Chain(Recovery(op), Stop) /\ Head(Recovery(op)) = Op("closeIndigo")
        /\ Tail(Recovery(op)) = <<>>
    BY <2>1, <2>2, ChainOne
  <2>4. First(Recovery(op)).op = "closeIndigo"
    BY <2>3 DEF First, FirstOr, Op
  <2> QED
    BY <1>2, <2>3, <2>4 DEF Linked
<1>3. CASE op \notin {"drag", "indigo", "press", "unpress"}
  <2>1. Recovery(op) = InputFailed
    BY <1>3 DEF Recovery
  <2> QED
    BY <1>3, <2>1, InputFailedList DEF Op, Linked, First, FirstOr
<1> QED
  BY <1>1, <1>2, <1>3

(* _report_keys: each report it sends keeps modifiers and letters apart from *)
(* the one before it, the first from what is reported now.                   *)
LEMMA KeyStatesList ==
  ASSUME NEW desired \in SUBSET Usages, reported \in SUBSET Usages
  PROVE  /\ KeyStates(desired) \in Seq(Operation) /\ KeyStates(desired) # <<>>
         /\ \A y : y.op \in {"report", "stop"} => Chain(KeyStates(desired), y)
         /\ First(KeyStates(desired)).op = "keys"
         /\ Apart(reported, First(KeyStates(desired)).keys)
         /\ KeyStates(desired)[Len(KeyStates(desired))] = Keys("keys", desired)
<1> DEFINE kept == (reported \cap desired) \ Mods
           k1 == kept \cup (reported \cap Mods)
           k2 == kept \cup (desired \cap Mods)
           s == <<Keys("keys", k1), Keys("keys", k2), Keys("keys", desired)>>
<1>1. k1 \in SUBSET Usages /\ k2 \in SUBSET Usages
  OBVIOUS
<1>2. Apart(reported, k1)
  BY DEF Apart
<1>3. Apart(k1, k2) /\ Apart(k2, desired)
  BY KeysAssumption DEF Apart, Usages
<1>4. KeyStates(desired) = s
  BY DEF KeyStates
<1> HIDE DEF k1, k2
<1>5. /\ s \in Seq(Operation) /\ s # <<>> /\ Len(s) = 3
      /\ s[1] = Keys("keys", k1) /\ s[2] = Keys("keys", k2)
      /\ s[3] = Keys("keys", desired) /\ First(s) = Keys("keys", k1)
  BY <1>1 DEF Keys, Operation, Fragile, First, FirstOr
<1> HIDE DEF s
<1>6. /\ Follows(Keys("keys", k1), Keys("keys", k2))
      /\ Follows(Keys("keys", k2), Keys("keys", desired))
  BY <1>3 DEF Follows, After, Keys
<1>7. ASSUME NEW y, y.op \in {"report", "stop"} PROVE Chain(s, y)
  <2>1. Follows(Keys("keys", desired), y)
    BY <1>7 DEF Follows, After, Keys
  <2> QED
    BY <1>5, <1>6, <2>1 DEF Chain
<1> QED
  BY <1>2, <1>4, <1>5, <1>7 DEF Keys

(* The services a key report needs are there before the first one.           *)
LEMMA WithKeyboardList ==
  /\ WithKeyboard \in Seq(Operation) /\ WithKeyboard # <<>>
  /\ Head(WithKeyboard) = Op("ensure")
  /\ \A y : y.op = "report" => Chain(WithKeyboard, y)
<1>1. /\ WithKeyboard \in Seq(Operation) /\ WithKeyboard # <<>>
      /\ Len(WithKeyboard) = 2 /\ Head(WithKeyboard) = Op("ensure")
      /\ WithKeyboard[1] = Op("ensure") /\ WithKeyboard[2] = Op("keyboard")
  BY DEF WithKeyboard, Op, Operation, Fragile
<1>2. ASSUME NEW y, y.op = "report" PROVE Chain(WithKeyboard, y)
  BY <1>1, <1>2 DEF Chain, Follows, After, Op
<1> QED
  BY <1>1, <1>2

(* A command's program is a list that ends with the operation that gives the *)
(* command its effect, and that starts before anything is known of services. *)
LEMMA ProgramList ==
  ASSUME NEW c \in Commands
  PROVE  /\ Program(c) \in Seq(Operation) /\ Program(c) # <<>>
         /\ Linked(Program(c)) /\ Program(c)[Len(Program(c))] \in Last(c)
         /\ First(Program(c)).op
              \in {"ensure", "reconnect", "indigo", "pasteboard", "relContact"}
<1> DEFINE p == Program(c)
<1>0. c.name \in {"down", "move", "up", "gesture", "spotlight", "paste", "home",
                  "release_input", "key_state"}
  BY DEF Commands
<1> USE DEF Linked, First, FirstOr, Op, Keys, Stop
<1>1. CASE c.name = "down" /\ inputEnabled
  <2>1. p = <<Op("ensure"), Op("contact")>>
    BY <1>1 DEF Program
  <2>2. /\ p \in Seq(Operation) /\ p # <<>> /\ Len(p) = 2 /\ Head(p) = Op("ensure")
        /\ p[1] = Op("ensure") /\ p[2] = Op("contact")
    BY <2>1 DEF Operation, Fragile
  <2> QED
    BY <1>1, <2>2 DEF Chain, Follows, After, Last
<1>2. CASE c.name = "down" /\ ~inputEnabled
  <2>1. p = <<Op("reconnect"), Op("enable"), Op("contact")>>
    BY <1>2 DEF Program, FreshClick
  <2>2. /\ p \in Seq(Operation) /\ p # <<>> /\ Len(p) = 3
        /\ Head(p) = Op("reconnect") /\ p[1] = Op("reconnect")
        /\ p[2] = Op("enable") /\ p[3] = Op("contact")
    BY <2>1 DEF Operation, Fragile, Local
  <2> QED
    BY <1>2, <2>2 DEF Chain, Follows, After, Last
<1>3. CASE c.name = "move"
  <2>1. p = <<Op("ensure"), Op("contact")>>
    BY <1>3 DEF Program
  <2>2. /\ p \in Seq(Operation) /\ p # <<>> /\ Len(p) = 2 /\ Head(p) = Op("ensure")
        /\ p[1] = Op("ensure") /\ p[2] = Op("contact")
    BY <2>1 DEF Operation, Fragile
  <2> QED
    BY <1>3, <2>2 DEF Chain, Follows, After, Last
<1>4. CASE c.name = "up"
  <2>1. p = <<Op("ensure"), Op("release")>>
    BY <1>4 DEF Program
  <2>2. /\ p \in Seq(Operation) /\ p # <<>> /\ Len(p) = 2 /\ Head(p) = Op("ensure")
        /\ p[1] = Op("ensure") /\ p[2] = Op("release")
    BY <2>1 DEF Operation, Fragile
  <2> QED
    BY <1>4, <2>2 DEF Chain, Follows, After, Last
<1>5. CASE c.name = "gesture"
  <2>1. p = <<Op("ensure"), Op("drag"), Op("drag"), Op("lift")>>
    BY <1>5 DEF Program, Gesture
  <2>2. /\ p \in Seq(Operation) /\ p # <<>> /\ Len(p) = 4 /\ Head(p) = Op("ensure")
        /\ p[1] = Op("ensure") /\ p[2] = Op("drag") /\ p[3] = Op("drag")
        /\ p[4] = Op("lift")
    BY <2>1 DEF Operation, Fragile, Suppressed
  <2> QED
    BY <1>5, <2>2 DEF Chain, Follows, After, Last
<1>6. CASE c.name = "home"
  <2>1. p = <<Op("indigo"), Op("press"), Op("unpress")>>
    BY <1>6 DEF Program
  <2>2. /\ p \in Seq(Operation) /\ p # <<>> /\ Len(p) = 3 /\ Head(p) = Op("indigo")
        /\ p[1] = Op("indigo") /\ p[2] = Op("press") /\ p[3] = Op("unpress")
    BY <2>1 DEF Operation, Fragile
  <2> QED
    BY <1>6, <2>2 DEF Chain, Follows, After, Last
<1>7. CASE c.name = "release_input"
  <2>1. p = Release /\ Last(c) = {Op("clear")}
    BY <1>7 DEF Program, Last
  <2> QED
    BY <2>1, ReleaseList
<1>8. CASE c.name = "key_state"
  <2> DEFINE k == Keys("report", Valid(c.keys))
  <2>1. p = <<Op("ensure"), Op("keyboard")>> \o <<k>> /\ k \in Last(c)
    BY <1>8 DEF Program, WithKeyboard, Last
  <2>2. k \in Operation
    BY DEF Operation, Local, Valid
  <2>3. k.op = "report"
    OBVIOUS
  <2> HIDE DEF k
  <2>4. /\ p \in Seq(Operation) /\ p # <<>> /\ Len(p) = 3 /\ Head(p) = Op("ensure")
        /\ p[1] = Op("ensure") /\ p[2] = Op("keyboard") /\ p[3] = k
    BY <2>1, <2>2 DEF Operation, Fragile
  <2> QED
    BY <2>1, <2>3, <2>4 DEF Chain, Follows, After
<1>9. CASE c.name = "spotlight"
  <2> DEFINE k1 == Keys("report", {Cmd})
             k2 == Keys("report", {Cmd, HotKey})
             k3 == Keys("report", {})
             u == <<k1, k2, k3>>
  <2>1. p = WithKeyboard \o u /\ k3 \in Last(c)
    BY <1>9 DEF Program, Last
  <2>2. k1 \in Operation /\ k2 \in Operation /\ k3 \in Operation
    BY KeysAssumption DEF Operation, Local, Usages
  <2>3. k1.op = "report" /\ k2.op = "report" /\ k3.op = "report"
    OBVIOUS
  <2> HIDE DEF k1, k2, k3, p
  <2>4. /\ u \in Seq(Operation) /\ u # <<>> /\ Len(u) = 3 /\ Head(u) = k1
        /\ u[1] = k1 /\ u[2] = k2 /\ u[3] = k3
    BY <2>2
  <2> HIDE DEF u
  <2>5. Chain(u, Stop)
    BY <2>3, <2>4 DEF Chain, Follows, After
  <2>6. Chain(WithKeyboard, FirstOr(u, Stop))
    BY <2>3, <2>4, WithKeyboardList
  <2>7. /\ p \in Seq(Operation) /\ p # <<>> /\ Chain(p, Stop)
        /\ Head(p) = Op("ensure") /\ p[Len(p)] = k3
    BY <2>1, <2>4, <2>5, <2>6, WithKeyboardList, ChainConcat
  <2> QED
    BY <2>1, <2>7 DEF p
<1>10. CASE c.name = "paste"
  <2> DEFINE k1 == Keys("report", {Cmd})
             k2 == Keys("report", {Cmd, HotKey})
             k3 == Keys("report", {})
             u == <<k1, k2, k1, k3>>
             w == <<Op("pasteboard")>> \o WithKeyboard
  <2>1. p = w \o u /\ k3 \in Last(c)
    BY <1>10 DEF Program, Last
  <2>2. k1 \in Operation /\ k2 \in Operation /\ k3 \in Operation
    BY KeysAssumption DEF Operation, Local, Usages
  <2>3. k1.op = "report" /\ k2.op = "report" /\ k3.op = "report"
    OBVIOUS
  <2> HIDE DEF k1, k2, k3, p
  <2>4. /\ u \in Seq(Operation) /\ u # <<>> /\ Len(u) = 4 /\ Head(u) = k1
        /\ u[1] = k1 /\ u[2] = k2 /\ u[3] = k1 /\ u[4] = k3
    BY <2>2
  <2> HIDE DEF u
  <2>5. Chain(u, Stop)
    BY <2>3, <2>4 DEF Chain, Follows, After
  <2>6. /\ <<Op("pasteboard")>> \in Seq(Operation) /\ <<Op("pasteboard")>> # <<>>
        /\ Chain(<<Op("pasteboard")>>, Op("ensure"))
        /\ Head(<<Op("pasteboard")>>) = Op("pasteboard")
    <3>1. Op("pasteboard") \in Operation /\ Follows(Op("pasteboard"), Op("ensure"))
      BY DEF Operation, Fragile, Follows, After
    <3> QED
      BY <3>1, ChainOne
  <2>7. /\ w \in Seq(Operation) /\ w # <<>> /\ Chain(w, FirstOr(u, Stop))
        /\ Head(w) = Op("pasteboard")
    <3>1. Chain(WithKeyboard, k1) /\ FirstOr(WithKeyboard, k1) = Op("ensure")
      BY <2>3, WithKeyboardList DEF FirstOr
    <3>2. FirstOr(u, Stop) = k1
      BY <2>4 DEF FirstOr
    <3> QED
      BY <2>6, <3>1, <3>2, WithKeyboardList, ChainConcat
  <2> HIDE DEF w
  <2>8. /\ p \in Seq(Operation) /\ p # <<>> /\ Chain(p, Stop)
        /\ Head(p) = Op("pasteboard") /\ p[Len(p)] = k3
    BY <2>1, <2>4, <2>5, <2>7, ChainConcat
  <2> QED
    BY <2>1, <2>8 DEF p
<1> QED
  BY <1>0, <1>1, <1>2, <1>3, <1>4, <1>5, <1>6, <1>7, <1>8, <1>9, <1>10

-----------------------------------------------------------------------------
(* Types.                                                                    *)

(* The type invariant of the module, from its parts.                         *)
LEMMA TypeParts == Typed => TypeOK
  BY Zenon DEF Typed, TypeOK, TaskType, CommandType, SessionType, FlagType, PhoneType,
               ReportType

(* A task that can run, or waits, has a first operation.                     *)
LEMMA NowType ==
  ASSUME TaskType, NEW t \in Tasks, Busy(t) \/ Waiting(t)
  PROVE  /\ task[t].todo \in Seq(Operation) /\ task[t].todo # <<>>
         /\ Now(t) \in Operation /\ Rest(t) \in Seq(Operation)
<1>1. task[t].todo \in Seq(Operation) /\ task[t].todo # <<>>
  BY DEF TaskType, WaitsOk, Busy, Waiting
<1> QED
  BY <1>1, TailFacts DEF Now, Rest

(* A task goes on with another list.                                         *)
LEMMA ContinueType ==
  ASSUME TaskType, NEW t \in Tasks, NEW s \in Seq(Operation), Continue(t, s)
  PROVE  /\ TaskType' /\ task'[t] = [todo |-> s, at |-> "run"]
         /\ \A u \in Tasks \ {t} : task'[u] = task[u]
  BY DEF TaskType, Continue, WaitsOk, Waiting

(* A task awaits its first operation.                                        *)
LEMMA AwaitType ==
  ASSUME TaskType, NEW t \in Tasks, Busy(t), Await(t)
  PROVE  /\ TaskType' /\ task'[t] = [todo |-> task[t].todo, at |-> "await"]
         /\ \A u \in Tasks \ {t} : task'[u] = task[u]
  BY DEF TaskType, Await, WaitsOk, Waiting, Busy

(* An operation that fails is left, or the list is replaced by a recovery.   *)
LEMMA FailType ==
  ASSUME TaskType, CommandType, NEW t \in Tasks, Busy(t) \/ Waiting(t), Fail(t)
  PROVE  /\ TaskType' /\ CommandType'
         /\ \A u \in Tasks \ {t} : task'[u] = task[u]
         /\ Now(t).op \in Suppressed
              => /\ task'[t] = [todo |-> Rest(t), at |-> "run"]
                 /\ UNCHANGED command
         /\ Now(t).op \notin Suppressed
              => /\ task'[t] = [todo |-> Recovery(Now(t).op), at |-> "run"]
                 /\ command' = [command EXCEPT !.failed = TRUE] /\ command'.failed
<1>1. CASE Now(t).op \in Suppressed
  <2>1. Continue(t, Rest(t)) /\ UNCHANGED command
    BY <1>1 DEF Fail
  <2>2. TaskType' /\ task'[t] = [todo |-> Rest(t), at |-> "run"]
        /\ \A u \in Tasks \ {t} : task'[u] = task[u]
    BY <2>1, NowType, ContinueType
  <2>3. CommandType'
    BY <2>1 DEF CommandType, CommandOk
  <2> QED
    BY <1>1, <2>1, <2>2, <2>3
<1>2. CASE Now(t).op \notin Suppressed
  <2>1. /\ Continue(t, Recovery(Now(t).op))
        /\ command' = [command EXCEPT !.failed = TRUE]
    BY <1>2 DEF Fail
  <2>2. TaskType' /\ task'[t] = [todo |-> Recovery(Now(t).op), at |-> "run"]
        /\ \A u \in Tasks \ {t} : task'[u] = task[u]
    BY <2>1, RecoveryList, ContinueType
  <2>3. CommandType' /\ command'.failed
    <3>1. command' = [name |-> command.name, keys |-> command.keys, failed |-> TRUE]
      BY <2>1 DEF CommandType, CommandOk
    <3> QED
      BY <3>1 DEF CommandType, CommandOk
  <2> QED
    BY <1>2, <2>1, <2>2, <2>3
<1> QED
  BY <1>1, <1>2

(* An operation is skipped, fails at once, or is awaited.                    *)
LEMMA IssueType ==
  ASSUME TaskType, CommandType, NEW t \in Tasks, Busy(t), NEW needed, NEW service,
         Issue(t, needed, service)
  PROVE  TaskType' /\ CommandType' /\ \A u \in Tasks \ {t} : task'[u] = task[u]
<1>1. CASE ~needed
  BY <1>1, NowType, ContinueType DEF Issue, CommandType, CommandOk
<1>2. CASE needed /\ service = "none"
  BY <1>2, FailType DEF Issue
<1>3. CASE needed /\ service # "none"
  BY <1>3, AwaitType DEF Issue, CommandType, CommandOk
<1> QED
  BY <1>1, <1>2, <1>3

(* A connection is awaited, or fails at once.                                *)
LEMMA ConnectType ==
  ASSUME TaskType, CommandType, NEW t \in Tasks, Busy(t), Connect(t)
  PROVE  TaskType' /\ CommandType' /\ \A u \in Tasks \ {t} : task'[u] = task[u]
<1>1. CASE tunnel = "none"
  BY <1>1, FailType DEF Connect
<1>2. CASE tunnel # "none"
  BY <1>2, AwaitType DEF Connect, CommandType, CommandOk
<1> QED
  BY <1>1, <1>2

(* What the phone holds once it has received a report is of its type.        *)
LEMMA ReceivedType ==
  ASSUME PhoneType, NEW t \in Tasks, Now(t) \in Operation
  PROVE  Received(t) \in [contact : BOOLEAN, keys : SUBSET Usages, button : BOOLEAN]
<1>1. Now(t).keys \in SUBSET Usages
  BY DEF Operation
<1> QED
  BY <1>1 DEF PhoneType, Received

(* The types are kept by every step of a task.                               *)
LEMMA TaskStepType ==
  ASSUME Typed, NEW t \in Tasks, TaskStep(t) \/ Answer(t)
  PROVE  Typed'
<1> USE DEF Typed, serviceVars, heldVars, historyVars

<1>1. CASE EnsureHid(t)
  <2>1. Busy(t)
    BY <1>1 DEF EnsureHid, Running
  <2>2. Now(t) \in Operation /\ Rest(t) \in Seq(Operation)
    BY <2>1, NowType
  <2>3. TaskType' /\ CommandType'
    <3>1. CASE hid = "none"
      BY <1>1, <2>1, <3>1, ConnectType DEF EnsureHid
    <3>2. CASE hid # "none"
      BY <1>1, <2>2, <3>2, ContinueType DEF EnsureHid, CommandType, CommandOk
    <3> QED
      BY <3>1, <3>2
  <2>4. SessionType' /\ PhoneType' /\ ReportType'
    BY <1>1 DEF EnsureHid, SessionType, PhoneType, ReportType
  <2>5. FlagType'
    BY Zenon, <1>1 DEF EnsureHid, FlagType
  <2> QED
    BY <2>3, <2>4, <2>5

<1>2. CASE EnsureIndigo(t)
  <2>1. Busy(t)
    BY <1>2 DEF EnsureIndigo, Running
  <2>2. Now(t) \in Operation /\ Rest(t) \in Seq(Operation)
    BY <2>1, NowType
  <2>3. TaskType' /\ CommandType'
    <3>1. CASE indigo = "none"
      BY <1>2, <2>1, <3>1, ConnectType DEF EnsureIndigo
    <3>2. CASE indigo # "none"
      BY <1>2, <2>2, <3>2, ContinueType DEF EnsureIndigo, CommandType, CommandOk
    <3> QED
      BY <3>1, <3>2
  <2>4. SessionType' /\ PhoneType' /\ ReportType'
    BY <1>2 DEF EnsureIndigo, SessionType, PhoneType, ReportType
  <2>5. FlagType'
    BY Zenon, <1>2 DEF EnsureIndigo, FlagType
  <2> QED
    BY <2>3, <2>4, <2>5

<1>3. CASE SendTouch(t)
  <2>1. Busy(t)
    BY <1>3 DEF SendTouch, Running
  <2>2. Now(t) \in Operation /\ Rest(t) \in Seq(Operation)
    BY <2>1, NowType
  <2>3. TaskType' /\ CommandType'
    <3>1. PICK needed : Issue(t, needed, hid)
      BY <1>3 DEF SendTouch
    <3> QED
      BY <2>1, <3>1, IssueType
  <2>4. SessionType' /\ PhoneType' /\ ReportType'
    BY <1>3 DEF SendTouch, SessionType, PhoneType, ReportType
  <2>5. FlagType'
    <3>1. PICK b : contact' = IF b THEN Now(t).op \in {"contact", "drag"} ELSE contact
      BY <1>3 DEF SendTouch
    <3>2. contact' \in BOOLEAN
      <4>1. contact' = TRUE \/ contact' = FALSE \/ contact' = contact
        BY <3>1
      <4> QED
        BY Zenon, <4>1 DEF FlagType
    <3> QED
      BY Zenon, <1>3, <3>2 DEF SendTouch, FlagType
  <2> QED
    BY <2>3, <2>4, <2>5

<1>4. CASE SendKeys(t)
  <2>1. Busy(t)
    BY <1>4 DEF SendKeys, Running
  <2>2. Now(t) \in Operation /\ Rest(t) \in Seq(Operation)
    BY <2>1, NowType
  <2>3. TaskType' /\ CommandType'
    <3>1. PICK needed : Issue(t, needed, hid)
      BY <1>4 DEF SendKeys
    <3> QED
      BY <2>1, <3>1, IssueType
  <2>4. SessionType' /\ PhoneType' /\ ReportType'
    BY <1>4 DEF SendKeys, SessionType, PhoneType, ReportType
  <2>5. FlagType'
    BY Zenon, <1>4 DEF SendKeys, FlagType
  <2> QED
    BY <2>3, <2>4, <2>5

<1>5. CASE SendOther(t)
  <2>1. Busy(t)
    BY <1>5 DEF SendOther, Running
  <2>2. Now(t) \in Operation /\ Rest(t) \in Seq(Operation)
    BY <2>1, NowType
  <2>3. TaskType' /\ CommandType'
    BY <1>5, <2>1, IssueType, ConnectType DEF SendOther
  <2>4. SessionType' /\ PhoneType' /\ ReportType'
    BY <1>5 DEF SendOther, SessionType, PhoneType, ReportType
  <2>5. FlagType'
    BY Zenon, <1>5 DEF SendOther, FlagType
  <2> QED
    BY <2>3, <2>4, <2>5

<1>6. CASE CloseHid(t)
  <2>1. Busy(t)
    BY <1>6 DEF CloseHid, Running
  <2>2. Now(t) \in Operation /\ Rest(t) \in Seq(Operation)
    BY <2>1, NowType
  <2>3. TaskType' /\ CommandType'
    <3>1. CommandType'
      BY <1>6 DEF CloseHid, CommandType, CommandOk
    <3>2. TaskType'
      <4>1. /\ task[t].todo \in Seq(Operation) /\ task[t].todo # <<>>
        BY <2>1, NowType
      <4> QED
        BY <1>6, <2>1, <2>2, <4>1 DEF CloseHid, TaskType, WaitsOk, Waiting, Busy
    <3> QED
      BY <3>1, <3>2
  <2>4. SessionType' /\ PhoneType' /\ ReportType'
    BY <1>6 DEF CloseHid, SessionType, PhoneType, ReportType
  <2>5. FlagType'
    BY Zenon, <1>6 DEF CloseHid, FlagType
  <2> QED
    BY <2>3, <2>4, <2>5

<1>7. CASE CloseIndigo(t)
  <2>1. Busy(t)
    BY <1>7 DEF CloseIndigo, Running
  <2>2. Now(t) \in Operation /\ Rest(t) \in Seq(Operation)
    BY <2>1, NowType
  <2>3. TaskType' /\ CommandType'
    BY <1>7, <2>1, IssueType DEF CloseIndigo
  <2>4. SessionType' /\ PhoneType' /\ ReportType'
    BY <1>7 DEF CloseIndigo, SessionType, PhoneType, ReportType
  <2>5. FlagType'
    BY Zenon, <1>7 DEF CloseIndigo, FlagType
  <2> QED
    BY <2>3, <2>4, <2>5

<1>8. CASE Assign(t)
  <2>1. Busy(t)
    BY <1>8 DEF Assign, Running
  <2>2. Now(t) \in Operation /\ Rest(t) \in Seq(Operation)
    BY <2>1, NowType
  <2>3. TaskType' /\ CommandType'
    <3>1. CommandType'
      BY <1>8 DEF Assign, CommandType, CommandOk
    <3>2. CASE Now(t).op = "report"
      <4>1. Continue(t, KeyStates(Now(t).keys) \o Rest(t))
        BY <1>8, <3>2 DEF Assign
      <4>2. KeyStates(Now(t).keys) \in Seq(Operation)
        BY <2>2, KeyStatesList DEF ReportType, Operation
      <4>3. KeyStates(Now(t).keys) \o Rest(t) \in Seq(Operation)
        BY <2>2, <4>2
      <4> QED
        BY <3>1, <4>1, <4>3, ContinueType
    <3>3. CASE Now(t).op # "report"
      <4>1. Continue(t, <<>> \o Rest(t))
        BY <1>8, <3>3 DEF Assign
      <4>2. <<>> \o Rest(t) \in Seq(Operation)
        BY <2>2
      <4> QED
        BY <3>1, <4>1, <4>2, ContinueType
    <3> QED
      BY <3>2, <3>3
  <2>4. SessionType' /\ PhoneType' /\ ReportType'
    BY <1>8 DEF Assign, SessionType, PhoneType, ReportType
  <2>5. FlagType'
    BY Zenon, <1>8 DEF Assign, FlagType
  <2> QED
    BY <2>3, <2>4, <2>5

<1>9. CASE Succeeds(t)
  <2>1. Waiting(t)
    BY <1>9 DEF Succeeds
  <2>2. Now(t) \in Operation /\ Rest(t) \in Seq(Operation)
    BY <2>1, NowType
  <2>3. TaskType' /\ CommandType'
    BY <1>9, <2>2, ContinueType DEF Succeeds, CommandType, CommandOk
  <2>4. SessionType' /\ PhoneType' /\ ReportType'
    BY <1>9, <2>2, ReceivedType
       DEF Succeeds, SessionType, PhoneType, ReportType, Operation
  <2>5. FlagType'
    BY Zenon, <1>9 DEF Succeeds, FlagType
  <2> QED
    BY <2>3, <2>4, <2>5

<1>10. CASE Fails(t)
  <2>1. Waiting(t)
    BY <1>10 DEF Fails
  <2>2. Now(t) \in Operation /\ Rest(t) \in Seq(Operation)
    BY <2>1, NowType
  <2>3. TaskType' /\ CommandType'
    BY <1>10, <2>1, FailType DEF Fails
  <2>4. SessionType' /\ PhoneType' /\ ReportType'
    BY <1>10, <2>2, ReceivedType DEF Fails, SessionType, PhoneType, ReportType
  <2>5. FlagType'
    BY <1>10 DEF Fails, FlagType
  <2> QED
    BY <2>3, <2>4, <2>5

<1> QED
  BY <1>1, <1>2, <1>3, <1>4, <1>5, <1>6, <1>7, <1>8, <1>9, <1>10 DEF TaskStep, Answer

(* The types are kept by every step.                                         *)
LEMMA TypeStep == Typed /\ [Next]_vars => Typed'
<1> SUFFICES ASSUME Typed, [Next]_vars PROVE Typed'
  OBVIOUS
<1> USE DEF Typed, serviceVars, heldVars, historyVars
<1>1. CASE \E c \in Commands : Handle(c)
  <2>1. PICK c \in Commands : Handle(c)
    BY <1>1
  <2>2. CommandType'
    <3>1. command' = [name |-> c.name, keys |-> c.keys, failed |-> FALSE]
      BY <2>1 DEF Handle
    <3>2. [name |-> c.name, keys |-> c.keys] = c
      BY DEF Commands
    <3> QED
      BY <3>1, <3>2 DEF CommandType, CommandOk
  <2>3. TaskType'
    BY <2>1, ProgramList, ContinueType DEF Handle, Tasks
  <2>4. SessionType' /\ PhoneType' /\ ReportType'
    BY <2>1 DEF Handle, SessionType, PhoneType, ReportType
  <2>5. FlagType'
    BY Zenon, <2>1 DEF Handle, FlagType
  <2> QED
    BY <2>2, <2>3, <2>4, <2>5
<1>2. CASE \E t \in Tasks : TaskStep(t) \/ Answer(t)
  BY <1>2, TaskStepType
<1>3. CASE OpenTunnel \/ Run \/ End
  <2>1. TaskType' /\ CommandType' /\ SessionType' /\ PhoneType' /\ ReportType'
    BY <1>3 DEF OpenTunnel, Run, End, TaskType, WaitsOk, Waiting, CommandType,
                CommandOk, SessionType, PhoneType, ReportType
  <2>2. FlagType'
    BY Zenon, <1>3 DEF OpenTunnel, Run, End, FlagType
  <2> QED
    BY <2>1, <2>2
<1>4. CASE WarmInput \/ LeaveTunnel
  <2>1. PICK s \in Seq(Operation) : Continue("session", s)
    <3>1. <<Op("warm")>> \in Seq(Operation)
      BY DEF Op, Operation, Suppressed
    <3> QED
      BY <1>4, <3>1, CleanupList DEF WarmInput, LeaveTunnel
  <2>2. TaskType'
    BY <2>1, ContinueType DEF Tasks
  <2>3. CommandType' /\ SessionType' /\ PhoneType' /\ ReportType'
    BY <1>4 DEF WarmInput, LeaveTunnel, CommandType, CommandOk, SessionType, PhoneType,
                ReportType
  <2>4. FlagType'
    BY Zenon, <1>4 DEF WarmInput, LeaveTunnel, FlagType
  <2> QED
    BY <2>2, <2>3, <2>4
<1>5. CASE Over \/ UNCHANGED vars
  <2>1. TaskType' /\ CommandType' /\ SessionType' /\ PhoneType' /\ ReportType'
    BY <1>5 DEF Over, vars, TaskType, WaitsOk, Waiting, CommandType,
                CommandOk, SessionType, PhoneType, ReportType
  <2>2. FlagType'
    BY Zenon, <1>5 DEF Over, vars, FlagType
  <2> QED
    BY <2>1, <2>2
<1> QED
  BY <1>1, <1>2, <1>3, <1>4, <1>5 DEF Next

(* The initial values have their types.                                      *)
LEMMA InitTyped == Init => Typed
<1> SUFFICES ASSUME Init PROVE Typed
  OBVIOUS
<1>1. TaskType
  BY DEF Init, Idle, TaskType, WaitsOk, Waiting
<1>2. CommandType
  BY DEF Init, CommandType, CommandOk, NoCommand
<1>3. SessionType /\ FlagType /\ PhoneType /\ ReportType
  BY DEF Init, SessionType, FlagType, PhoneType, ReportType
<1> QED
  BY <1>1, <1>2, <1>3 DEF Typed

(* In every behaviour the variables have their types.                        *)
THEOREM TypeCorrect == Spec => []TypeOK
<1>1. Init => Typed
  BY InitTyped
<1> QED
  BY <1>1, TypeParts, TypeStep, PTL DEF Spec, Spec0

-----------------------------------------------------------------------------
(* The lists of the two tasks.                                               *)

\* Nothing the handler relies on changes.
Quiet ==
  /\ tunnel # "closed" /\ tunnel' # "closed"
  /\ UNCHANGED <<contact, reported, keyboard, command, phone, lost>>
  /\ task'["handler"] = task["handler"]
  /\ hid # "none" => hid' # "none"
  /\ task'["session"].todo \in {<<>>, <<Op("warm")>>}

\* The handler awaits; goes on; recovers; sends the reports of a new state.
Stays == /\ task'["handler"] = [todo |-> Todo, at |-> "await"]
         /\ UNCHANGED command
Advances == /\ task'["handler"] = [todo |-> Rest("handler"), at |-> "run"]
            /\ UNCHANGED command
Recovers ==
  /\ Now("handler").op \notin Suppressed
  /\ task'["handler"] = [todo |-> Recovery(Now("handler").op), at |-> "run"]
  /\ command'.failed
Expands ==
  /\ Now("handler").op = "report"
  /\ task'["handler"] = [todo |-> KeyStates(Now("handler").keys) \o Rest("handler"),
                         at |-> "run"]
  /\ UNCHANGED command

(* As long as the tunnel is open the session can only connect the touch      *)
(* service, or fail to.                                                      *)
LEMMA SessionQuiet ==
  ASSUME Typed, ShapeOk, tunnel # "closed", TaskStep("session") \/ Answer("session")
  PROVE  Quiet
<1> DEFINE warm == Op("warm")
<1>1. "session" \in Tasks /\ "handler" \in Tasks \ {"session"}
  BY DEF Tasks
<1>2. Busy("session") \/ Waiting("session")
  BY DEF TaskStep, Answer, EnsureHid, EnsureIndigo, SendTouch, SendKeys, SendOther,
         CloseHid, CloseIndigo, Assign, Running, Succeeds, Fails
<1>9. <<>> \in Seq(Operation)
  OBVIOUS
<1>3. task["session"].todo = <<warm>>
  BY <1>1, <1>2, NowType DEF Typed, ShapeOk
<1>4. Now("session").op = "warm" /\ Rest("session") = <<>>
  BY <1>3 DEF Now, Rest, Op
<1>5. EnsureHid("session") \/ Succeeds("session") \/ Fails("session")
  BY <1>4 DEF TaskStep, Answer, EnsureIndigo, SendTouch, SendKeys, SendOther,
              CloseHid, CloseIndigo, Assign, Running, Local
<1>6. CASE EnsureHid("session")
  <2>1. /\ task'["handler"] = task["handler"]
        /\ task'["session"].todo \in {<<>>, <<warm>>}
    <3>1. CASE hid = "none"
      <4>1. Connect("session") /\ Busy("session")
        BY <1>6, <3>1 DEF EnsureHid, Running
      <4>2. CASE tunnel = "none"
        <5>1. Fail("session") /\ Now("session").op \in Suppressed
          BY <1>4, <4>1, <4>2 DEF Connect, Suppressed
        <5>2. /\ task'["session"] = [todo |-> <<>>, at |-> "run"]
              /\ \A u \in Tasks \ {"session"} : task'[u] = task[u]
          BY <4>1, <5>1, <1>1, <1>4, FailType DEF Typed
        <5> QED
          BY <5>2, <1>1
      <4>3. CASE tunnel # "none"
        <5>1. /\ task'["session"] = [todo |-> task["session"].todo, at |-> "await"]
              /\ \A u \in Tasks \ {"session"} : task'[u] = task[u]
          BY <4>1, <4>3, <1>1, AwaitType DEF Typed, Connect
        <5> QED
          BY <5>1, <1>1, <1>3
      <4> QED
        BY <4>2, <4>3
    <3>2. CASE hid # "none"
      <4>1. Continue("session", <<>>)
        BY <1>4, <1>6, <3>2 DEF EnsureHid
      <4>2. /\ task'["session"] = [todo |-> <<>>, at |-> "run"]
            /\ \A u \in Tasks \ {"session"} : task'[u] = task[u]
        BY <4>1, <1>1, <1>9, ContinueType DEF Typed
      <4> QED
        BY <4>2, <1>1
    <3> QED
      BY <3>1, <3>2
  <2>2. UNCHANGED <<tunnel, contact, reported, keyboard, command, phone, lost>>
    BY <1>4, <1>6 DEF EnsureHid, Connect, Fail, Suppressed, heldVars, historyVars
  <2>3. hid # "none" => hid' # "none"
    BY <1>6 DEF EnsureHid
  <2> QED
    BY <2>1, <2>2, <2>3 DEF Quiet
<1>7. CASE Succeeds("session")
  <2>1. Continue("session", <<>>)
    BY <1>4, <1>7 DEF Succeeds
  <2>2. task'["handler"] = task["handler"] /\ task'["session"].todo = <<>>
    <3>1. /\ task'["session"] = [todo |-> <<>>, at |-> "run"]
          /\ \A u \in Tasks \ {"session"} : task'[u] = task[u]
      BY <2>1, <1>1, <1>9, ContinueType DEF Typed
    <3> QED
      BY <3>1, <1>1
  <2>3. UNCHANGED <<tunnel, contact, reported, keyboard, command, phone, lost>>
    BY <1>4, <1>7 DEF Succeeds, Received, historyVars
  <2>4. hid # "none" => hid' # "none"
    BY <1>7 DEF Succeeds
  <2> QED
    BY <2>2, <2>3, <2>4 DEF Quiet
<1>8. CASE Fails("session")
  <2>1. Received("session") = phone /\ Now("session").op \in Suppressed
    BY <1>4 DEF Received, Suppressed
  <2>2. /\ task'["handler"] = task["handler"] /\ task'["session"].todo = <<>>
        /\ UNCHANGED command
    <3>1. Fail("session")
      BY <1>8 DEF Fails
    <3>2. /\ task'["session"] = [todo |-> <<>>, at |-> "run"] /\ UNCHANGED command
          /\ \A u \in Tasks \ {"session"} : task'[u] = task[u]
      BY <2>1, <3>1, <1>1, <1>2, <1>4, FailType DEF Typed
    <3> QED
      BY <3>2, <1>1
  <2>3. UNCHANGED <<tunnel, contact, reported, keyboard, phone, hid>>
    BY <2>1, <1>8 DEF Fails, serviceVars, heldVars
  <2>4. UNCHANGED lost
    <3>1. Now("session").op \notin Releases
      BY <1>4 DEF Releases
    <3>2. lost' = (lost \/ (Now("session").op \in Releases /\ phone' # Received("session")))
      BY <1>8 DEF Fails
    <3>3. lost \in BOOLEAN
      BY DEF Typed, FlagType
    <3> QED
      BY Zenon, <3>1, <3>2, <3>3
  <2> QED
    BY <2>2, <2>3, <2>4 DEF Quiet
<1> QED
  BY <1>5, <1>6, <1>7, <1>8

(* A step that is not one of the handler does nothing to it.                 *)
LEMMA OtherQuiet ==
  ASSUME Typed, ShapeOk, tunnel' # "closed",
         \/ TaskStep("session") \/ Answer("session")
         \/ OpenTunnel \/ WarmInput \/ Run \/ LeaveTunnel \/ End \/ Over
         \/ UNCHANGED vars
  PROVE  Quiet
<1>1. "session" \in Tasks /\ "handler" \in Tasks \ {"session"}
  BY DEF Tasks
<1>2. CASE TaskStep("session") \/ Answer("session")
  <2>1. UNCHANGED tunnel
    BY <1>2 DEF TaskStep, Answer, EnsureHid, EnsureIndigo, SendTouch, SendKeys,
                SendOther, CloseHid, CloseIndigo, Assign, Succeeds, Fails
  <2> QED
    BY <1>2, <2>1, SessionQuiet
<1>3. CASE OpenTunnel \/ Run \/ End \/ Over \/ UNCHANGED vars
  <2>1. UNCHANGED <<contact, reported, keyboard, command, phone, lost, hid, task>>
    BY <1>3 DEF OpenTunnel, Run, End, Over, vars, serviceVars, heldVars, historyVars
  <2>2. tunnel # "closed"
    BY <1>3 DEF OpenTunnel, Run, End, Over, vars
  <2> QED
    BY <2>1, <2>2 DEF Quiet, ShapeOk
<1>4. CASE WarmInput
  <2>1. /\ UNCHANGED <<contact, reported, keyboard, command, phone, lost, hid>>
        /\ tunnel # "closed" /\ Continue("session", <<Op("warm")>>)
    BY <1>4 DEF WarmInput, serviceVars, heldVars, historyVars
  <2>2. <<Op("warm")>> \in Seq(Operation)
    BY DEF Op, Operation, Suppressed
  <2> QED
    <3>1. /\ task'["session"] = [todo |-> <<Op("warm")>>, at |-> "run"]
          /\ \A u \in Tasks \ {"session"} : task'[u] = task[u]
      BY <2>1, <2>2, <1>1, ContinueType DEF Typed
    <3> QED
      BY <3>1, <2>1, <1>1 DEF Quiet
<1>5. CASE LeaveTunnel
  BY <1>5 DEF LeaveTunnel
<1> QED
  BY <1>2, <1>3, <1>4, <1>5

(* How a step of the handler moves it along its list.                        *)
LEMMA Moves ==
  ASSUME Typed, TaskStep("handler") \/ Answer("handler")
  PROVE  /\ Stays \/ Advances \/ Recovers \/ Expands
         /\ Todo # <<>> /\ Now("handler") \in Operation /\ Todo \in Seq(Operation)
         /\ UNCHANGED tunnel /\ task'["session"].todo = task["session"].todo
<1>1. "handler" \in Tasks /\ Tasks \ {"handler"} = {"session"} /\ "session" \in Tasks
  BY DEF Tasks
<1>2. Busy("handler") \/ Waiting("handler")
  BY DEF TaskStep, Answer, EnsureHid, EnsureIndigo, SendTouch, SendKeys, SendOther,
         CloseHid, CloseIndigo, Assign, Running, Succeeds, Fails
<1>3. /\ Todo # <<>> /\ Now("handler") \in Operation /\ Todo \in Seq(Operation)
      /\ Rest("handler") \in Seq(Operation)
  BY <1>1, <1>2, NowType DEF Typed, Todo
<1>4. UNCHANGED tunnel
  BY DEF TaskStep, Answer, EnsureHid, EnsureIndigo, SendTouch, SendKeys, SendOther,
         CloseHid, CloseIndigo, Assign, Succeeds, Fails
<1> DEFINE G == /\ Stays \/ Advances \/ Recovers \/ Expands
                /\ task'["session"].todo = task["session"].todo
<1>5. ASSUME Await("handler"), UNCHANGED command, Busy("handler") PROVE G
  BY <1>1, <1>5, AwaitType DEF Typed, Stays, Todo
<1>6. ASSUME Continue("handler", Rest("handler")), UNCHANGED command PROVE G
  BY <1>1, <1>3, <1>6, ContinueType DEF Typed, Advances
<1>7. ASSUME Fail("handler") PROVE G
  BY <1>1, <1>2, <1>7, FailType DEF Typed, Advances, Recovers
<1>8. ASSUME NEW needed, NEW service, Issue("handler", needed, service), Busy("handler")
      PROVE  G
  BY <1>5, <1>6, <1>7, <1>8 DEF Issue
<1>16. ASSUME Connect("handler"), Busy("handler") PROVE G
  BY <1>5, <1>7, <1>16 DEF Connect
<1>9. CASE EnsureHid("handler") \/ EnsureIndigo("handler")
  BY <1>3, <1>4, <1>6, <1>9, <1>16 DEF EnsureHid, EnsureIndigo, Running
<1>10. CASE SendTouch("handler") \/ SendKeys("handler")
  <2>1. Busy("handler") /\ \E needed : Issue("handler", needed, hid)
    BY <1>10 DEF SendTouch, SendKeys, Running
  <2> QED
    BY <1>3, <1>4, <1>8, <2>1
<1>11. CASE SendOther("handler") \/ CloseIndigo("handler")
  <2>1. /\ Busy("handler")
        /\ \/ \E needed, service : Issue("handler", needed, service)
           \/ Connect("handler")
    BY <1>11 DEF SendOther, CloseIndigo, Running
  <2> QED
    BY <1>3, <1>4, <1>8, <1>16, <2>1
<1>12. CASE CloseHid("handler")
  <2>1. /\ task'["session"].todo = task["session"].todo /\ UNCHANGED command
        /\ task'["handler"] = IF hid = "none" THEN [todo |-> Rest("handler"), at |-> "run"]
                              ELSE [task["handler"] EXCEPT !.at = "await"]
    BY <1>1, <1>12 DEF CloseHid, Typed, TaskType
  <2>2. [task["handler"] EXCEPT !.at = "await"] = [todo |-> Todo, at |-> "await"]
    BY <1>1 DEF Typed, TaskType, Todo
  <2> QED
    BY <1>3, <1>4, <2>1, <2>2 DEF Stays, Advances
<1>13. CASE Assign("handler")
  <2>1. CASE Now("handler").op = "report"
    <3>1. Continue("handler", KeyStates(Now("handler").keys) \o Rest("handler"))
      BY <1>13, <2>1 DEF Assign
    <3>2. task'["handler"] = [todo |-> KeyStates(Now("handler").keys) \o Rest("handler"),
                              at |-> "run"]
      BY <3>1, <1>1 DEF Continue, Typed, TaskType
    <3>3. task'["session"] = task["session"]
      BY <3>1, <1>1 DEF Continue, Typed, TaskType
    <3> QED
      BY <1>3, <1>4, <1>13, <2>1, <3>2, <3>3 DEF Assign, Expands
  <2>2. CASE Now("handler").op # "report"
    <3>1. Continue("handler", <<>> \o Rest("handler")) /\ UNCHANGED command
      BY <1>13, <2>2 DEF Assign
    <3>2. <<>> \o Rest("handler") = Rest("handler")
      BY <1>3, ConcatEmptySeq
    <3> QED
      BY <1>3, <1>4, <1>6, <3>1, <3>2
  <2> QED
    BY <2>1, <2>2
<1>14. CASE Succeeds("handler")
  BY <1>3, <1>4, <1>6, <1>14 DEF Succeeds
<1>15. CASE Fails("handler")
  BY <1>3, <1>4, <1>7, <1>15 DEF Fails
<1> QED
  BY <1>3, <1>4, <1>9, <1>10, <1>11, <1>12, <1>13, <1>14, <1>15 DEF TaskStep, Answer

(* Where the handler stands in a linked list.                                *)
LEMMA Stands ==
  ASSUME Todo \in Seq(Operation), Todo # <<>>, Linked(Todo)
  PROVE  /\ First(Todo) = Now("handler")
         /\ Rest("handler") \in Seq(Operation) /\ Linked(Rest("handler"))
         /\ Follows(Now("handler"), First(Rest("handler")))
         /\ Rest("handler") = <<>> => Todo[Len(Todo)] = Now("handler")
         /\ Rest("handler") # <<>>
              => Rest("handler")[Len(Rest("handler"))] = Todo[Len(Todo)]
  BY TailFacts, LinkedTail DEF First, FirstOr, Now, Rest, Todo

(* The reports of a new key state, followed by what is left.                 *)
LEMMA Expansion ==
  ASSUME Todo \in Seq(Operation), Todo # <<>>, Linked(Todo), ReportType,
         Now("handler").op = "report", Now("handler") \in Operation
  PROVE  LET s == KeyStates(Now("handler").keys) \o Rest("handler")
         IN /\ s \in Seq(Operation) /\ s # <<>> /\ Linked(s)
            /\ First(s).op = "keys" /\ Apart(reported, First(s).keys)
            /\ s[Len(s)] = IF Rest("handler") = <<>>
                           THEN Keys("keys", Now("handler").keys)
                           ELSE Todo[Len(Todo)]
<1> DEFINE k == Now("handler").keys
           r == Rest("handler")
<1>1. k \in SUBSET Usages
  BY DEF Operation
<1>2. /\ r \in Seq(Operation) /\ Linked(r) /\ Follows(Now("handler"), First(r))
      /\ r # <<>> => r[Len(r)] = Todo[Len(Todo)]
  BY Stands
<1>3. First(r).op \in {"report", "stop"}
  BY <1>2 DEF Follows, After
<1>4. /\ KeyStates(k) \in Seq(Operation) /\ KeyStates(k) # <<>>
      /\ Chain(KeyStates(k), FirstOr(r, Stop))
      /\ Head(KeyStates(k)).op = "keys" /\ Apart(reported, Head(KeyStates(k)).keys)
      /\ KeyStates(k)[Len(KeyStates(k))] = Keys("keys", k)
  BY <1>1, <1>3, KeyStatesList DEF ReportType, First, FirstOr
<1> HIDE DEF k, r
<1>5. /\ KeyStates(k) \o r \in Seq(Operation) /\ KeyStates(k) \o r # <<>>
      /\ Chain(KeyStates(k) \o r, Stop) /\ Head(KeyStates(k) \o r) = Head(KeyStates(k))
      /\ (KeyStates(k) \o r)[Len(KeyStates(k) \o r)]
           = IF r = <<>> THEN KeyStates(k)[Len(KeyStates(k))] ELSE r[Len(r)]
  BY <1>2, <1>4, ChainConcat DEF Linked
<1> QED
  BY <1>2, <1>4, <1>5 DEF k, r, Linked, First, FirstOr

\* The handler is at an operation of a linked list.
At ==
  /\ Todo \in Seq(Operation) /\ Todo # <<>> /\ Linked(Todo) /\ ReportType
  /\ Now("handler") \in Operation

(* A handler that goes on comes to an operation that may follow.             *)
LEMMA AdvanceTo ==
  ASSUME At, Advances
  PROVE  /\ Todo' = Rest("handler") /\ ~Waiting("handler")' /\ Linked(Todo)'
         /\ First(Todo') = First(Rest("handler"))
         /\ Follows(Now("handler"), First(Rest("handler")))
         /\ Todo' = <<>> => Todo[Len(Todo)] = Now("handler")
         /\ Todo' # <<>> => (Todo[Len(Todo)])' = Todo[Len(Todo)]
<1>1. Todo' = Rest("handler") /\ ~Waiting("handler")'
  BY DEF Advances, Todo, Waiting
<1> QED
  BY <1>1, Stands DEF At, Linked, Chain

(* A handler that recovers comes to the first operation of the recovery.     *)
LEMMA RecoverTo ==
  ASSUME Recovers
  PROVE  /\ Todo' = Recovery(Now("handler").op) /\ ~Waiting("handler")'
         /\ Linked(Todo)' /\ Todo' # <<>> /\ command'.failed
<1>1. /\ Todo' = Recovery(Now("handler").op) /\ ~Waiting("handler")'
      /\ command'.failed
  BY DEF Recovers, Todo, Waiting
<1> QED
  BY <1>1, RecoveryList DEF Linked, Chain

(* A handler that has a new key state to send comes to its first report.     *)
LEMMA ExpandTo ==
  ASSUME At, Expands
  PROVE  /\ Todo' # <<>> /\ ~Waiting("handler")' /\ Linked(Todo)'
         /\ First(Todo').op = "keys" /\ Apart(reported, First(Todo').keys)
         /\ (Todo[Len(Todo)])' \in {Keys("keys", Now("handler").keys), Todo[Len(Todo)]}
         /\ (Todo[Len(Todo)])' # Todo[Len(Todo)] => Todo[Len(Todo)] = Now("handler")
<1>1. /\ Todo' = KeyStates(Now("handler").keys) \o Rest("handler")
      /\ ~Waiting("handler")'
  BY DEF Expands, Todo, Waiting
<1> QED
  BY <1>1, Expansion, Stands DEF At, Expands, Linked, Chain

(* A handler that awaits is at the same operation.                           *)
LEMMA StayTo ==
  ASSUME Stays
  PROVE  Todo' = Todo /\ Waiting("handler")' /\ UNCHANGED command
  BY DEF Stays, Todo, Waiting

(* The lists of operations stay linked.                                      *)
LEMMA ShapeStep == Typed /\ ShapeOk /\ [Next]_vars => ShapeOk'
<1> SUFFICES ASSUME Typed, ShapeOk, [Next]_vars, tunnel' # "closed"
             PROVE  task'["session"].todo \in {<<>>, <<Op("warm")>>} /\ Linked(Todo)'
  BY DEF ShapeOk, Linked, Chain, Todo
<1>1. CASE \E c \in Commands : Handle(c)
  <2>1. PICK c \in Commands : Handle(c)
    BY <1>1
  <2>2. Continue("handler", Program(c)) /\ UNCHANGED tunnel
    BY <2>1 DEF Handle
  <2>3. /\ task'["handler"] = [todo |-> Program(c), at |-> "run"]
        /\ task'["session"] = task["session"]
    BY <2>2, ProgramList, ContinueType DEF Typed, Tasks
  <2>4. Todo' = Program(c)
    BY <2>3 DEF Todo
  <2> QED
    BY <2>2, <2>3, <2>4, ProgramList DEF ShapeOk, Linked, Chain
<1>2. CASE TaskStep("handler") \/ Answer("handler")
  <2>1. At /\ task'["session"].todo = task["session"].todo /\ UNCHANGED tunnel
    BY <1>2, Moves DEF At, ShapeOk, Typed
  <2> QED
    BY <1>2, <2>1, Moves, StayTo, AdvanceTo, RecoverTo, ExpandTo
       DEF ShapeOk, Linked, Chain
<1>3. CASE Quiet
  BY <1>3 DEF Quiet, ShapeOk, Linked, Chain, Todo
<1>4. ASSUME NEW t \in Tasks, TaskStep(t) \/ Answer(t)
      PROVE  Quiet \/ TaskStep("handler") \/ Answer("handler")
  BY <1>4, OtherQuiet DEF Tasks
<1> QED
  BY <1>1, <1>2, <1>3, <1>4, OtherQuiet DEF Next

-----------------------------------------------------------------------------
(* What each action of the handler does, in terms of its list.               *)

Op0 == Now("handler").op

\* A report or a connection fails: a recovery, unless failures are suppressed.
FailsOver == IF Op0 \in Suppressed THEN Advances ELSE Recovers

(* The ways in which an action moves a task, for the handler.                *)
LEMMA Outcome ==
  ASSUME Typed
  PROVE  /\ Busy("handler") /\ Await("handler") /\ UNCHANGED command => Stays
         /\ Busy("handler") \/ Waiting("handler")
              => /\ Continue("handler", Rest("handler")) /\ UNCHANGED command => Advances
                 /\ Fail("handler") => FailsOver
         /\ \A needed, service :
              Busy("handler") /\ Issue("handler", needed, service)
                => \/ ~needed /\ Advances
                   \/ needed /\ service = "none" /\ FailsOver
                   \/ needed /\ service # "none" /\ Stays
<1>1. "handler" \in Tasks
  BY DEF Tasks
<1>2. ASSUME Busy("handler"), Await("handler"), UNCHANGED command PROVE Stays
  BY <1>1, <1>2, AwaitType DEF Typed, Stays, Todo
<1>3. ASSUME Busy("handler") \/ Waiting("handler"), UNCHANGED command,
             Continue("handler", Rest("handler"))
      PROVE  Advances
  BY <1>1, <1>3, NowType, ContinueType DEF Typed, Advances
<1>4. ASSUME Busy("handler") \/ Waiting("handler"), Fail("handler") PROVE FailsOver
  BY <1>1, <1>4, FailType DEF Typed, FailsOver, Advances, Recovers, Op0
<1>5. ASSUME NEW needed, NEW service, Busy("handler"), Issue("handler", needed, service)
      PROVE  \/ ~needed /\ Advances
             \/ needed /\ service = "none" /\ FailsOver
             \/ needed /\ service # "none" /\ Stays
  BY <1>2, <1>3, <1>4, <1>5 DEF Issue
<1> QED
  BY <1>2, <1>3, <1>4, <1>5

(* ensure_hid() and its like await the first connection, or do nothing.      *)
LEMMA EnsureHidDoes ==
  ASSUME Typed, EnsureHid("handler")
  PROVE  /\ ~Waiting("handler") /\ Op0 \in {"ensure", "reconnect", "warm"}
         /\ UNCHANGED <<tunnel, contact, reported, keyboard, phone, lost>>
         /\ \/ hid' = "new" /\ Stays
            \/ hid # "none" /\ UNCHANGED hid /\ Advances
            \/ hid' = "new" /\ tunnel = "none" /\ FailsOver
  BY Outcome DEF EnsureHid, Connect, Running, Busy, Waiting, Op0, heldVars, historyVars

(* The same for the service of the Home button.                              *)
LEMMA EnsureIndigoDoes ==
  ASSUME Typed, EnsureIndigo("handler")
  PROVE  /\ ~Waiting("handler") /\ Op0 = "indigo"
         /\ UNCHANGED <<tunnel, hid, contact, reported, keyboard, phone, lost>>
         /\ Stays \/ Advances \/ (tunnel = "none" /\ FailsOver)
  BY Outcome DEF EnsureIndigo, Connect, Running, Busy, Waiting, Op0, heldVars, historyVars

(* A touch report sets the contact and is awaited; a release of what is not  *)
(* held is left out.                                                         *)
LEMMA SendTouchDoes ==
  ASSUME Typed, SendTouch("handler")
  PROVE  /\ ~Waiting("handler")
         /\ Op0 \in {"contact", "drag", "release", "lift", "relContact"}
         /\ UNCHANGED <<tunnel, hid, reported, keyboard, phone, lost>>
         /\ \/ /\ UNCHANGED contact /\ Advances
               /\ \/ Op0 = "release" /\ ~contact
                  \/ Op0 = "relContact" /\ ~(contact /\ hid # "none")
            \/ /\ contact' <=> Op0 \in {"contact", "drag"}
               /\ hid = "none" /\ FailsOver /\ Op0 # "relContact"
               /\ Op0 = "release" => contact
            \/ /\ contact' <=> Op0 \in {"contact", "drag"}
               /\ hid # "none" /\ Stays
<1>1. /\ ~Waiting("handler") /\ Busy("handler")
      /\ Op0 \in {"contact", "drag", "release", "lift", "relContact"}
      /\ UNCHANGED <<tunnel, hid, reported, keyboard, phone, lost>>
  BY DEF SendTouch, Running, Busy, Waiting, Op0, serviceVars, historyVars
<1> DEFINE needed == CASE Op0 = "release" -> contact
                       [] Op0 = "relContact" -> contact /\ hid # "none"
                       [] OTHER -> TRUE
<1>2. /\ contact' = IF needed THEN Op0 \in {"contact", "drag"} ELSE contact
      /\ Issue("handler", needed, hid)
  BY DEF SendTouch, Op0
<1>3. /\ needed /\ Op0 = "release" => contact
      /\ needed /\ Op0 = "relContact" => contact /\ hid # "none"
      /\ ~needed => \/ Op0 = "release" /\ ~contact
                    \/ Op0 = "relContact" /\ ~(contact /\ hid # "none")
  BY <1>1
<1> HIDE DEF needed
<1>4. \/ ~needed /\ Advances
      \/ needed /\ hid = "none" /\ FailsOver
      \/ needed /\ hid # "none" /\ Stays
  BY <1>1, <1>2, Outcome
<1> QED
  BY <1>1, <1>2, <1>3, <1>4

(* A key report, or the keyboard it needs, is awaited unless it is there.    *)
LEMMA SendKeysDoes ==
  ASSUME Typed, SendKeys("handler")
  PROVE  /\ ~Waiting("handler") /\ Op0 \in {"keyboard", "keys", "relKeys"}
         /\ UNCHANGED <<tunnel, hid, contact, reported, keyboard, phone, lost>>
         /\ \/ /\ Advances
               /\ Op0 = "keyboard" => keyboard
               /\ Op0 = "keys" => Now("handler").keys = reported
               /\ Op0 = "relKeys" => ~(keyboard /\ hid # "none")
            \/ hid = "none" /\ FailsOver /\ Op0 # "relKeys"
            \/ hid # "none" /\ Stays
<1>1. /\ ~Waiting("handler") /\ Busy("handler")
      /\ Op0 \in {"keyboard", "keys", "relKeys"}
      /\ UNCHANGED <<tunnel, hid, contact, reported, keyboard, phone, lost>>
  BY DEF SendKeys, Running, Busy, Waiting, Op0, serviceVars, heldVars, historyVars
<1> DEFINE needed == CASE Op0 = "keyboard" -> ~keyboard
                       [] Op0 = "keys" -> Now("handler").keys # reported
                       [] Op0 = "relKeys" -> keyboard /\ hid # "none"
<1>2. Issue("handler", needed, hid)
  BY DEF SendKeys, Op0
<1>3. /\ needed /\ Op0 = "relKeys" => hid # "none"
      /\ ~needed => /\ Op0 = "keyboard" => keyboard
                    /\ Op0 = "keys" => Now("handler").keys = reported
                    /\ Op0 = "relKeys" => ~(keyboard /\ hid # "none")
  BY <1>1
<1> HIDE DEF needed
<1>4. \/ ~needed /\ Advances
      \/ needed /\ hid = "none" /\ FailsOver
      \/ needed /\ hid # "none" /\ Stays
  BY <1>1, <1>2, Outcome
<1> QED
  BY <1>1, <1>3, <1>4

(* The Home button and the clipboard are awaited, or fail at once.           *)
LEMMA SendOtherDoes ==
  ASSUME Typed, SendOther("handler")
  PROVE  /\ ~Waiting("handler") /\ Op0 \in {"press", "unpress", "pasteboard"}
         /\ UNCHANGED <<tunnel, hid, contact, reported, keyboard, phone, lost>>
         /\ FailsOver \/ Stays
<1>1. /\ ~Waiting("handler") /\ Busy("handler")
      /\ Op0 \in {"press", "unpress", "pasteboard"}
      /\ UNCHANGED <<tunnel, hid, contact, reported, keyboard, phone, lost>>
      /\ Connect("handler") \/ Issue("handler", TRUE, indigo)
  BY DEF SendOther, Running, Busy, Waiting, Op0, serviceVars, heldVars, historyVars
<1> QED
  BY <1>1, Outcome DEF Connect

(* A service is forgotten, and its close() awaited if there was one.         *)
LEMMA CloseDoes ==
  ASSUME Typed, CloseHid("handler") \/ CloseIndigo("handler")
  PROVE  /\ ~Waiting("handler")
         /\ Op0 = IF CloseHid("handler") THEN "closeHid" ELSE "closeIndigo"
         /\ UNCHANGED <<tunnel, contact, reported, keyboard, phone, lost>>
         /\ Op0 = "closeIndigo" => UNCHANGED hid
         /\ Stays \/ Advances
<1>1. CASE CloseHid("handler")
  <2>1. /\ ~Waiting("handler") /\ Op0 = "closeHid" /\ UNCHANGED command
        /\ UNCHANGED <<tunnel, contact, reported, keyboard, phone, lost>>
        /\ task'["handler"] = IF hid = "none" THEN [todo |-> Rest("handler"), at |-> "run"]
                              ELSE [task["handler"] EXCEPT !.at = "await"]
    BY <1>1 DEF CloseHid, Running, Busy, Waiting, Op0, heldVars, historyVars, Tasks
  <2>2. [task["handler"] EXCEPT !.at = "await"] = [todo |-> Todo, at |-> "await"]
    BY DEF Typed, TaskType, Todo, Tasks
  <2> QED
    BY <1>1, <2>1, <2>2 DEF Stays, Advances
<1>2. CASE CloseIndigo("handler")
  <2>1. /\ ~Waiting("handler") /\ Busy("handler") /\ Op0 = "closeIndigo"
        /\ UNCHANGED <<tunnel, hid, contact, reported, keyboard, phone, lost>>
        /\ Issue("handler", indigo # "none", indigo)
    BY <1>2 DEF CloseIndigo, Running, Busy, Waiting, Op0, heldVars, historyVars
  <2>2. ~CloseHid("handler")
    BY <2>1 DEF CloseHid, Running, Op0
  <2> QED
    BY <2>1, <2>2, Outcome
<1> QED
  BY <1>1, <1>2

(* An assignment is left behind; report becomes the reports of a new state.  *)
LEMMA AssignDoes ==
  ASSUME Typed, Assign("handler")
  PROVE  /\ ~Waiting("handler") /\ Op0 \in Local
         /\ UNCHANGED <<tunnel, hid, contact, phone, lost>>
         /\ reported' = IF Op0 = "clear" THEN {} ELSE reported
         /\ keyboard' = IF Op0 = "noKeyboard" THEN FALSE ELSE keyboard
         /\ IF Op0 = "report" THEN Expands ELSE Advances
<1>1. /\ ~Waiting("handler") /\ Busy("handler") /\ Op0 \in Local /\ UNCHANGED command
      /\ UNCHANGED <<tunnel, hid, contact, phone, lost>>
      /\ reported' = IF Op0 = "clear" THEN {} ELSE reported
      /\ keyboard' = IF Op0 = "noKeyboard" THEN FALSE ELSE keyboard
  BY DEF Assign, Running, Busy, Waiting, Op0, historyVars
<1>2. "handler" \in Tasks /\ Rest("handler") \in Seq(Operation)
  BY <1>1, NowType DEF Tasks, Typed
<1>3. CASE Op0 = "report"
  <2>1. Continue("handler", KeyStates(Now("handler").keys) \o Rest("handler"))
    BY <1>3 DEF Assign, Op0
  <2> QED
    BY <1>1, <1>2, <1>3, <2>1 DEF Continue, Typed, TaskType, Expands, Op0
<1>4. CASE Op0 # "report"
  <2>1. Continue("handler", <<>> \o Rest("handler"))
    BY <1>4 DEF Assign, Op0
  <2>2. <<>> \o Rest("handler") = Rest("handler")
    BY <1>2, ConcatEmptySeq
  <2> QED
    BY <1>1, <1>4, <2>1, <2>2, Outcome
<1> QED
  BY <1>3, <1>4, <1>1

(* An answer: the phone holds what the report says.                          *)
LEMMA SucceedsDoes ==
  ASSUME Typed, Succeeds("handler")
  PROVE  /\ Waiting("handler") /\ Advances /\ phone' = Received("handler")
         /\ UNCHANGED <<tunnel, contact, lost>>
         /\ hid' = IF Op0 \in {"ensure", "reconnect", "warm"} THEN "open" ELSE hid
         /\ keyboard' = IF Op0 = "keyboard" THEN TRUE ELSE keyboard
         /\ reported' = IF Op0 = "keys" THEN Now("handler").keys ELSE reported
  BY Outcome DEF Succeeds, Op0, historyVars

(* A failure: the phone may hold what the report says, and does if it is a   *)
(* release and none has been lost.                                           *)
LEMMA FailsDoes ==
  ASSUME Typed, Fails("handler"), ~lost'
  PROVE  /\ Waiting("handler") /\ FailsOver /\ ~lost
         /\ phone' \in {phone, Received("handler")}
         /\ Op0 \in Releases => phone' = Received("handler")
         /\ UNCHANGED <<tunnel, hid, contact, keyboard, reported>>
<1>1. /\ Waiting("handler") /\ FailsOver
      /\ phone' \in {phone, Received("handler")}
      /\ UNCHANGED <<tunnel, hid, contact, keyboard, reported>>
  BY Outcome DEF Fails, serviceVars, heldVars
<1>2. lost' = (lost \/ (Op0 \in Releases /\ phone' # Received("handler")))
  BY DEF Fails, Op0
<1> QED
  BY <1>1, <1>2

(* What a report changes of what the phone holds.                            *)
LEMMA ReceivedIs ==
  ASSUME Typed
  PROVE  /\ Op0 \in {"contact", "drag"} => Received("handler").contact
         /\ Op0 \in {"release", "lift", "relContact"} => ~Received("handler").contact
         /\ Op0 \notin {"contact", "drag", "release", "lift", "relContact"}
              => Received("handler").contact = phone.contact
         /\ Received("handler").keys
              = IF Op0 = "keys" THEN Now("handler").keys
                ELSE IF Op0 = "relKeys" THEN {} ELSE phone.keys
         /\ Op0 = "unpress" => ~Received("handler").button
  BY DEF Typed, PhoneType, Received, Op0

-----------------------------------------------------------------------------
(* The conditions before and during each operation.                          *)

\* What the invariant says of a handler at work, with the tunnel not closed
\* and no release lost.
Working ==
  /\ Typed /\ At /\ tunnel # "closed" /\ ~lost
  /\ IF Waiting("handler") THEN TouchDuring(Todo) ELSE TouchBefore(Todo)
  /\ KeysBefore(Todo)

(* A working handler is at the first of its operations, and the next one may *)
(* follow it.                                                                *)
LEMMA WorkingAt ==
  ASSUME Working
  PROVE  /\ First(Todo).op = Op0 /\ Op0 # "warm"
         /\ First(Rest("handler")).op \in After(Op0)
         /\ Rest("handler") = <<>> => First(Rest("handler")).op = "stop"
         /\ Tail(Todo) = Rest("handler")
<1>1. First(Todo) = Now("handler") /\ Follows(Now("handler"), First(Rest("handler")))
  BY Stands DEF Working, At
<1>2. Op0 # "warm"
  BY <1>1 DEF Follows, After, Op0
<1> QED
  BY <1>1, <1>2 DEF Follows, Op0, First, FirstOr, Stop, Op, Rest, Todo

(* A recovery comes to the Home service with nothing held.                   *)
LEMMA CloseIndigoAt ==
  ASSUME Working, Op0 = "closeIndigo"
  PROVE  /\ TouchAgrees /\ KeysAgree
         /\ First(Rest("handler")).op \in {"noKeyboard", "stop"}
         /\ First(Rest("handler")).op = "noKeyboard" => NothingHeld
<1>1. /\ First(Rest("handler")).op \in {"noKeyboard", "stop"}
      /\ First(Rest("handler")).op = "noKeyboard" => Tail(Todo) # <<>>
      /\ First(Todo).op = "closeIndigo"
  BY WorkingAt DEF After
<1> QED
  BY <1>1 DEF Working, TouchDuring, TouchBefore, KeysBefore, Settled, NothingHeld

(* The operations of a handler.                                              *)
LEMMA Op0Is ==
  ASSUME Working
  PROVE  Op0 \in (Fragile \cup Suppressed \cup Local) \ {"warm"}
  BY WorkingAt DEF Working, At, Operation, Op0

(* A working handler that awaits keeps its list, the next operation of one   *)
(* that goes on is known, and so is the first one of a recovery.             *)
LEMMA WorkingGoes ==
  ASSUME Working
  PROVE  /\ Stays => /\ Todo' = Todo /\ First(Todo').op = Op0 /\ Waiting("handler")'
         /\ Advances => /\ Todo' = Rest("handler") /\ ~Waiting("handler")'
                        /\ First(Todo').op = First(Rest("handler")).op
         /\ Recovers =>
              /\ ~Waiting("handler")'
              /\ First(Todo').op = IF Op0 = "drag" THEN "lift"
                    ELSE IF Op0 \in {"indigo", "press", "unpress"} THEN "closeIndigo"
                    ELSE "disable"
              /\ First(Todo').op = "closeIndigo" => Tail(Todo') = <<>>
         /\ Expands => First(Todo').op = "keys" /\ ~Waiting("handler")'
<1>1. At
  BY DEF Working
<1>2. ASSUME Stays
      PROVE  Todo' = Todo /\ First(Todo').op = Op0 /\ Waiting("handler")'
  BY <1>2, StayTo, WorkingAt
<1>3. ASSUME Advances
      PROVE  /\ Todo' = Rest("handler") /\ ~Waiting("handler")'
             /\ First(Todo').op = First(Rest("handler")).op
  BY <1>1, <1>3, AdvanceTo
<1>4. ASSUME Recovers
      PROVE  /\ ~Waiting("handler")'
             /\ First(Todo').op = IF Op0 = "drag" THEN "lift"
                   ELSE IF Op0 \in {"indigo", "press", "unpress"} THEN "closeIndigo"
                   ELSE "disable"
             /\ First(Todo').op = "closeIndigo" => Tail(Todo') = <<>>
  BY <1>4, RecoverTo, RecoveryList DEF Op0
<1>5. ASSUME Expands PROVE First(Todo').op = "keys" /\ ~Waiting("handler")'
  BY <1>1, <1>5, ExpandTo
<1> QED
  BY <1>2, <1>3, <1>4, <1>5


(* The conditions about the contact are kept by the handler.                 *)
LEMMA TouchStep ==
  ASSUME Working, TaskStep("handler") \/ Answer("handler"), ~lost'
  PROVE  IF Waiting("handler")' THEN TouchDuring(Todo)' ELSE TouchBefore(Todo)'
<1>0. Typed
  BY DEF Working
<1> USE WorkingAt, WorkingGoes
    DEF Working, Local, After, Settled, NeedsHid, TouchBefore,
        TouchDuring, TouchAgrees, TouchKnown, NoTouch
<1>1. CASE EnsureHid("handler")
  BY <1>0, <1>1, EnsureHidDoes DEF FailsOver, Suppressed
<1>2. CASE EnsureIndigo("handler")
  BY <1>0, <1>2, EnsureIndigoDoes DEF FailsOver, Suppressed
<1>3. CASE SendTouch("handler")
  <2>1. CASE Op0 = "contact"
    BY <1>0, <1>3, <2>1, SendTouchDoes DEF FailsOver, Suppressed
  <2>2. CASE Op0 = "drag"
    BY <1>0, <1>3, <2>2, SendTouchDoes DEF FailsOver, Suppressed
  <2>3. CASE Op0 = "release"
    BY <1>0, <1>3, <2>3, SendTouchDoes DEF FailsOver, Suppressed
  <2>4. CASE Op0 = "lift"
    BY <1>0, <1>3, <2>4, SendTouchDoes DEF FailsOver, Suppressed
  <2>5. CASE Op0 = "relContact"
    BY <1>0, <1>3, <2>5, SendTouchDoes DEF FailsOver, Suppressed
  <2> QED
    BY <1>0, <1>3, SendTouchDoes, <2>1, <2>2, <2>3, <2>4, <2>5
<1>4. CASE SendKeys("handler")
  BY <1>0, <1>4, SendKeysDoes DEF FailsOver, Suppressed
<1>5. CASE SendOther("handler")
  BY <1>0, <1>5, SendOtherDoes DEF FailsOver, Suppressed
<1>6. CASE CloseHid("handler") \/ CloseIndigo("handler")
  <2>1. CASE Op0 = "closeHid"
    BY <1>0, <1>6, <2>1, CloseDoes
  <2>2. CASE Op0 = "closeIndigo"
    <3>1. CASE Stays
      BY <1>0, <1>6, <2>2, <3>1, CloseDoes
    <3>2. CASE Advances
      <4>1. UNCHANGED <<hid, contact, keyboard, reported>> /\ phone'.contact = phone.contact
            /\ phone'.keys = phone.keys
        BY <1>0, <1>6, <2>2, CloseDoes
      <4> HIDE DEF Working
      <4> QED
        BY <2>2, <3>2, <4>1, CloseIndigoAt DEF NothingHeld
    <3> QED
      BY <1>0, <1>6, <2>2, <3>1, <3>2, CloseDoes
  <2> QED
    BY <1>0, <1>6, CloseDoes, <2>1, <2>2
<1>7. CASE Assign("handler")
  <2>1. CASE Op0 = "enable"
    BY <1>0, <1>7, <2>1, AssignDoes DEF Local
  <2>2. CASE Op0 = "report"
    BY <1>0, <1>7, <2>2, AssignDoes DEF Local
  <2>3. CASE Op0 = "disable"
    BY <1>0, <1>7, <2>3, AssignDoes DEF Local
  <2>4. CASE Op0 = "clear"
    BY <1>0, <1>7, <2>4, AssignDoes DEF Local
  <2>5. CASE Op0 = "noKeyboard"
    BY <1>0, <1>7, <2>5, AssignDoes DEF Local
  <2> QED
    BY <1>0, <1>7, AssignDoes, <2>1, <2>2, <2>3, <2>4, <2>5 DEF Local
<1>8. CASE Succeeds("handler")
  <2>1. CASE Op0 \in {"ensure", "reconnect"}
    BY <1>0, <1>8, <2>1, SucceedsDoes, ReceivedIs
  <2>2. CASE Op0 \in {"contact", "drag"}
    BY <1>0, <1>8, <2>2, SucceedsDoes, ReceivedIs
  <2>3. CASE Op0 \in {"release", "lift", "relContact"}
    BY <1>0, <1>8, <2>3, SucceedsDoes, ReceivedIs
  <2>4. CASE Op0 \in {"keyboard", "keys", "relKeys"}
    BY <1>0, <1>8, <2>4, SucceedsDoes, ReceivedIs
  <2>5. CASE Op0 \in {"pasteboard", "indigo", "press", "unpress"}
    BY <1>0, <1>8, <2>5, SucceedsDoes, ReceivedIs
  <2>6. CASE Op0 = "closeHid"
    BY <1>0, <1>8, <2>6, SucceedsDoes, ReceivedIs
  <2>7. CASE Op0 = "closeIndigo"
    <3>1. CASE Stays
      BY <1>0, <1>8, <2>7, <3>1, SucceedsDoes, ReceivedIs
    <3>2. CASE Advances
      <4>1. UNCHANGED <<hid, contact, keyboard, reported>> /\ phone'.contact = phone.contact
            /\ phone'.keys = phone.keys
        BY <1>0, <1>8, <2>7, SucceedsDoes, ReceivedIs
      <4> HIDE DEF Working
      <4> QED
        BY <2>7, <3>2, <4>1, CloseIndigoAt DEF NothingHeld
    <3> QED
      BY <1>0, <1>8, <2>7, <3>1, <3>2, SucceedsDoes
  <2>8. CASE Op0 \in {"enable", "report", "disable", "clear", "noKeyboard"}
    BY <1>0, <1>8, <2>8, SucceedsDoes, ReceivedIs
  <2> QED
    BY <1>0, <1>8, SucceedsDoes, <2>1, <2>2, <2>3, <2>4, <2>5, <2>6, <2>7, <2>8, Op0Is
       DEF Fragile, Suppressed, Local
<1>9. CASE Fails("handler")
  <2>1. CASE Op0 \in {"ensure", "reconnect"}
    BY <1>0, <1>9, <2>1, FailsDoes, ReceivedIs DEF FailsOver, Suppressed, Releases
  <2>2. CASE Op0 \in {"contact", "drag"}
    BY <1>0, <1>9, <2>2, FailsDoes, ReceivedIs DEF FailsOver, Suppressed, Releases
  <2>3. CASE Op0 \in {"release", "lift", "relContact"}
    BY <1>0, <1>9, <2>3, FailsDoes, ReceivedIs DEF FailsOver, Suppressed, Releases
  <2>4. CASE Op0 \in {"keyboard", "keys", "relKeys"}
    BY <1>0, <1>9, <2>4, FailsDoes, ReceivedIs DEF FailsOver, Suppressed, Releases
  <2>5. CASE Op0 \in {"pasteboard", "indigo", "press", "unpress"}
    BY <1>0, <1>9, <2>5, FailsDoes, ReceivedIs DEF FailsOver, Suppressed, Releases
  <2>6. CASE Op0 = "closeHid"
    BY <1>0, <1>9, <2>6, FailsDoes, ReceivedIs DEF FailsOver, Suppressed, Releases
  <2>7. CASE Op0 = "closeIndigo"
    <3>1. CASE Stays
      BY <1>0, <1>9, <2>7, <3>1, FailsDoes, ReceivedIs DEF FailsOver, Suppressed, Releases
    <3>2. CASE Advances
      <4>1. UNCHANGED <<hid, contact, keyboard, reported>> /\ phone'.contact = phone.contact
            /\ phone'.keys = phone.keys
        BY <1>0, <1>9, <2>7, FailsDoes, ReceivedIs
      <4> HIDE DEF Working
      <4> QED
        BY <2>7, <3>2, <4>1, CloseIndigoAt DEF NothingHeld
    <3> QED
      BY <1>0, <1>9, <2>7, <3>1, <3>2, FailsDoes DEF FailsOver, Suppressed, Releases
  <2>8. CASE Op0 \in {"enable", "report", "disable", "clear", "noKeyboard"}
    BY <1>0, <1>9, <2>8, FailsDoes, ReceivedIs DEF FailsOver, Suppressed, Releases
  <2> QED
    BY <1>0, <1>9, FailsDoes, <2>1, <2>2, <2>3, <2>4, <2>5, <2>6, <2>7, <2>8, Op0Is
       DEF Fragile, Suppressed, Local
<1> QED
  BY <1>1, <1>2, <1>3, <1>4, <1>5, <1>6, <1>7, <1>8, <1>9 DEF TaskStep, Answer

(* The conditions about the keys are kept by the handler.                    *)
LEMMA KeysStep ==
  ASSUME Working, TaskStep("handler") \/ Answer("handler"), ~lost'
  PROVE  KeysBefore(Todo)'
<1>0. Typed
  BY DEF Working
<1> USE WorkingAt, WorkingGoes
    DEF Working, Local, After, Settled, NeedsHid, TouchBefore,
        TouchDuring, KeysBefore, KeysAgree, KeysReleasable
<1>1. CASE EnsureHid("handler")
  BY <1>0, <1>1, EnsureHidDoes DEF FailsOver, Suppressed
<1>2. CASE EnsureIndigo("handler")
  BY <1>0, <1>2, EnsureIndigoDoes DEF FailsOver, Suppressed
<1>3. CASE SendTouch("handler")
  BY <1>0, <1>3, SendTouchDoes DEF FailsOver, Suppressed
<1>4. CASE SendKeys("handler")
  BY <1>0, <1>4, SendKeysDoes DEF FailsOver, Suppressed
<1>5. CASE SendOther("handler")
  BY <1>0, <1>5, SendOtherDoes DEF FailsOver, Suppressed
<1>6. CASE CloseHid("handler") \/ CloseIndigo("handler")
  BY <1>0, <1>6, CloseDoes
<1>7. CASE Assign("handler")
  BY <1>0, <1>7, AssignDoes DEF Local
<1>8. CASE Succeeds("handler")
  <2>1. CASE Op0 \in {"ensure", "reconnect"}
    BY <1>0, <1>8, <2>1, SucceedsDoes, ReceivedIs
  <2>2. CASE Op0 \in {"contact", "drag"}
    BY <1>0, <1>8, <2>2, SucceedsDoes, ReceivedIs
  <2>3. CASE Op0 \in {"release", "lift", "relContact"}
    BY <1>0, <1>8, <2>3, SucceedsDoes, ReceivedIs
  <2>4. CASE Op0 \in {"keyboard", "keys", "relKeys"}
    BY <1>0, <1>8, <2>4, SucceedsDoes, ReceivedIs
  <2>5. CASE Op0 \in {"pasteboard", "indigo", "press", "unpress"}
    BY <1>0, <1>8, <2>5, SucceedsDoes, ReceivedIs
  <2>6. CASE Op0 = "closeHid"
    BY <1>0, <1>8, <2>6, SucceedsDoes, ReceivedIs
  <2>7. CASE Op0 = "closeIndigo"
    <3>1. CASE Stays
      BY <1>0, <1>8, <2>7, <3>1, SucceedsDoes, ReceivedIs
    <3>2. CASE Advances
      <4>1. UNCHANGED <<hid, contact, keyboard, reported>> /\ phone'.contact = phone.contact
            /\ phone'.keys = phone.keys
        BY <1>0, <1>8, <2>7, SucceedsDoes, ReceivedIs
      <4> HIDE DEF Working
      <4> QED
        BY <2>7, <3>2, <4>1, CloseIndigoAt DEF NothingHeld
    <3> QED
      BY <1>0, <1>8, <2>7, <3>1, <3>2, SucceedsDoes
  <2>8. CASE Op0 \in {"enable", "report", "disable", "clear", "noKeyboard"}
    BY <1>0, <1>8, <2>8, SucceedsDoes, ReceivedIs
  <2> QED
    BY <1>0, <1>8, SucceedsDoes, <2>1, <2>2, <2>3, <2>4, <2>5, <2>6, <2>7, <2>8, Op0Is
       DEF Fragile, Suppressed, Local
<1>9. CASE Fails("handler")
  <2>1. CASE Op0 \in {"ensure", "reconnect"}
    BY <1>0, <1>9, <2>1, FailsDoes, ReceivedIs DEF FailsOver, Suppressed, Releases
  <2>2. CASE Op0 \in {"contact", "drag"}
    BY <1>0, <1>9, <2>2, FailsDoes, ReceivedIs DEF FailsOver, Suppressed, Releases
  <2>3. CASE Op0 \in {"release", "lift", "relContact"}
    BY <1>0, <1>9, <2>3, FailsDoes, ReceivedIs DEF FailsOver, Suppressed, Releases
  <2>4. CASE Op0 \in {"keyboard", "keys", "relKeys"}
    BY <1>0, <1>9, <2>4, FailsDoes, ReceivedIs DEF FailsOver, Suppressed, Releases
  <2>5. CASE Op0 \in {"pasteboard", "indigo", "press", "unpress"}
    BY <1>0, <1>9, <2>5, FailsDoes, ReceivedIs DEF FailsOver, Suppressed, Releases
  <2>6. CASE Op0 = "closeHid"
    BY <1>0, <1>9, <2>6, FailsDoes, ReceivedIs DEF FailsOver, Suppressed, Releases
  <2>7. CASE Op0 = "closeIndigo"
    <3>1. CASE Stays
      BY <1>0, <1>9, <2>7, <3>1, FailsDoes, ReceivedIs DEF FailsOver, Suppressed, Releases
    <3>2. CASE Advances
      <4>1. UNCHANGED <<hid, contact, keyboard, reported>> /\ phone'.contact = phone.contact
            /\ phone'.keys = phone.keys
        BY <1>0, <1>9, <2>7, FailsDoes, ReceivedIs
      <4> HIDE DEF Working
      <4> QED
        BY <2>7, <3>2, <4>1, CloseIndigoAt DEF NothingHeld
    <3> QED
      BY <1>0, <1>9, <2>7, <3>1, <3>2, FailsDoes DEF FailsOver, Suppressed, Releases
  <2>8. CASE Op0 \in {"enable", "report", "disable", "clear", "noKeyboard"}
    BY <1>0, <1>9, <2>8, FailsDoes, ReceivedIs DEF FailsOver, Suppressed, Releases
  <2> QED
    BY <1>0, <1>9, FailsDoes, <2>1, <2>2, <2>3, <2>4, <2>5, <2>6, <2>7, <2>8, Op0Is
       DEF Fragile, Suppressed, Local
<1> QED
  BY <1>1, <1>2, <1>3, <1>4, <1>5, <1>6, <1>7, <1>8, <1>9 DEF TaskStep, Answer

-----------------------------------------------------------------------------
(* The invariant.                                                            *)

(* The cases of a step: a command, a step of the handler, one that does      *)
(* nothing to the handler.                                                   *)
LEMMA StepCases ==
  ASSUME Typed, ShapeOk, [Next]_vars, tunnel' # "closed"
  PROVE  \/ \E c \in Commands : Handle(c)
         \/ TaskStep("handler") \/ Answer("handler")
         \/ Quiet
<1>1. ASSUME NEW t \in Tasks, TaskStep(t) \/ Answer(t)
      PROVE  Quiet \/ TaskStep("handler") \/ Answer("handler")
  BY <1>1, OtherQuiet DEF Tasks
<1> QED
  BY <1>1, OtherQuiet DEF Next

(* The handler has taken a command.                                          *)
LEMMA HandleDoes ==
  ASSUME Typed, NEW c \in Commands, Handle(c)
  PROVE  /\ Todo = <<>> /\ ~Waiting("handler")
         /\ Todo' = Program(c) /\ ~Waiting("handler")'
         /\ command'.name = c.name /\ command'.keys = c.keys
         /\ UNCHANGED <<tunnel, hid, contact, reported, keyboard, phone, lost>>
<1>1. /\ Todo = <<>> /\ ~Waiting("handler") /\ Continue("handler", Program(c))
      /\ command'.name = c.name /\ command'.keys = c.keys
      /\ UNCHANGED <<tunnel, hid, contact, reported, keyboard, phone, lost>>
  BY DEF Handle, HandlerIdle, Idle, Todo, Waiting, serviceVars, heldVars, historyVars
<1>2. task'["handler"] = [todo |-> Program(c), at |-> "run"]
  BY <1>1, ProgramList, ContinueType DEF Typed, Tasks
<1> QED
  BY <1>1, <1>2 DEF Todo, Waiting

(* A handler at work stands in a linked list.                                *)
LEMMA HandlerAt ==
  ASSUME Typed, ShapeOk, tunnel # "closed", TaskStep("handler") \/ Answer("handler")
  PROVE  At
  BY Moves DEF At, ShapeOk, Typed

(* A release that has been lost stays lost.                                  *)
LEMMA LostStays ==
  ASSUME Typed, TaskStep("handler") \/ Answer("handler"), ~lost'
  PROVE  ~lost
<1>1. CASE TaskStep("handler") \/ Succeeds("handler")
  BY <1>1 DEF TaskStep, EnsureHid, EnsureIndigo, SendTouch, SendKeys, SendOther,
              CloseHid, CloseIndigo, Assign, Succeeds, historyVars
<1>2. CASE Fails("handler")
  BY <1>2, FailsDoes
<1> QED
  BY <1>1, <1>2 DEF Answer

(* The conditions of the operations are kept by every step.                  *)
LEMMA SyncStep == SyncOk /\ [Next]_vars => SyncOk'
<1> SUFFICES ASSUME SyncOk, [Next]_vars PROVE SyncOk'
  OBVIOUS
<1>1. Typed' /\ ShapeOk'
  BY TypeStep, ShapeStep DEF SyncOk
<1>2. ASSUME Live'
      PROVE  /\ IF Waiting("handler")' THEN TouchDuring(Todo)' ELSE TouchBefore(Todo)'
             /\ KeysBefore(Todo)'
  <2>0. Typed /\ ShapeOk /\ tunnel' # "closed" /\ ~lost'
    BY <1>2 DEF SyncOk, Live
  <2>1. CASE \E c \in Commands : Handle(c)
    <3>1. PICK c \in Commands : Handle(c)
      BY <2>1
    <3>2. /\ Todo = <<>> /\ ~Waiting("handler")
          /\ Todo' = Program(c) /\ ~Waiting("handler")'
          /\ UNCHANGED <<tunnel, hid, contact, reported, keyboard, phone, lost>>
      BY <2>0, <3>1, HandleDoes
    <3>3. TouchAgrees /\ KeysAgree
      BY <2>0, <3>2 DEF SyncOk, TouchOk, KeysOk, Live, TouchBefore, KeysBefore, First,
                        FirstOr, Stop, Op, Settled
    <3>4. First(Program(c)).op
            \in {"ensure", "reconnect", "indigo", "pasteboard", "relContact"}
      BY ProgramList
    <3> QED
      BY <3>2, <3>3, <3>4
         DEF TouchBefore, KeysBefore, TouchAgrees, KeysAgree, KeysReleasable, NeedsHid,
             TouchKnown
  <2>2. CASE TaskStep("handler") \/ Answer("handler")
    <3>1. tunnel # "closed" /\ ~lost
      BY <2>0, <2>2, Moves, LostStays
    <3>2. Working
      BY <2>0, <2>2, <3>1, HandlerAt DEF Working, SyncOk, TouchOk, KeysOk, Live
    <3> QED
      BY <2>0, <2>2, <3>2, TouchStep, KeysStep
  <2>3. CASE Quiet
    <3>1. /\ IF Waiting("handler") THEN TouchDuring(Todo) ELSE TouchBefore(Todo)
          /\ KeysBefore(Todo)
      BY <2>0, <2>3 DEF Quiet, SyncOk, TouchOk, KeysOk, Live
    <3>2. Todo' = Todo /\ (Waiting("handler")' <=> Waiting("handler"))
      BY <2>3 DEF Quiet, Todo, Waiting
    <3>3. /\ UNCHANGED <<contact, reported, keyboard, phone>>
          /\ hid # "none" => hid' # "none"
      BY <2>3 DEF Quiet
    <3> QED
      BY <3>1, <3>2, <3>3
         DEF TouchBefore, TouchDuring, KeysBefore, TouchAgrees, KeysAgree,
             KeysReleasable, TouchKnown, NoTouch
  <2> QED
    BY <1>2, <2>0, <2>1, <2>2, <2>3, StepCases
<1> QED
  BY <1>1, <1>2 DEF SyncOk, TouchOk, KeysOk, TouchDuring, TouchBefore, KeysBefore, Live

(* The next report to be sent keeps modifiers and letters apart from the     *)
(* reported ones.                                                            *)
LEMMA ApartStep == Typed /\ ShapeOk /\ ApartOk /\ [Next]_vars => ApartOk'
<1> SUFFICES ASSUME Typed, ShapeOk, ApartOk, [Next]_vars,
                    tunnel' # "closed", First(Todo').op = "keys"
             PROVE  Apart(reported', First(Todo').keys)
  BY DEF ApartOk, First, FirstOr, Apart, Stop, Op
<1>1. CASE \E c \in Commands : Handle(c)
  BY <1>1, HandleDoes, ProgramList
<1>2. CASE Quiet
  BY <1>2 DEF Quiet, Todo, ApartOk
<1>3. CASE TaskStep("handler") \/ Answer("handler")
  <2>0. tunnel # "closed" /\ At
    BY <1>3, Moves, HandlerAt
  <2>1. First(Todo) = Now("handler") /\ (First(Todo).op = "keys" <=> Op0 = "keys")
    BY <2>0, Stands DEF At, Op0
  <2>2. CASE Stays /\ UNCHANGED reported
    BY <2>0, <2>2, StayTo DEF ApartOk
  <2>3. CASE Advances /\ (Op0 = "keys" => reported' = Now("handler").keys)
    <3>1. First(Todo') = First(Rest("handler"))
          /\ Follows(Now("handler"), First(Rest("handler")))
      BY <2>0, <2>3, AdvanceTo
    <3>2. Op0 = "keys"
      BY <3>1 DEF Follows, After, Op0
    <3> QED
      BY <2>3, <3>1, <3>2 DEF Follows, Op0
  <2>4. CASE Recovers
    BY <2>4, RecoverTo, RecoveryList
  <2>5. CASE Expands /\ UNCHANGED reported
    BY <2>0, <2>5, ExpandTo
  <2>6. \/ Stays /\ UNCHANGED reported
        \/ Advances /\ (Op0 = "keys" => reported' = Now("handler").keys)
        \/ Recovers
        \/ Expands /\ UNCHANGED reported
    <3>1. CASE EnsureHid("handler") \/ EnsureIndigo("handler") \/ SendOther("handler")
               \/ CloseHid("handler") \/ CloseIndigo("handler")
      BY <3>1, EnsureHidDoes, EnsureIndigoDoes, SendOtherDoes, CloseDoes
         DEF FailsOver, Suppressed
    <3>2. CASE SendTouch("handler") \/ SendKeys("handler")
      BY <3>2, SendTouchDoes, SendKeysDoes DEF FailsOver, Suppressed
    <3>3. CASE Assign("handler")
      BY <3>3, AssignDoes DEF Local
    <3>4. CASE Succeeds("handler")
      BY <3>4, SucceedsDoes
    <3>5. CASE Fails("handler")
      <4>1. FailsOver
        BY <3>5, Outcome DEF Fails
      <4> QED
        BY <4>1 DEF FailsOver, Suppressed
    <3> QED
      BY <1>3, <3>1, <3>2, <3>3, <3>4, <3>5 DEF TaskStep, Answer
  <2> QED
    BY <2>2, <2>3, <2>4, <2>5, <2>6
<1> QED
  BY <1>1, <1>2, <1>3, StepCases

\* What the operation that ended has done.
Effect ==
  CASE Op0 = "contact" -> contact'
    [] Op0 \in {"release", "lift"} -> ~contact'
    [] Op0 = "keys" -> reported' = Now("handler").keys
    [] Op0 = "unpress" -> ~phone'.button
    [] Op0 = "clear" -> reported' = {} /\ ~phone'.contact
    [] OTHER -> TRUE

(* An operation a working handler leaves behind, short of a failure, has had *)
(* its effect.                                                               *)
LEMMA Effects ==
  ASSUME Working, TaskStep("handler") \/ Answer("handler"), ~lost'
  PROVE  \/ Recovers
         \/ Stays \/ Expands
         \/ Advances /\ Op0 # "report" /\ Effect
<1>0. Typed
  BY DEF Working
<1> USE WorkingAt DEF Effect
<1>1. CASE EnsureHid("handler") \/ EnsureIndigo("handler") \/ SendOther("handler")
             \/ CloseHid("handler") \/ CloseIndigo("handler")
  BY <1>0, <1>1, EnsureHidDoes, EnsureIndigoDoes, SendOtherDoes, CloseDoes
     DEF FailsOver, Suppressed
<1>2. CASE SendTouch("handler")
  <2>1. Op0 = "lift" => hid # "none"
    BY <1>0, <1>2, SendTouchDoes DEF Working, TouchBefore, NeedsHid
  <2> QED
    BY <1>0, <1>2, <2>1, SendTouchDoes DEF FailsOver, Suppressed
<1>3. CASE SendKeys("handler")
  BY <1>0, <1>3, SendKeysDoes DEF FailsOver, Suppressed
<1>4. CASE Assign("handler")
  <2>1. Op0 = "clear" => ~phone.contact
    BY <1>0, <1>4, AssignDoes DEF Working, TouchBefore, NoTouch
  <2> QED
    BY <1>0, <1>4, <2>1, AssignDoes DEF Local
<1>5. CASE Succeeds("handler")
  <2>1. /\ Op0 = "contact" => contact
        /\ Op0 \in {"release", "lift"} => ~contact
        /\ Op0 \notin {"clear", "report"}
    BY <1>0, <1>5, SucceedsDoes DEF Working, TouchDuring, Local
  <2> QED
    BY <1>0, <1>5, <2>1, SucceedsDoes, ReceivedIs
<1>6. CASE Fails("handler")
  <2>1. Op0 = "lift" => ~contact
    BY <1>0, <1>6, FailsDoes DEF Working, TouchDuring
  <2> QED
    BY <1>0, <1>6, <2>1, FailsDoes DEF FailsOver, Suppressed
<1> QED
  BY <1>1, <1>2, <1>3, <1>4, <1>5, <1>6 DEF TaskStep, Answer

(* A command without a failure is on its way to its last operation, or done. *)
LEMMA DoneStep == SyncOk /\ DoneOk /\ [Next]_vars => DoneOk'
<1> SUFFICES ASSUME SyncOk, DoneOk, [Next]_vars, Live', ~command'.failed
             PROVE  IF Todo' = <<>> THEN Done(command)'
                                     ELSE (Todo[Len(Todo)] \in Last(command))'
  BY DEF DoneOk, Live
<1>0. Typed /\ ShapeOk /\ tunnel' # "closed" /\ ~lost' /\ SyncOk'
  BY SyncStep DEF SyncOk, Live
<1>1. CASE \E c \in Commands : Handle(c)
  <2>1. PICK c \in Commands : Handle(c)
    BY <1>1
  <2>2. Todo' = Program(c) /\ command'.name = c.name /\ command'.keys = c.keys
    BY <1>0, <2>1, HandleDoes
  <2>3. Program(c) # <<>> /\ Program(c)[Len(Program(c))] \in Last(c)
    BY ProgramList
  <2>4. Last(command)' = Last(c)
    BY <2>2 DEF Last, Valid, Keys, Op
  <2> QED
    BY <2>2, <2>3, <2>4
<1>2. CASE Quiet
  <2>1. Live /\ ~command.failed
    BY <1>0, <1>2 DEF Quiet, Live
  <2>2. Todo' = Todo /\ UNCHANGED <<command, phone>>
    BY <1>2 DEF Quiet, Todo
  <2> QED
    BY <2>1, <2>2 DEF DoneOk, Done, Last, Valid
<1>3. CASE TaskStep("handler") \/ Answer("handler")
  <2>1. tunnel # "closed" /\ ~lost /\ Todo # <<>>
    BY <1>0, <1>3, Moves, LostStays
  <2>2. Working
    BY <1>0, <1>3, <2>1, HandlerAt DEF Working, SyncOk, TouchOk, KeysOk, Live
  <2>3. CASE Recovers
    BY <2>3, RecoverTo
  <2>4. ASSUME Stays \/ Expands \/ Advances
        PROVE  UNCHANGED command /\ Todo[Len(Todo)] \in Last(command)
    <3>1. UNCHANGED command
      BY <2>4 DEF Stays, Expands, Advances
    <3> QED
      BY <2>1, <3>1 DEF DoneOk, Live
  <2>5. CASE Stays
    <3>1. Todo' = Todo
      BY <2>5, StayTo
    <3> QED
      BY <2>1, <2>4, <2>5, <3>1 DEF Last, Valid
  <2>6. CASE Expands
    <3>1. /\ Todo' # <<>>
          /\ (Todo[Len(Todo)])' \in {Keys("keys", Now("handler").keys), Todo[Len(Todo)]}
          /\ (Todo[Len(Todo)])' # Todo[Len(Todo)] => Todo[Len(Todo)] = Now("handler")
      BY <2>2, <2>6, ExpandTo DEF Working
    <3>2. CASE (Todo[Len(Todo)])' = Todo[Len(Todo)]
      BY <2>4, <2>6, <3>1, <3>2 DEF Last, Valid
    <3>3. CASE /\ (Todo[Len(Todo)])' = Keys("keys", Now("handler").keys)
               /\ Todo[Len(Todo)] = Now("handler")
      <4>1. Now("handler") \in Last(command) /\ Op0 = "report"
        BY <2>4, <2>6, <3>3 DEF Expands, Op0
      <4>2. Keys("keys", Now("handler").keys) \in Last(command)
        BY <4>1 DEF Last, Keys, Op, Op0
      <4> QED
        BY <2>4, <2>6, <3>1, <3>3, <4>2 DEF Last, Valid
    <3> QED
      BY <3>1, <3>2, <3>3
  <2>7. CASE Advances /\ Op0 # "report" /\ Effect
    <3>1. /\ Todo' = <<>> => Todo[Len(Todo)] = Now("handler")
          /\ Todo' # <<>> => (Todo[Len(Todo)])' = Todo[Len(Todo)]
          /\ ~Waiting("handler")'
      BY <2>2, <2>7, AdvanceTo DEF Working
    <3>2. CASE Todo' # <<>>
      BY <2>4, <2>7, <3>1, <3>2 DEF Last, Valid
    <3>3. CASE Todo' = <<>>
      <4>1. Now("handler") \in Last(command) /\ UNCHANGED command
        BY <2>4, <2>7, <3>1, <3>3
      <4>2. (phone.contact <=> contact)' /\ phone'.keys = reported'
        BY <1>0, <3>1, <3>3
           DEF SyncOk, TouchOk, KeysOk, TouchBefore, KeysBefore, First, FirstOr, Stop, Op,
               Settled, TouchAgrees, KeysAgree
      <4> QED
        BY <2>7, <3>3, <4>1, <4>2 DEF Last, Effect, Done, Keys, Op, Op0, Valid
    <3> QED
      BY <3>2, <3>3
  <2> QED
    BY <1>0, <1>3, <2>2, <2>3, <2>5, <2>6, <2>7, Effects
<1> QED
  BY <1>0, <1>1, <1>2, <1>3, StepCases

-----------------------------------------------------------------------------
(* The theorems.                                                             *)

(* The worker and the phone agree at the start.                              *)
LEMMA InitOk == Init => IInv
<1> SUFFICES ASSUME Init PROVE IInv
  OBVIOUS
<1>1. Typed
  BY InitTyped
<1>2. Todo = <<>> /\ ~Waiting("handler") /\ task["session"].todo = <<>>
  BY DEF Init, Todo, Idle, Waiting, Tasks
<1>3. ShapeOk
  BY <1>2 DEF ShapeOk, Linked, Chain
<1>4. TouchOk /\ KeysOk /\ ApartOk
  BY <1>2 DEF Init, TouchOk, KeysOk, ApartOk, TouchBefore, KeysBefore, First, FirstOr,
              Stop, Op, TouchAgrees, KeysAgree, KeysReleasable, NeedsHid
<1>5. DoneOk
  BY <1>2 DEF Init, DoneOk, Done
<1> QED
  BY <1>1, <1>3, <1>4, <1>5 DEF IInv, SyncOk

(* The invariant is inductive.                                               *)
LEMMA IInvHolds == Spec0 => []IInv
<1>1. IInv /\ [Next]_vars => IInv'
  BY SyncStep, ApartStep, DoneStep DEF IInv, SyncOk
<1> QED
  BY <1>1, InitOk, PTL DEF Spec0

(* As long as no release was lost, the worker knows what the phone holds     *)
(* whenever it is between commands, whatever has failed and been recovered.  *)
THEOREM InSyncHolds == Spec => []InSync
<1>1. IInv => InSync
  <2> SUFFICES ASSUME IInv, HandlerIdle, tunnel = "open", ~lost
               PROVE  phone.contact = contact /\ phone.keys = reported
    BY DEF InSync
  <2>1. Todo = <<>> /\ ~Waiting("handler")
    BY DEF HandlerIdle, Idle, Todo, Waiting
  <2>2. (phone.contact <=> contact) /\ phone.keys = reported
    BY <2>1 DEF IInv, SyncOk, TouchOk, KeysOk, Live, TouchBefore, KeysBefore, First,
                FirstOr, Stop, Op, Settled, TouchAgrees, KeysAgree
  <2>3. phone.contact \in BOOLEAN /\ contact \in BOOLEAN
    BY DEF IInv, SyncOk, Typed, PhoneType, FlagType
  <2>4. phone.contact = contact
    BY Zenon, <2>2, <2>3
  <2> QED
    BY <2>2, <2>4
<1> QED
  BY <1>1, IInvHolds, PTL DEF Spec

(* A command that met no failure, with no release lost before, has made the  *)
(* phone hold what it asked for: a click, the keys, or nothing.              *)
THEOREM CommandDoneHolds == Spec => []CommandDone
<1>1. IInv => CommandDone
  BY DEF IInv, DoneOk, CommandDone, HandlerIdle, Idle, Todo, Live
<1> QED
  BY <1>1, IInvHolds, PTL DEF Spec

(* A step that changes what keys the phone holds, other than to none, is the *)
(* answer to a key report of the handler.                                    *)
LEMMA ReportsApart ==
  ASSUME SyncOk, ApartOk, [Next]_vars, ~lost, phone'.keys # {}
  PROVE  Apart(phone.keys, phone'.keys)
<1>1. CASE phone'.keys = phone.keys
  BY <1>1 DEF Apart
<1>2. CASE phone'.keys # phone.keys
  <2>1. PICK t \in Tasks : /\ Answer(t) /\ Reachable(t) /\ Now(t).op = "keys"
                           /\ phone'.keys = Now(t).keys /\ Waiting(t)
    <3>1. PICK t \in Tasks : Answer(t)
      BY <1>2 DEF Next, vars, Handle, TaskStep, EnsureHid, EnsureIndigo, SendTouch,
                  SendKeys, SendOther, CloseHid, CloseIndigo, Assign, OpenTunnel,
                  WarmInput, Run, LeaveTunnel, End, Over
    <3>2. phone' = Received(t) /\ Reachable(t) /\ Waiting(t)
      BY <1>2, <3>1 DEF Answer, Succeeds, Fails
    <3>3. Now(t).op = "keys" /\ phone'.keys = Now(t).keys
      BY <1>2, <3>2 DEF Received, SyncOk, Typed, PhoneType
    <3> QED
      BY <3>1, <3>2, <3>3
  <2>2. tunnel # "closed"
    BY <2>1 DEF Reachable
  <2>3. t = "handler"
    <3>1. CASE t = "session"
      <4>1. task["session"].todo # <<>>
        BY <2>1, <3>1, NowType DEF SyncOk, Typed
      <4>2. task["session"].todo = <<Op("warm")>>
        BY <2>2, <4>1 DEF SyncOk, ShapeOk
      <4> QED
        BY <2>1, <3>1, <4>2 DEF Now, Op
    <3> QED
      BY <2>1, <3>1 DEF Tasks
  <2>4. At
    BY <2>1, <2>2, <2>3, HandlerAt DEF SyncOk
  <2>5. First(Todo) = Now("handler")
    BY <2>4, Stands DEF At
  <2>6. Apart(reported, phone'.keys)
    BY <2>1, <2>2, <2>3, <2>5 DEF ApartOk
  <2>7. phone.keys = reported
    BY <2>1, <2>2, <2>3, <2>5 DEF SyncOk, KeysOk, Live, KeysBefore, Settled, KeysAgree
  <2> QED
    BY <2>6, <2>7
<1> QED
  BY <1>1, <1>2

(* No report changes modifiers and letters at once, save for one that        *)
(* releases everything.                                                      *)
THEOREM ModifiersApartHolds == Spec => ModifiersApart
<1>1. ASSUME IInv, [Next]_vars
      PROVE  ~lost /\ phone'.keys # {}
               => \/ phone'.keys \cap Mods = phone.keys \cap Mods
                  \/ phone'.keys \cap Letters = phone.keys \cap Letters
  BY <1>1, ReportsApart DEF Apart, IInv
<1> QED
  BY <1>1, IInvHolds, PTL DEF Spec, Spec0, ModifiersApart

=============================================================================
