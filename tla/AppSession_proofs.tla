--------------------------- MODULE AppSession_proofs ---------------------------
(***************************************************************************)
(* Theorems about the session of the Windows window, for any number of     *)
(* methods in progress, of players and of attempts to reconnect.           *)
(*                                                                         *)
(* A method in progress is the list of the operations it has left.  Which  *)
(* operation may follow which is all that the proofs need to know of the   *)
(* lists; what each method still owes to the others is said by the         *)
(* operation at its head.                                                  *)
(***************************************************************************)
EXTENDS AppSession, TLAPS

Ops == {"stop?", "connect?", "release", "stop", "dispose", "relay", "stopped", "ensure",
        "host", "player", "start", "connected", "clear", "cleared", "react", "delay",
        "watch", "reconnected", "closeWorker", "closed"}

Before(s, i, o, os) == s[i] = o => i < Len(s) /\ s[i + 1] \in os
Only(s, i, o, os) == s[i] = o /\ i < Len(s) => s[i + 1] \in os

\* What follows the operation at i
Link(s, i) ==
  /\ Before(s, i, "stop?", {"release"}) /\ Before(s, i, "connect?", {"release"})
  /\ Before(s, i, "release", {"stop"}) /\ Before(s, i, "stop", {"dispose"})
  /\ Before(s, i, "dispose", {"relay"}) /\ Before(s, i, "clear", {"relay"})
  /\ Before(s, i, "relay", {"stopped", "cleared"})
  /\ Only(s, i, "stopped", {"ensure", "watch", "closeWorker"})
  /\ Before(s, i, "ensure", {"host"}) /\ Before(s, i, "host", {"player"})
  /\ Before(s, i, "player", {"start"}) /\ Before(s, i, "start", {"connected"})
  /\ Only(s, i, "connected", {"watch"}) /\ Only(s, i, "cleared", {"react"})
  /\ Only(s, i, "delay", {"connect?"}) /\ Before(s, i, "watch", {"reconnected"})
  /\ Before(s, i, "closeWorker", {"closed"})
  /\ Only(s, i, "react", {}) /\ Only(s, i, "reconnected", {}) /\ Only(s, i, "closed", {})
  /\ s[i] = "dispose" => i + 1 < Len(s) /\ s[i + 2] = "stopped"
  /\ s[i] = "clear" => i + 1 < Len(s) /\ s[i + 2] = "cleared"
  /\ s[i] = "connect?" => i + 9 < Len(s) /\ s[i + 10] = "connected"

Chained(s) == s \in Seq(Ops) /\ \A i \in 1..Len(s) : Link(s, i)

-----------------------------------------------------------------------------
(* Lists of operations.                                                      *)

\* What a method has left is chained as its list is.
LEMMA SuffixChained ==
  ASSUME NEW s, Chained(s), NEW i \in 1..Len(s)
  PROVE  /\ Chained(SubSeq(s, i + 1, Len(s)))
         /\ Len(SubSeq(s, i + 1, Len(s))) = Len(s) - i
         /\ \A j \in 1..(Len(s) - i) : SubSeq(s, i + 1, Len(s))[j] = s[i + j]
<1> DEFINE t == SubSeq(s, i + 1, Len(s))
<1>1. s \in Seq(Ops) /\ Len(s) \in Nat /\ i \in Nat
  BY DEF Chained
<1>2. t \in Seq(Ops) /\ Len(t) = Len(s) - i /\ \A j \in 1..Len(t) : t[j] = s[i + j]
  BY <1>1
<1> HIDE DEF t
<1>3. ASSUME NEW j \in 1..Len(t)
      PROVE  Link(t, j)
  <2>0. j \in Nat /\ j <= Len(t) /\ i + j \in 1..Len(s) /\ t[j] = s[i + j]
    BY <1>1, <1>2, <1>3
  <2>n. ASSUME NEW n \in Nat, j + n <= Len(t)
        PROVE  t[j + n] = s[(i + j) + n]
    <3>1. j + n \in 1..Len(t) /\ i + (j + n) = (i + j) + n
      BY <1>1, <1>2, <1>3, <2>0, <2>n
    <3> QED
      BY <1>2, <3>1
  <2>1. /\ j < Len(t) <=> i + j < Len(s)
        /\ j + 1 < Len(t) <=> (i + j) + 1 < Len(s)
        /\ j + 9 < Len(t) <=> (i + j) + 9 < Len(s)
    BY <1>1, <1>2, <2>0
  <2>3. /\ j < Len(t) => t[j + 1] = s[(i + j) + 1]
        /\ j + 1 < Len(t) => t[j + 2] = s[(i + j) + 2]
        /\ j + 9 < Len(t) => t[j + 10] = s[(i + j) + 10]
    BY <1>1, <1>2, <2>0, <2>n
  <2>2. Link(s, i + j)
    BY <2>0 DEF Chained
  <2> QED
    BY <2>0, <2>1, <2>2, <2>3 DEF Link, Before, Only
<1> QED
  BY <1>2, <1>3 DEF Chained, t

\* After skips to what follows the mark.
LEMMA AfterChained ==
  ASSUME NEW s, Chained(s), NEW mark, \E k \in 1..Len(s) : s[k] = mark
  PROVE  /\ Chained(After(s, mark))
         /\ \E i \in 1..Len(s) : /\ s[i] = mark /\ Link(s, i)
                                 /\ Len(After(s, mark)) = Len(s) - i
                                 /\ i < Len(s) => After(s, mark)[1] = s[i + 1]
                                 /\ i + 1 < Len(s) => After(s, mark)[2] = s[i + 2]
<1> DEFINE i == CHOOSE j \in DOMAIN s : s[j] = mark
<1>1. s \in Seq(Ops) /\ DOMAIN s = 1..Len(s) /\ Len(s) \in Nat
  BY DEF Chained
<1>2. i \in 1..Len(s) /\ s[i] = mark
  BY <1>1
<1>3. After(s, mark) = SubSeq(s, i + 1, Len(s))
  BY DEF After
<1> HIDE DEF i
<1>4. Link(s, i)
  BY <1>2 DEF Chained
<1>5. /\ Chained(After(s, mark)) /\ Len(After(s, mark)) = Len(s) - i
      /\ \A j \in 1..(Len(s) - i) : After(s, mark)[j] = s[i + j]
  BY <1>2, <1>3, SuffixChained
<1>6. /\ i < Len(s) => After(s, mark)[1] = s[i + 1]
      /\ i + 1 < Len(s) => After(s, mark)[2] = s[i + 2]
  BY <1>1, <1>2, <1>5
<1> QED
  BY <1>2, <1>4, <1>5, <1>6

\* What may follow the end of a list
Joins(o, p) ==
  \/ o = "stopped" /\ p \in {"ensure", "watch", "closeWorker"}
  \/ o = "connected" /\ p = "watch"
  \/ o = "cleared" /\ p = "react"
  \/ o = "delay" /\ p = "connect?"

\* One list after another
LEMMA JoinChained ==
  ASSUME NEW a, Chained(a), NEW b, Chained(b), a # <<>>, b # <<>>,
         Joins(a[Len(a)], b[1])
  PROVE  Chained(a \o b) /\ a \o b # <<>> /\ (a \o b)[1] = a[1]
<1> DEFINE c == a \o b
           m == Len(a)
           n == Len(b)
<1>1. a \in Seq(Ops) /\ b \in Seq(Ops) /\ m \in Nat /\ n \in Nat /\ m > 0 /\ n > 0
  BY DEF Chained
<1>2. /\ c \in Seq(Ops) /\ Len(c) = m + n
      /\ \A i \in 1..m : c[i] = a[i]
      /\ \A i \in 1..n : c[m + i] = b[i]
  BY <1>1
<1> HIDE DEF c
<1>3. ASSUME NEW i \in 1..m
      PROVE  Link(c, i)
  <2>1. Link(a, i)
    BY <1>3 DEF Chained
  <2>2. /\ i \in Nat /\ c[i] = a[i]
        /\ i < m => i < Len(c)
        /\ i + 1 < m => i + 1 < Len(c)
        /\ i + 9 < m => i + 9 < Len(c)
    BY <1>1, <1>2, <1>3
  <2>5. ASSUME NEW k \in Nat, i + k <= m
        PROVE  c[i + k] = a[i + k]
    <3>1. i + k \in 1..m
      BY <1>1, <1>3, <2>5
    <3> QED
      BY <1>2, <3>1
  <2>6. /\ i < m => c[i + 1] = a[i + 1]
        /\ i + 1 < m => c[i + 2] = a[i + 2]
        /\ i + 9 < m => c[i + 10] = a[i + 10]
    BY <1>1, <2>2, <2>5
  <2>3. CASE i < m
    BY <1>1, <2>1, <2>2, <2>3, <2>6 DEF Link, Before, Only
  <2>4. CASE i = m
    <3>1. c[i + 1] = b[1] /\ Joins(c[i], c[i + 1])
      BY <1>1, <1>2, <2>2, <2>4
    <3>2. ~(i < m) /\ ~(i + 1 < m) /\ ~(i + 9 < m)
      BY <1>1, <2>4
    <3> QED
      BY <2>1, <2>2, <3>1, <3>2 DEF Link, Before, Only, Joins
  <2> QED
    BY <1>1, <1>3, <2>3, <2>4
<1>4. ASSUME NEW i \in 1..n
      PROVE  Link(c, m + i)
  <2>1. Link(b, i)
    BY <1>4 DEF Chained
  <2>2. /\ c[m + i] = b[i]
        /\ m + i < Len(c) <=> i < n
        /\ (m + i) + 1 < Len(c) <=> i + 1 < n
        /\ (m + i) + 9 < Len(c) <=> i + 9 < n
    BY <1>1, <1>2, <1>4
  <2>3. ASSUME NEW k \in Nat, i + k <= n
        PROVE  c[(m + i) + k] = b[i + k]
    <3>1. i + k \in 1..n /\ m + (i + k) = (m + i) + k
      BY <1>1, <1>4, <2>3
    <3> QED
      BY <1>2, <3>1
  <2>4. /\ i < n => c[(m + i) + 1] = b[i + 1]
        /\ i + 1 < n => c[(m + i) + 2] = b[i + 2]
        /\ i + 9 < n => c[(m + i) + 10] = b[i + 10]
    BY <1>1, <1>4, <2>3
  <2> QED
    BY <2>1, <2>2, <2>4 DEF Link, Before, Only
<1>5. ASSUME NEW i \in 1..Len(c)
      PROVE  Link(c, i)
  <2>1. CASE i \in 1..m
    BY <1>3, <2>1
  <2>2. CASE i \notin 1..m
    <3>1. i - m \in 1..n /\ m + (i - m) = i
      BY <1>1, <1>2, <1>5, <2>2
    <3> QED
      BY <1>4, <3>1
  <2> QED
    BY <2>1, <2>2
<1>6. Chained(c)
  BY <1>2, <1>5 DEF Chained
<1>7. c # <<>> /\ c[1] = a[1]
  BY <1>1, <1>2
<1> QED
  BY <1>6, <1>7 DEF c

\* The lists of the methods are chained.
LEMMA ListsChained ==
  /\ Chained(<<>>) /\ Chained(Stop) /\ Chained(Connect) /\ Chained(Reconnect)
  /\ Chained(Close) /\ Chained(Clear \o <<>>) /\ Chained(Clear \o <<"react">>)
  /\ Chained(Clear) /\ Chained(<<"reconnected">>)
<1>1. Chained(Stop) /\ Stop[Len(Stop)] = "stopped" /\ Stop # <<>>
  BY DEF Stop, Chained, Link, Before, Only, Ops
<1>2. Chained(Connect) /\ Connect[1] = "connect?" /\ Connect[Len(Connect)] = "connected"
        /\ Connect # <<>>
  BY DEF Connect, Chained, Link, Before, Only, Ops
<1>3. Chained(Clear) /\ Clear[Len(Clear)] = "cleared" /\ Clear # <<>>
  BY DEF Clear, Chained, Link, Before, Only, Ops
<1>4. /\ Chained(<<"delay">>) /\ Chained(<<"watch", "reconnected">>)
      /\ Chained(<<"reconnected">>) /\ Chained(<<"react">>)
      /\ Chained(<<"closeWorker", "closed">>)
  BY DEF Chained, Link, Before, Only, Ops
<1>5. Chained(<<>>)
  <2>1. <<>> \in Seq(Ops) /\ 1..Len(<<>>) = {}
    OBVIOUS
  <2> QED
    BY <2>1 DEF Chained
<1>6. Chained(Close)
  BY <1>1, <1>4, JoinChained DEF Close, Joins
<1>7. Chained(Clear \o <<"react">>)
  BY <1>3, <1>4, JoinChained DEF Joins
<1>8. Chained(Clear \o <<>>)
  <2>1. Clear \o <<>> = Clear
    BY DEF Clear
  <2> QED
    BY <1>3, <2>1
<1>9. Chained(Reconnect)
  <2> DEFINE d == <<"delay">> \o Connect
  <2>1. Chained(d) /\ d # <<>>
    BY <1>2, <1>4, JoinChained DEF Joins
  <2>2. d[Len(d)] = "connected"
    <3>1. Connect \in Seq(Ops) /\ Len(Connect) \in Nat /\ Len(Connect) > 0
      BY <1>2 DEF Chained
    <3>2. Len(d) = 1 + Len(Connect) /\ d[1 + Len(Connect)] = Connect[Len(Connect)]
      BY <3>1
    <3> QED
      BY <1>2, <3>2
  <2> HIDE DEF d
  <2>3. Chained(d \o <<"watch", "reconnected">>)
    BY <1>4, <2>1, <2>2, JoinChained DEF Joins
  <2> QED
    BY <2>3 DEF Reconnect, d
<1> QED
  BY <1>1, <1>2, <1>3, <1>4, <1>5, <1>6, <1>7, <1>8, <1>9

\* How a list begins
First(s, ops) == s # <<>> /\ Head(s) \in ops
FirstIfAny(s, ops) == s = <<>> \/ Head(s) \in ops

\* An attempt of the reconnection begins with its delay.
LEMMA ReconnectBegins == First(Reconnect, {"delay"})
<1> DEFINE d == <<"delay">> \o Connect
           e == <<"watch", "reconnected">>
<1>1. Connect \in Seq(Ops) /\ Chained(Reconnect)
  BY ListsChained DEF Chained
<1>2. <<"delay">> \in Seq(Ops) /\ e \in Seq(Ops)
  BY DEF Ops
<1>3. d \in Seq(Ops) /\ Len(d) \in Nat /\ Len(d) > 0 /\ d[1] = "delay"
  BY <1>1, <1>2
<1>4. Reconnect = d \o e
  BY DEF Reconnect
<1> HIDE DEF d, e
<1>5. Len(d \o e) > 0 /\ (d \o e)[1] = "delay" /\ d \o e \in Seq(Ops)
  BY <1>2, <1>3
<1> QED
  BY <1>4, <1>5 DEF First

\* What comes after the operation at the head
LEMMA Follows ==
  ASSUME NEW s, Chained(s), s # <<>>
  PROVE  /\ Chained(Tail(s)) /\ Head(s) \in Ops
         /\ Head(s) = "release" => First(Tail(s), {"stop"})
         /\ Head(s) = "stop" => First(Tail(s), {"dispose"})
         /\ Head(s) = "dispose" => First(Tail(s), {"relay"}) /\ Tail(s)[2] = "stopped"
         /\ Head(s) = "clear" => First(Tail(s), {"relay"}) /\ Tail(s)[2] = "cleared"
         /\ Head(s) = "relay" => First(Tail(s), {"stopped", "cleared"})
         /\ Head(s) = "relay" => Head(Tail(s)) = s[2]
         /\ Head(s) = "stopped" => FirstIfAny(Tail(s), {"ensure", "watch", "closeWorker"})
         /\ Head(s) = "cleared" => FirstIfAny(Tail(s), {"react"})
         /\ Head(s) = "ensure" => First(Tail(s), {"host"})
         /\ Head(s) = "host" => First(Tail(s), {"player"})
         /\ Head(s) = "player" => First(Tail(s), {"start"})
         /\ Head(s) = "start" => First(Tail(s), {"connected"})
         /\ Head(s) = "delay" => FirstIfAny(Tail(s), {"connect?"})
         /\ Head(s) = "watch" => First(Tail(s), {"reconnected"})
         /\ Head(s) = "closeWorker" => First(Tail(s), {"closed"})
         /\ Head(s) \in {"react", "reconnected", "closed"} => Tail(s) = <<>>
<1>1. s \in Seq(Ops) /\ Len(s) \in Nat /\ Len(s) > 0 /\ Head(s) = s[1]
  BY DEF Chained
<1>2. /\ Tail(s) = SubSeq(s, 1 + 1, Len(s)) /\ Tail(s) \in Seq(Ops)
      /\ Len(Tail(s)) = Len(s) - 1 /\ 1 \in 1..Len(s)
  BY <1>1
<1>3. Chained(Tail(s)) /\ Link(s, 1)
  <2>1. Chained(SubSeq(s, 1 + 1, Len(s)))
    BY <1>2, SuffixChained
  <2>2. Link(s, 1)
    BY <1>2 DEF Chained
  <2> QED
    BY <1>2, <2>1, <2>2
<1>4. /\ 1 < Len(s) => Tail(s) # <<>> /\ Head(Tail(s)) = s[2]
      /\ ~(1 < Len(s)) => Tail(s) = <<>>
      /\ 2 < Len(s) => Tail(s)[2] = s[3]
  <2>1. ASSUME 1 < Len(s)
        PROVE  Tail(s) # <<>> /\ Head(Tail(s)) = s[2]
    <3>1. Tail(s)[1] = s[2]
      BY <1>1, <2>1
    <3>2. Len(Tail(s)) > 0
      BY <1>1, <1>2, <2>1
    <3>3. \A t \in Seq(Ops) : Len(t) > 0 => t # <<>> /\ Head(t) = t[1]
      OBVIOUS
    <3> QED
      BY <1>2, <3>1, <3>2, <3>3
  <2>2. ASSUME ~(1 < Len(s))
        PROVE  Tail(s) = <<>>
    BY <1>1, <1>2, <2>2
  <2>3. ASSUME 2 < Len(s)
        PROVE  Tail(s)[2] = s[3]
    BY <1>1, <2>3
  <2> QED
    BY <2>1, <2>2, <2>3
<1>5. Head(s) \in Ops
  BY <1>1
<1> QED
  BY <1>1, <1>3, <1>4, <1>5 DEF Link, Before, Only, First, FirstIfAny

\* A stop that is entered or under way has its end before it, ...
LEMMA AfterStopped ==
  ASSUME NEW s, Chained(s), First(s, {"stop?", "dispose"})
  PROVE  /\ Chained(After(s, "stopped"))
         /\ FirstIfAny(After(s, "stopped"), {"ensure", "watch", "closeWorker"})
<1>1. s \in Seq(Ops) /\ Len(s) \in Nat /\ Len(s) > 0 /\ Head(s) = s[1]
        /\ \A i \in 1..Len(s) : Link(s, i)
  BY DEF Chained, First
<1>2. \E k \in 1..Len(s) : s[k] = "stopped"
  <2>1. ASSUME NEW i \in 1..Len(s), s[i] = "dispose"
        PROVE  \E k \in 1..Len(s) : s[k] = "stopped"
    BY <1>1, <2>1 DEF Link
  <2>2. CASE s[1] = "dispose"
    BY <1>1, <2>1, <2>2
  <2>3. CASE s[1] = "stop?"
    <3>1. 1 < Len(s) /\ s[2] = "release"
      BY <1>1, <2>3 DEF Link, Before
    <3>2. 2 < Len(s) /\ s[3] = "stop"
      BY <1>1, <3>1 DEF Link, Before
    <3>3. 3 < Len(s) /\ s[4] = "dispose"
      BY <1>1, <3>2 DEF Link, Before
    <3> QED
      BY <1>1, <2>1, <3>3
  <2> QED
    BY <1>1, <2>2, <2>3 DEF First
<1>3. PICK i \in 1..Len(s) : /\ Chained(After(s, "stopped")) /\ s[i] = "stopped" /\ Link(s, i)
                             /\ Len(After(s, "stopped")) = Len(s) - i
                             /\ i < Len(s) => After(s, "stopped")[1] = s[i + 1]
  BY <1>2, AfterChained
<1>4. After(s, "stopped") \in Seq(Ops)
  BY <1>3 DEF Chained
<1> QED
  BY <1>1, <1>3, <1>4 DEF Link, Only, FirstIfAny

\* ... as has a clearing, ...
LEMMA AfterCleared ==
  ASSUME NEW s, Chained(s), First(s, {"clear"})
  PROVE  /\ Chained(After(s, "cleared"))
         /\ FirstIfAny(After(s, "cleared"), {"react"})
<1>1. s \in Seq(Ops) /\ Len(s) \in Nat /\ Len(s) > 0 /\ Head(s) = s[1]
        /\ \A i \in 1..Len(s) : Link(s, i)
  BY DEF Chained, First
<1>2. \E k \in 1..Len(s) : s[k] = "cleared"
  BY <1>1 DEF Link, First
<1>3. PICK i \in 1..Len(s) : /\ Chained(After(s, "cleared")) /\ s[i] = "cleared" /\ Link(s, i)
                             /\ Len(After(s, "cleared")) = Len(s) - i
                             /\ i < Len(s) => After(s, "cleared")[1] = s[i + 1]
  BY <1>2, AfterChained
<1>4. After(s, "cleared") \in Seq(Ops)
  BY <1>3 DEF Chained
<1> QED
  BY <1>1, <1>3, <1>4 DEF Link, Only, FirstIfAny

\* ... and what is entered goes on to the player.
LEMMA AfterStop ==
  ASSUME NEW s, Chained(s), First(s, {"stop?", "connect?"})
  PROVE  /\ Chained(After(s, "stop")) /\ First(After(s, "stop"), {"dispose"})
         /\ First(Tail(s), {"release"})
<1>1. s \in Seq(Ops) /\ Len(s) \in Nat /\ Len(s) > 0 /\ Head(s) = s[1]
        /\ \A i \in 1..Len(s) : Link(s, i)
  BY DEF Chained, First
<1>2. 1 < Len(s) /\ s[2] = "release"
  BY <1>1 DEF Link, Before, First
<1>3. 2 < Len(s) /\ s[3] = "stop"
  BY <1>1, <1>2 DEF Link, Before
<1>4. PICK i \in 1..Len(s) : /\ Chained(After(s, "stop")) /\ s[i] = "stop" /\ Link(s, i)
                             /\ Len(After(s, "stop")) = Len(s) - i
                             /\ i < Len(s) => After(s, "stop")[1] = s[i + 1]
  BY <1>1, <1>3, AfterChained
<1>5. After(s, "stop") \in Seq(Ops)
  BY <1>4 DEF Chained
<1>6. First(After(s, "stop"), {"dispose"})
  BY <1>1, <1>4, <1>5 DEF Link, Before, First
<1>7. First(Tail(s), {"release"})
  BY <1>1, <1>2 DEF First
<1> QED
  BY <1>4, <1>6, <1>7

\* A connection that is turned away, or caught, is over.
LEMMA AfterConnected ==
  ASSUME NEW s, Chained(s), First(s, {"connect?"}) \/ "connected" \in ToSet(s)
  PROVE  /\ Chained(After(s, "connected"))
         /\ FirstIfAny(After(s, "connected"), {"watch"})
<1>1. s \in Seq(Ops) /\ Len(s) \in Nat /\ \A i \in 1..Len(s) : Link(s, i)
  BY DEF Chained
<1>2. \E k \in 1..Len(s) : s[k] = "connected"
  <2>1. CASE First(s, {"connect?"})
    BY <1>1, <2>1 DEF Link, First
  <2>2. CASE "connected" \in ToSet(s)
    BY <1>1, <2>2 DEF ToSet
  <2> QED
    BY <2>1, <2>2
<1>3. PICK i \in 1..Len(s) : /\ Chained(After(s, "connected")) /\ s[i] = "connected"
                             /\ Link(s, i) /\ Len(After(s, "connected")) = Len(s) - i
                             /\ i < Len(s) => After(s, "connected")[1] = s[i + 1]
  BY <1>2, AfterChained
<1>4. After(s, "connected") \in Seq(Ops)
  BY <1>3 DEF Chained
<1> QED
  BY <1>1, <1>3, <1>4 DEF Link, Only, FirstIfAny

\* ConnectAsync catches what start_session raises.
LEMMA StartCaught ==
  ASSUME NEW s, Chained(s), First(s, {"start"})
  PROVE  "connected" \in ToSet(s)
<1>1. s \in Seq(Ops) /\ Len(s) \in Nat /\ Len(s) > 0 /\ Head(s) = s[1]
        /\ \A i \in 1..Len(s) : Link(s, i)
  BY DEF Chained, First
<1>2. 2 \in DOMAIN s /\ s[2] = "connected"
  BY <1>1 DEF Link, Before, First
<1> QED
  BY <1>2 DEF ToSet

\* A connection that makes sure of the worker is in ConnectAsync still.
LEMMA EnsureCaught ==
  ASSUME NEW s, Chained(s), First(s, {"ensure"})
  PROVE  "connected" \in ToSet(s)
<1>1. s \in Seq(Ops) /\ Len(s) \in Nat /\ Len(s) > 0 /\ s[1] = "ensure"
        /\ \A i \in 1..Len(s) : Link(s, i)
  BY DEF Chained, First
<1>2. 1 < Len(s) /\ s[2] = "host"
  BY <1>1 DEF Link, Before
<1>3. 2 < Len(s) /\ s[3] = "player"
  BY <1>1, <1>2 DEF Link, Before
<1>4. 3 < Len(s) /\ s[4] = "start"
  BY <1>1, <1>3 DEF Link, Before
<1>5. 4 < Len(s) /\ s[5] = "connected"
  BY <1>1, <1>4 DEF Link, Before
<1>6. 5 \in DOMAIN s
  BY <1>1, <1>5
<1> QED
  BY <1>5, <1>6 DEF ToSet

-----------------------------------------------------------------------------
(* The inductive invariant.                                                  *)

Kinds == {"none", "button", "event", "reconnect", "close"}
Command == [what : {"start", "stop"}, by : Flows \cup {None}, player : Players \cup {None}]
FlowState == [kind : Kinds, todo : Seq(Ops), obj : Players \cup {None},
              at : {"run", "await"}, answer : {"none", "ok", "failed"}]

OuterType ==
  /\ stopping \in BOOLEAN /\ active \in BOOLEAN /\ running \in BOOLEAN
  /\ mpv \in Players \cup {None}
  /\ player \in [Players -> {"none", "alive", "killed", "exited", "closed"}]
  /\ reconnecting \in Nat /\ closing \in {"no", "yes", "closed"}
  /\ exited \in BOOLEAN /\ worker \in {"none", "up", "exited"}
  /\ commands \in Seq(Command)
  /\ session \in [phase : {"none", "accepted", "starting", "running"}, ending : BOOLEAN,
                  player : Players \cup {None}]
  /\ crashed \in BOOLEAN /\ dropped \in BOOLEAN

AppType ==
  OuterType /\ flow \in [Flows -> FlowState] /\ current \in Flows \cup {None}

\* The method that has the dispatcher, or awaits, has something left to do.
Tidy ==
  /\ \A f \in Flows : /\ Chained(flow[f].todo)
                      /\ flow[f].todo = <<>> => flow[f].at = "run"
  /\ current # None => flow[current].todo # <<>>

At(f, ops) == First(flow[f].todo, ops)

\* The worker has, or will have, the pipe of this player.
Piped(p) == session.player = p \/ \E i \in DOMAIN commands : commands[i].player = p

\* The player at hand is on its way out: its exit is awaited, or it is closed.
Past(f) == At(f, {"relay", "stopped", "cleared"})
Doomed(f) == Past(f) \/ (At(f, {"dispose", "clear"}) /\ flow[f].at = "await")

DoomInv ==
  \A f \in Flows : Doomed(f) => /\ flow[f].obj \in Players /\ ~Piped(flow[f].obj)
                                /\ Past(f) => player[flow[f].obj] = "closed"

\* A player just started is _mpv, and nobody else's.
FreshInv ==
  \A f \in Flows : current = f /\ At(f, {"start"}) =>
                     /\ flow[f].obj = mpv
                     /\ \A g \in Flows \ {f} : flow[g].obj # mpv

\* A player that lives, or whose pipe the worker has, is _mpv.
HeldInv ==
  ~dropped => \A p \in Players :
                player[p] \in {"alive", "killed", "exited"} \/ Piped(p) => p = mpv

\* _stopping belongs to a method that is in StopSessionAsync.
Owns(f) == \/ At(f, {"release", "stop", "dispose", "stopped"})
           \/ At(f, {"relay"}) /\ flow[f].todo[2] = "stopped"
OwnedInv == stopping => \E f \in Flows : Owns(f)

\* Who has closed _mpv puts it right.
MournedInv ==
  ~Over /\ mpv # None /\ player[mpv] = "closed" =>
    \E f \in Flows : Past(f) /\ flow[f].obj = mpv

\* A player without a session is somebody's: of who starts the session, or of who stops.
Cares(f) == At(f, {"stop?", "release", "stop", "dispose", "clear", "relay", "stopped",
                   "cleared", "start"})
CaredInv == ~Over /\ mpv # None /\ ~active => \E f \in Flows : Cares(f)

IInv == /\ AppType /\ Tidy /\ DoomInv /\ FreshInv /\ HeldInv /\ OwnedInv
        /\ MournedInv /\ CaredInv

-----------------------------------------------------------------------------
(* What a method's step does to it.                                          *)

\* What the invariant says of g does not change.
Same(g) == /\ flow'[g].todo = flow[g].todo /\ flow'[g].obj = flow[g].obj
           /\ flow'[g].at = flow[g].at

\* f alone moves, and has the dispatcher after it or nobody has.
Moves(f) ==
  /\ flow' \in [Flows -> FlowState] /\ \A g \in Flows \ {f} : Same(g)
  /\ Chained(flow'[f].todo) /\ (flow'[f].todo = <<>> => flow'[f].at = "run")
  /\ current' \in {f, None} /\ (current' = f => flow'[f].todo # <<>>)

\* A method goes on with what it has left.
LEMMA GoesDoes ==
  ASSUME AppType, NEW f \in Flows, NEW todo, Chained(todo), Goes(f, todo)
  PROVE  /\ Moves(f) /\ flow'[f].todo = todo
         /\ First(todo, {"relay", "stopped", "cleared"}) => flow'[f].obj = flow[f].obj
         /\ todo # <<>> => flow'[f].at = "run"
<1>1. flow \in [Flows -> FlowState] /\ todo \in Seq(Ops)
  BY DEF AppType, Chained
<1>2. CASE todo = <<>>
  <2>1. flow' = [flow EXCEPT ![f] = Absent] /\ current' = None
    BY <1>2 DEF Goes
  <2>2. Absent \in FlowState
    BY DEF Absent, FlowState, Kinds
  <2>3. flow'[f] = Absent /\ flow' \in [Flows -> FlowState]
          /\ \A g \in Flows \ {f} : flow'[g] = flow[g]
    BY <1>1, <2>1, <2>2
  <2>4. flow'[f].todo = <<>> /\ flow'[f].at = "run"
    BY <2>3 DEF Absent
  <2>5. f # None
    BY AppAssumption
  <2> QED
    BY <1>2, <2>1, <2>3, <2>4, <2>5 DEF Moves, Same, First
<1>3. CASE todo # <<>>
  <2> DEFINE obj == IF Head(todo) \in {"relay", "stopped", "cleared"}
                    THEN flow[f].obj ELSE None
  <2>1. /\ current' = f
        /\ flow' = [flow EXCEPT ![f] = [flow[f] EXCEPT !.todo = todo, !.at = "run",
                                                      !.answer = "none", !.obj = obj]]
    BY <1>1, <1>3 DEF Goes, FlowState
  <2>2. obj \in Players \cup {None}
    BY <1>1 DEF FlowState
  <2>3. obj = flow[f].obj \/ ~(Head(todo) \in {"relay", "stopped", "cleared"})
    OBVIOUS
  <2> HIDE DEF obj
  <2>4. /\ flow' \in [Flows -> FlowState] /\ \A g \in Flows \ {f} : flow'[g] = flow[g]
        /\ flow'[f].todo = todo /\ flow'[f].at = "run" /\ flow'[f].obj = obj
    BY <1>1, <2>1, <2>2 DEF FlowState
  <2> QED
    BY <1>3, <2>1, <2>3, <2>4 DEF Moves, Same, First
<1> QED
  BY <1>2, <1>3

\* A method gives the dispatcher away.
LEMMA AwaitsDoes ==
  ASSUME AppType, Tidy, NEW f \in Flows, flow[f].todo # <<>>, Awaits(f)
  PROVE  /\ Moves(f) /\ flow'[f].todo = flow[f].todo /\ flow'[f].obj = flow[f].obj
         /\ current' = None
<1>1. flow \in [Flows -> FlowState] /\ Chained(flow[f].todo)
  BY DEF AppType, Tidy
<1>2. /\ flow' = [flow EXCEPT ![f] = [flow[f] EXCEPT !.at = "await", !.answer = "none"]]
      /\ current' = None
  BY <1>1 DEF Awaits, FlowState
<1>3. /\ flow' \in [Flows -> FlowState] /\ \A g \in Flows \ {f} : flow'[g] = flow[g]
      /\ flow'[f].todo = flow[f].todo /\ flow'[f].obj = flow[f].obj
  BY <1>1, <1>2 DEF FlowState
<1>4. f # None
  BY AppAssumption
<1> QED
  BY <1>1, <1>2, <1>3, <1>4 DEF Moves, Same

\* A method begins.
LEMMA BeginDoes ==
  ASSUME AppType, Tidy, NEW kind \in Kinds, NEW todo, Chained(todo), todo # <<>>,
         Begin(kind, todo)
  PROVE  \E f \in Flows : /\ Moves(f) /\ flow[f].todo = <<>> /\ flow'[f].todo = todo
                          /\ flow'[f].at = "run"
<1>1. flow \in [Flows -> FlowState] /\ todo \in Seq(Ops)
  BY DEF AppType, Chained
<1>2. PICK f \in Flows : /\ flow[f] = Absent /\ current' = f
                         /\ flow' = [flow EXCEPT ![f].kind = kind, ![f].todo = todo]
  BY DEF Begin
<1>3. flow' = [flow EXCEPT ![f] = [flow[f] EXCEPT !.kind = kind, !.todo = todo]]
  BY <1>1, <1>2 DEF FlowState
<1>4. /\ flow' \in [Flows -> FlowState] /\ \A g \in Flows \ {f} : flow'[g] = flow[g]
      /\ flow'[f].todo = todo /\ flow'[f].at = flow[f].at
  BY <1>1, <1>3 DEF FlowState
<1>5. flow[f].todo = <<>> /\ flow[f].at = "run"
  BY <1>2 DEF Absent
<1> QED
  BY <1>2, <1>4, <1>5 DEF Moves, Same

\* Where an exception leads: to the catch of ConnectAsync, to the end of the
\* reconnection, or out.
LEMMA RaisesDoes ==
  ASSUME AppType, Tidy, NEW f \in Flows, flow[f].todo # <<>>, Raises(f)
  PROVE  /\ Moves(f) /\ stopping' = StillStopping(f) /\ crashed' \in BOOLEAN
         /\ Catches(f) => First(flow'[f].todo, {"stop?"})
         /\ ~Catches(f) => FirstIfAny(flow'[f].todo, {"reconnected"})
         /\ UNCHANGED <<active, running, mpv, reconnecting, closing>>
<1> DEFINE after == After(flow[f].todo, "connected")
<1>1. Chained(flow[f].todo)
  BY DEF Tidy
<1>2. CASE Catches(f)
  <2>1. Chained(after) /\ FirstIfAny(after, {"watch"})
    BY <1>1, <1>2, AfterConnected DEF Catches
  <2>2. Goes(f, Caught \o after)
    BY <1>2 DEF Raises
  <2> HIDE DEF after
  <2>3. /\ Chained(Stop) /\ Stop # <<>> /\ Stop[1] = "stop?"
        /\ Stop[Len(Stop)] = "stopped" /\ Caught = Stop
    BY ListsChained DEF Stop, Caught
  <2>4. Chained(Caught \o after) /\ First(Caught \o after, {"stop?"})
    <3>1. CASE after = <<>>
      <4>1. Stop \o <<>> = Stop
        BY <2>3 DEF Chained
      <4>2. Head(Stop) = "stop?"
        BY DEF Stop
      <4> QED
        BY <2>3, <3>1, <4>1, <4>2 DEF First
    <3>2. CASE after # <<>>
      <4>1. after \in Seq(Ops) /\ after[1] = "watch"
        BY <2>1, <3>2 DEF FirstIfAny, Chained
      <4>2. Chained(Stop \o after) /\ Stop \o after # <<>> /\ (Stop \o after)[1] = "stop?"
        BY <2>1, <2>3, <3>2, <4>1, JoinChained DEF Joins
      <4> QED
        BY <2>3, <4>2 DEF First, Chained
    <3> QED
      BY <3>1, <3>2
  <2>5. Moves(f) /\ flow'[f].todo = Caught \o after
    BY <2>2, <2>4, GoesDoes
  <2> QED
    BY <1>2, <2>4, <2>5 DEF Raises
<1>3. CASE ~Catches(f)
  <2>1. Goes(f, <<"reconnected">>) \/ Goes(f, <<>>)
    BY <1>3 DEF Raises
  <2>2. /\ Chained(<<"reconnected">>) /\ Chained(<<>>)
        /\ FirstIfAny(<<"reconnected">>, {"reconnected"}) /\ FirstIfAny(<<>>, {"reconnected"})
    BY ListsChained DEF FirstIfAny
  <2>3. Moves(f) /\ FirstIfAny(flow'[f].todo, {"reconnected"})
    BY <2>1, <2>2, GoesDoes
  <2> QED
    BY <1>3, <2>3 DEF Raises
<1> QED
  BY <1>2, <1>3

\* What is said of a method that does not move stays true of it.
LEMMA SameRoles ==
  ASSUME NEW g, Same(g)
  PROVE  /\ \A ops : At(g, ops)' <=> At(g, ops)
         /\ Past(g)' <=> Past(g)
         /\ Doomed(g)' <=> Doomed(g)
         /\ Owns(g)' <=> Owns(g)
         /\ Cares(g)' <=> Cares(g)
<1>1. \A ops : At(g, ops)' <=> At(g, ops)
  BY DEF Same, At
<1> QED
  BY <1>1 DEF Same, Past, Doomed, Owns, Cares

-----------------------------------------------------------------------------
(* Steps that keep the invariant whatever else they do.                      *)

Lives(p) == player[p] \in {"alive", "killed", "exited"}

\* No player is started or closed.
KeepsPlayers ==
  \A p \in Players : /\ player'[p] = "closed" <=> player[p] = "closed"
                     /\ Lives(p)' => Lives(p)
                     /\ Piped(p)' => Piped(p)

\* Nobody's list moves on.
Still ==
  /\ ~Over /\ AppType' /\ \A g \in Flows : Same(g)
  /\ KeepsPlayers /\ UNCHANGED <<stopping, active, mpv, current, dropped>>

\* f goes on, but neither stops nor starts anything, and remains whose it is to care.
Quiet(f) ==
  /\ ~Over /\ AppType' /\ Moves(f)
  /\ KeepsPlayers /\ UNCHANGED <<mpv, dropped>>
  /\ stopping' <=> stopping
  /\ \/ (active' <=> active) /\ (Cares(f) => Cares(f)')
     \/ active'
  /\ Owns(f) => Owns(f)'
  /\ Past(f) => Past(f)' /\ flow'[f].obj = flow[f].obj
  /\ Doomed(f)' => Doomed(f) /\ flow'[f].obj = flow[f].obj
  /\ Past(f)' => Past(f)
  /\ current' = f => ~At(f, {"start"})'

\* Such steps keep the invariant.
LEMMA StillStep ==
  ASSUME IInv, Still
  PROVE  IInv'
<1>0. /\ AppType /\ Tidy /\ DoomInv /\ FreshInv /\ HeldInv /\ OwnedInv
      /\ MournedInv /\ CaredInv
  BY DEF IInv
<1>r. \A g \in Flows : /\ \A ops : At(g, ops)' <=> At(g, ops)
                       /\ Past(g)' <=> Past(g)
                       /\ Doomed(g)' <=> Doomed(g)
                       /\ Owns(g)' <=> Owns(g)
                       /\ Cares(g)' <=> Cares(g)
  BY SameRoles DEF Still
<1>s. \A g \in Flows : /\ flow'[g].todo = flow[g].todo /\ flow'[g].obj = flow[g].obj
                       /\ flow'[g].at = flow[g].at
  BY DEF Still, Same
<1>1. AppType'
  BY DEF Still
<1>2. Tidy'
  BY <1>0, <1>s DEF Tidy, Still, AppType
<1>3. DoomInv'
  BY <1>0, <1>r, <1>s DEF DoomInv, Still, KeepsPlayers
<1>4. FreshInv'
  BY <1>0, <1>r, <1>s DEF FreshInv, Still
<1>5. HeldInv'
  BY <1>0 DEF HeldInv, Still, KeepsPlayers, Lives
<1>6. OwnedInv'
  BY <1>0, <1>r DEF OwnedInv, Still
<1>7. MournedInv'
  BY <1>0, <1>r, <1>s DEF MournedInv, Still, KeepsPlayers, AppType,
             OuterType
<1>8. CaredInv'
  BY <1>0, <1>r DEF CaredInv, Still
<1> QED
  BY <1>1, <1>2, <1>3, <1>4, <1>5, <1>6, <1>7, <1>8 DEF IInv

\* Whoever moves leaves the lists in order.
LEMMA MovesTidy ==
  ASSUME Tidy, NEW f \in Flows, Moves(f)
  PROVE  Tidy'
BY DEF Tidy, Moves, Same

\* A quiet step keeps the invariant.
LEMMA QuietStep ==
  ASSUME IInv, NEW f \in Flows, Quiet(f)
  PROVE  IInv'
<1>0. /\ AppType /\ Tidy /\ DoomInv /\ FreshInv /\ HeldInv /\ OwnedInv
      /\ MournedInv /\ CaredInv
  BY DEF IInv
<1>r. \A g \in Flows \ {f} : /\ \A ops : At(g, ops)' <=> At(g, ops)
                             /\ Past(g)' <=> Past(g)
                             /\ Doomed(g)' <=> Doomed(g)
                             /\ Owns(g)' <=> Owns(g)
                             /\ Cares(g)' <=> Cares(g)
  BY SameRoles DEF Quiet, Moves
<1>s. \A g \in Flows \ {f} : flow'[g].obj = flow[g].obj
  BY DEF Quiet, Moves, Same
<1>1. AppType'
  BY DEF Quiet
<1>2. Tidy'
  BY <1>0, MovesTidy DEF Quiet
<1>3. DoomInv'
  BY <1>0, <1>r, <1>s DEF DoomInv, Quiet, KeepsPlayers
<1>4. FreshInv'
  BY AppAssumption DEF FreshInv, Quiet, Moves
<1>5. HeldInv'
  BY <1>0 DEF HeldInv, Quiet, KeepsPlayers, Lives
<1>6. OwnedInv'
  BY <1>0, <1>r DEF OwnedInv, Quiet
<1>7. MournedInv'
  BY <1>0, <1>r, <1>s DEF MournedInv, Quiet, KeepsPlayers, AppType,
             OuterType
<1>8. CaredInv'
  BY <1>0, <1>r DEF CaredInv, Quiet
<1> QED
  BY <1>1, <1>2, <1>3, <1>4, <1>5, <1>6, <1>7, <1>8 DEF IInv

-----------------------------------------------------------------------------
(* Actions that are such steps.                                              *)

\* What neither stops nor starts anything, and stands for nothing
Idle == {"connect?", "ensure", "host", "player", "connected", "react", "delay", "watch",
         "reconnected", "closeWorker", "closed"}

\* The window's view of the players is not touched.
Aside == /\ ~Over /\ OuterType' /\ KeepsPlayers /\ UNCHANGED <<mpv, dropped>>

\* f goes on with what stands for the same.
Onward(f, todo) ==
  \/ At(f, {"release"}) /\ First(todo, {"stop"})
  \/ At(f, {"stop"}) /\ First(todo, {"dispose"})
  \/ /\ At(f, {"relay"}) /\ First(todo, {"stopped", "cleared"})
     /\ Head(todo) = flow[f].todo[2]
  \/ At(f, Idle) /\ FirstIfAny(todo, Idle)

\* Whoever moves leaves the methods their types.
LEMMA MovesType ==
  ASSUME OuterType', NEW f \in Flows, Moves(f)
  PROVE  AppType'
BY DEF AppType, Moves

\* A method that goes on with what stands for the same takes a quiet step.
LEMMA GoQuiet ==
  ASSUME IInv, NEW f \in Flows, Aside, stopping' <=> stopping, active' <=> active,
         NEW todo, Chained(todo), Onward(f, todo), Goes(f, todo)
  PROVE  Quiet(f)
<1>1. /\ Moves(f) /\ flow'[f].todo = todo
      /\ First(todo, {"relay", "stopped", "cleared"}) => flow'[f].obj = flow[f].obj
      /\ todo # <<>> => flow'[f].at = "run"
  BY GoesDoes DEF IInv
<1>2. AppType'
  BY <1>1, MovesType DEF Aside
<1>3. \A ops : At(f, ops)' <=> First(todo, ops)
  BY <1>1 DEF At, First
<1>4. ~At(f, {"start"})' /\ ~(At(f, {"dispose", "clear"})' /\ flow'[f].at = "await")
  BY <1>1, <1>3 DEF Onward, First, FirstIfAny, Idle
<1>5. CASE At(f, {"relay"}) /\ First(todo, {"stopped", "cleared"})
             /\ Head(todo) = flow[f].todo[2]
  <2>1. Past(f) /\ Past(f)' /\ Doomed(f) /\ Cares(f)' /\ flow'[f].obj = flow[f].obj
    BY <1>1, <1>3, <1>5 DEF Past, Doomed, Cares, At, First
  <2>2. Owns(f) => Owns(f)'
    BY <1>3, <1>5 DEF Owns, At, First
  <2> QED
    BY <1>1, <1>2, <1>4, <2>1, <2>2 DEF Quiet, Aside
<1>6. CASE \/ At(f, {"release"}) /\ First(todo, {"stop"})
           \/ At(f, {"stop"}) /\ First(todo, {"dispose"})
  <2>1. ~Past(f) /\ ~Past(f)' /\ Cares(f)' /\ Owns(f)'
    BY <1>1, <1>6 DEF Past, Owns, Cares, At, First
  <2>2. ~Doomed(f)'
    BY <1>4, <2>1 DEF Doomed
  <2> QED
    BY <1>1, <1>2, <1>4, <2>1, <2>2 DEF Quiet, Aside
<1>7. CASE At(f, Idle) /\ FirstIfAny(todo, Idle)
  <2>1. ~Past(f) /\ ~Past(f)' /\ ~Cares(f) /\ ~Owns(f)
    BY <1>1, <1>7 DEF Past, Owns, Cares, At, First, FirstIfAny, Idle
  <2>2. ~Doomed(f)'
    BY <1>4, <2>1 DEF Doomed
  <2> QED
    BY <1>1, <1>2, <1>4, <2>1, <2>2 DEF Quiet, Aside
<1> QED
  BY <1>5, <1>6, <1>7 DEF Onward

\* f awaits, which stands for the same.
LEMMA AwaitQuiet ==
  ASSUME IInv, NEW f \in Flows, Aside, stopping' <=> stopping, active' <=> active,
         At(f, Idle \cup {"release", "stop", "relay", "start"}), Awaits(f)
  PROVE  Quiet(f)
<1>0. flow[f].todo # <<>>
  BY DEF At, First
<1>1. /\ Moves(f) /\ flow'[f].todo = flow[f].todo /\ flow'[f].obj = flow[f].obj
      /\ current' = None
  BY <1>0, AwaitsDoes DEF IInv
<1>2. AppType'
  BY <1>1, MovesType DEF Aside
<1>3. \A ops : At(f, ops)' <=> At(f, ops)
  BY <1>1 DEF At
<1>4. (Past(f)' <=> Past(f)) /\ (Owns(f)' <=> Owns(f)) /\ (Cares(f)' <=> Cares(f))
  BY <1>1, <1>3 DEF Past, Owns, Cares
<1>5. Doomed(f)' => Doomed(f)
  <2>1. ~At(f, {"dispose", "clear"})
    BY DEF At, First, Idle
  <2> QED
    BY <1>3, <1>4, <2>1 DEF Doomed
<1>6. f # None
  BY AppAssumption
<1> QED
  BY <1>1, <1>2, <1>4, <1>5, <1>6 DEF Quiet, Aside

\* An exception elsewhere than in a stop is caught where there is a player.
LEMMA RaiseQuiet ==
  ASSUME IInv, NEW f \in Flows, Aside, At(f, {"host", "ensure", "start"}), Raises(f)
  PROVE  Quiet(f)
<1>0. flow[f].todo # <<>> /\ Chained(flow[f].todo) /\ Op(f) # "dispose"
        /\ stopping \in BOOLEAN
  BY DEF At, First, IInv, Tidy, AppType, OuterType, Op
<1>1. /\ Moves(f) /\ stopping' = StillStopping(f)
      /\ Catches(f) => First(flow'[f].todo, {"stop?"})
      /\ ~Catches(f) => FirstIfAny(flow'[f].todo, {"reconnected"})
      /\ active' = active
  BY <1>0, RaisesDoes DEF IInv
<1>2. AppType'
  BY <1>1, MovesType DEF Aside
<1>3. stopping' <=> stopping
  BY <1>0, <1>1 DEF StillStopping
<1>4. ~Past(f) /\ ~Owns(f)
  BY DEF Past, Owns, At, First
<1>5. FirstIfAny(flow'[f].todo, {"stop?", "reconnected"})
  BY <1>1 DEF First, FirstIfAny
<1>6. ~Past(f)' /\ ~Doomed(f)' /\ ~At(f, {"start"})'
  BY <1>5 DEF Past, Doomed, At, First, FirstIfAny
<1>7. Cares(f) => Cares(f)'
  <2>1. Cares(f) => Catches(f)
    BY <1>0, StartCaught DEF Cares, At, First, Catches
  <2> QED
    BY <1>1, <2>1 DEF Cares, At, First
<1> QED
  BY <1>1, <1>2, <1>3, <1>4, <1>6, <1>7 DEF Quiet, Aside

\* Who runs, or resumes, is at one of its operations.
LEMMA RunsAt ==
  ASSUME IInv, NEW f \in Flows, NEW ops, Runs(f, ops) \/ Resumes(f, ops)
  PROVE  /\ At(f, ops) /\ ~Over /\ flow[f].todo # <<>> /\ Chained(flow[f].todo)
         /\ Op(f) \in ops
<1>1. f # None
  BY AppAssumption
<1>2. flow[f].todo # <<>> /\ Chained(flow[f].todo)
  BY <1>1 DEF IInv, Tidy, Runs, Resumes
<1> QED
  BY <1>2 DEF Runs, Resumes, Between, At, First, Op

\* What is left after an operation that only passes
Plain == {"release", "stop", "relay", "ensure", "host", "react", "delay", "watch",
          "reconnected", "closeWorker", "closed"}

\* What is left after such an operation stands for the same.
LEMMA RestOnward ==
  ASSUME IInv, NEW f \in Flows, At(f, Plain)
  PROVE  Chained(Rest(f)) /\ Onward(f, Rest(f))
<1> DEFINE s == flow[f].todo
<1>1. s # <<>> /\ Chained(s) /\ Head(s) \in Plain
  BY DEF At, First, IInv, Tidy
<1>2. /\ Chained(Tail(s))
      /\ Head(s) = "release" => First(Tail(s), {"stop"})
      /\ Head(s) = "stop" => First(Tail(s), {"dispose"})
      /\ Head(s) = "relay" => First(Tail(s), {"stopped", "cleared"})
      /\ Head(s) = "relay" => Head(Tail(s)) = s[2]
      /\ Head(s) = "ensure" => First(Tail(s), {"host"})
      /\ Head(s) = "host" => First(Tail(s), {"player"})
      /\ Head(s) = "delay" => FirstIfAny(Tail(s), {"connect?"})
      /\ Head(s) = "watch" => First(Tail(s), {"reconnected"})
      /\ Head(s) = "closeWorker" => First(Tail(s), {"closed"})
      /\ Head(s) \in {"react", "reconnected", "closed"} => Tail(s) = <<>>
  BY <1>1, Follows
<1>3. \A ops : At(f, ops) <=> Head(s) \in ops
  BY <1>1 DEF At, First
<1>4. CASE Head(s) \in {"release", "stop", "relay"}
  BY <1>2, <1>3, <1>4 DEF Onward, Rest
<1>5. CASE Head(s) \in Plain \ {"release", "stop", "relay"}
  <2>1. Head(s) \in Idle
    BY <1>5 DEF Plain, Idle
  <2>2. FirstIfAny(Tail(s), Idle)
    BY <1>2, <1>5 DEF Plain, Idle, First, FirstIfAny
  <2> QED
    BY <1>2, <1>3, <2>1, <2>2 DEF Onward, Rest
<1> QED
  BY <1>1, <1>4, <1>5

\* The players, and the worker's view of them, are not touched.
LEMMA AsideHolds ==
  ASSUME IInv, ~Over, OuterType', UNCHANGED <<mpv, player, commands, session, dropped>>
  PROVE  Aside
BY DEF Aside, KeepsPlayers, Lives, Piped

\* Nor is anything else.
LEMMA UntouchedAside ==
  ASSUME IInv, ~Over, UNCHANGED <<window, player, exited, process, crashed, dropped>>
  PROVE  Aside /\ (stopping' <=> stopping) /\ (active' <=> active)
<1>1. OuterType'
  BY DEF IInv, AppType, OuterType, window, process
<1> QED
  BY <1>1, AsideHolds DEF window, process

\* Answers are left unclaimed, commands remain.
LEMMA UnlinkAside ==
  ASSUME IInv, NEW f \in Flows, ~Over, Unlink(f), UNCHANGED <<mpv, player, dropped>>,
         stopping' \in BOOLEAN, active' \in BOOLEAN, running' \in BOOLEAN,
         reconnecting' \in Nat, closing' \in {"no", "yes", "closed"},
         exited' \in BOOLEAN, crashed' \in BOOLEAN
  PROVE  Aside
<1>1. /\ commands \in Seq(Command) /\ session' = session /\ worker' = worker
      /\ commands' = [i \in DOMAIN commands |->
                        IF commands[i].by = f THEN [commands[i] EXCEPT !.by = None]
                        ELSE commands[i]]
  BY DEF IInv, AppType, OuterType, Unlink, Unlinked
<1>2. \A i \in DOMAIN commands : commands[i] \in Command
  BY <1>1
<1>3. /\ DOMAIN commands' = DOMAIN commands
      /\ \A i \in DOMAIN commands : /\ commands'[i] \in Command
                                    /\ commands'[i].player = commands[i].player
  BY <1>1, <1>2 DEF Command
<1>4. commands' \in Seq(Command)
  <2>1. Len(commands) \in Nat /\ DOMAIN commands = 1..Len(commands)
    BY <1>1
  <2>2. commands' \in [1..Len(commands) -> Command]
    BY <1>1, <1>3, <2>1
  <2> QED
    BY <2>1, <2>2
<1>5. KeepsPlayers
  BY <1>1, <1>3 DEF KeepsPlayers, Lives, Piped
<1>6. OuterType'
  BY <1>1, <1>4 DEF IInv, AppType, OuterType
<1> QED
  BY <1>5, <1>6 DEF Aside

\* The relay and the handle are there already, or are awaited.
LEMMA MaybeStep ==
  ASSUME IInv, NEW f \in Flows, Maybe(f)
  PROVE  IInv'
<1>1. At(f, {"relay", "host"}) /\ ~Over
  BY RunsAt DEF Maybe
<1>2. Aside /\ (stopping' <=> stopping) /\ (active' <=> active)
  BY <1>1, UntouchedAside DEF Maybe
<1>3. At(f, Plain) /\ At(f, Idle \cup {"release", "stop", "relay", "start"})
  BY <1>1 DEF At, First, Plain, Idle
<1>4. Chained(Rest(f)) /\ Onward(f, Rest(f))
  BY <1>3, RestOnward
<1>5. CASE Goes(f, Rest(f))
  BY <1>2, <1>4, <1>5, GoQuiet, QuietStep
<1>6. CASE Awaits(f)
  BY <1>2, <1>3, <1>6, AwaitQuiet, QuietStep
<1> QED
  BY <1>5, <1>6 DEF Maybe

\* The worker is there already, or is awaited.
LEMMA EnsureStep ==
  ASSUME IInv, NEW f \in Flows, Ensure(f)
  PROVE  IInv'
<1>1. At(f, {"ensure"}) /\ ~Over
  BY RunsAt DEF Ensure
<1>2. Aside /\ (stopping' <=> stopping) /\ (active' <=> active)
  BY <1>1, UntouchedAside DEF Ensure
<1>3. At(f, Plain) /\ At(f, Idle \cup {"release", "stop", "relay", "start"})
  BY <1>1 DEF At, First, Plain, Idle
<1>4. Chained(Rest(f)) /\ Onward(f, Rest(f))
  BY <1>3, RestOnward
<1>5. CASE Goes(f, Rest(f))
  BY <1>2, <1>4, <1>5, GoQuiet, QuietStep
<1>6. CASE Awaits(f)
  BY <1>2, <1>3, <1>6, AwaitQuiet, QuietStep
<1> QED
  BY <1>5, <1>6 DEF Ensure

\* The reconnection's delay
LEMMA DelayStep ==
  ASSUME IInv, NEW f \in Flows, Delay(f)
  PROVE  IInv'
<1>1. At(f, {"delay"}) /\ ~Over
  BY RunsAt DEF Delay
<1>2. Aside /\ (stopping' <=> stopping) /\ (active' <=> active)
  BY <1>1, UntouchedAside DEF Delay
<1>3. At(f, Plain) /\ At(f, Idle \cup {"release", "stop", "relay", "start"})
        /\ At(f, Idle)
  BY <1>1 DEF At, First, Plain, Idle
<1>4. Chained(Rest(f)) /\ Onward(f, Rest(f))
  BY <1>3, RestOnward
<1>5. Chained(<<"reconnected">>) /\ Onward(f, <<"reconnected">>)
  BY <1>3, ListsChained DEF Onward, FirstIfAny, Idle
<1>6. CASE Goes(f, Rest(f))
  BY <1>2, <1>4, <1>6, GoQuiet, QuietStep
<1>7. CASE Goes(f, <<"reconnected">>)
  BY <1>2, <1>5, <1>7, GoQuiet, QuietStep
<1>8. CASE Awaits(f)
  BY <1>2, <1>3, <1>8, AwaitQuiet, QuietStep
<1> QED
  BY <1>6, <1>7, <1>8 DEF Delay

\* A command more, and at most its player is piped by it.
LEMMA AppendPipes ==
  ASSUME IInv, NEW c \in Command, commands' = Append(commands, c), session' = session
  PROVE  /\ commands' \in Seq(Command)
         /\ \A p : Piped(p)' => Piped(p) \/ p = c.player
<1>1. commands \in Seq(Command)
  BY DEF IInv, AppType, OuterType
<1>2. /\ commands' \in Seq(Command) /\ Len(commands') = Len(commands) + 1
      /\ Len(commands) \in Nat
      /\ \A i \in 1..Len(commands) : commands'[i] = commands[i]
      /\ commands'[Len(commands) + 1] = c
  BY <1>1
<1>3. DOMAIN commands = 1..Len(commands) /\ DOMAIN commands' = 1..(Len(commands) + 1)
  BY <1>1, <1>2
<1>4. \A i \in DOMAIN commands' : i \in DOMAIN commands \/ i = Len(commands) + 1
  BY <1>2, <1>3
<1>5. ASSUME NEW p, Piped(p)'
      PROVE  Piped(p) \/ p = c.player
  BY <1>2, <1>3, <1>4, <1>5 DEF Piped
<1> QED
  BY <1>2, <1>5

\* release_input and stop_session stand for the stop they belong to.
LEMMA AskWorkerStep ==
  ASSUME IInv, NEW f \in Flows, AskWorker(f)
  PROVE  IInv'
<1>1. At(f, {"release", "stop"}) /\ ~Over
  BY RunsAt DEF AskWorker
<1>2. (stopping' <=> stopping) /\ (active' <=> active)
  BY DEF AskWorker, window
<1>3. At(f, Plain) /\ At(f, Idle \cup {"release", "stop", "relay", "start"})
  BY <1>1 DEF At, First, Plain, Idle
<1>4. Chained(Rest(f)) /\ Onward(f, Rest(f))
  BY <1>3, RestOnward
<1>5. CASE UNCHANGED commands
  <2>1. Aside
    BY <1>1, <1>5, UntouchedAside DEF AskWorker, process
  <2>2. Goes(f, Rest(f)) \/ Awaits(f)
    BY DEF AskWorker
  <2>3. CASE Goes(f, Rest(f))
    BY <1>2, <1>4, <2>1, <2>3, GoQuiet, QuietStep
  <2>4. CASE Awaits(f)
    BY <1>2, <1>3, <2>1, <2>4, AwaitQuiet, QuietStep
  <2> QED
    BY <2>2, <2>3, <2>4
<1>6. CASE /\ Awaits(f)
           /\ commands' = Append(commands, [what |-> "stop", by |-> f, player |-> None])
  <2> DEFINE c == [what |-> "stop", by |-> f, player |-> None]
  <2>1. c \in Command /\ c.player = None
    BY DEF Command
  <2>2. commands' = Append(commands, c) /\ session' = session
    BY <1>6 DEF AskWorker
  <2> HIDE DEF c
  <2>3. commands' \in Seq(Command) /\ \A p : Piped(p)' => Piped(p) \/ p = c.player
    BY <2>1, <2>2, AppendPipes
  <2>4. OuterType'
    BY <2>3 DEF IInv, AppType, OuterType, AskWorker, window
  <2>5. KeepsPlayers
    BY <2>1, <2>3, AppAssumption DEF KeepsPlayers, Lives, AskWorker
  <2>6. Aside
    BY <1>1, <2>4, <2>5 DEF Aside, AskWorker, window
  <2> QED
    BY <1>2, <1>3, <1>6, <2>6, AwaitQuiet, QuietStep
<1> QED
  BY <1>5, <1>6 DEF AskWorker

\* Answered or not, the stop goes on to the player.
LEMMA AskedStep ==
  ASSUME IInv, NEW f \in Flows, Asked(f)
  PROVE  IInv'
<1>1. At(f, {"release", "stop"}) /\ ~Over
  BY RunsAt DEF Asked
<1>2. (stopping' <=> stopping) /\ (active' <=> active) /\ Goes(f, Rest(f))
  BY DEF Asked, Continues, window
<1>3. At(f, Plain)
  BY <1>1 DEF At, First, Plain
<1>4. Chained(Rest(f)) /\ Onward(f, Rest(f))
  BY <1>3, RestOnward
<1>5. Aside
  BY <1>1, UnlinkAside DEF Asked, Continues, window, IInv, AppType, OuterType
<1> QED
  BY <1>2, <1>4, <1>5, GoQuiet, QuietStep

\* The relay's end, and the host's handle, only let the method go on, or the handle
\* raises.
LEMMA ReadyStep ==
  ASSUME IInv, NEW f \in Flows, Ready(f)
  PROVE  IInv'
<1>1. At(f, {"relay", "host"}) /\ ~Over /\ flow[f].todo # <<>>
  <2>1. Resumes(f, {"relay", "host"})
    BY DEF Ready, Resumes
  <2> QED
    BY <2>1, RunsAt
<1>2. CASE Continues(f)
  <2>1. Aside /\ (stopping' <=> stopping) /\ (active' <=> active)
    BY <1>1, <1>2, UntouchedAside DEF Ready, Continues
  <2>2. At(f, Plain)
    BY <1>1 DEF At, First, Plain
  <2>3. Chained(Rest(f)) /\ Onward(f, Rest(f))
    BY <2>2, RestOnward
  <2> QED
    BY <1>2, <2>1, <2>3, GoQuiet, QuietStep DEF Continues
<1>3. CASE Resumes(f, {"host"}) /\ Raises(f)
  <2>1. At(f, {"host", "ensure", "start"})
    <3>1. At(f, {"host"})
      BY <1>3, RunsAt
    <3> QED
      BY <3>1 DEF At, First
  <2>2. /\ stopping' = StillStopping(f) /\ crashed' \in BOOLEAN
        /\ UNCHANGED <<active, running, mpv, reconnecting, closing>>
    BY <1>1, <1>3, RaisesDoes DEF IInv
  <2>3. OuterType'
    BY <2>2 DEF IInv, AppType, OuterType, Ready, process, StillStopping
  <2>4. Aside
    BY <1>1, <2>2, <2>3, AsideHolds DEF Ready, process
  <2> QED
    BY <1>3, <2>1, <2>4, RaiseQuiet, QuietStep
<1> QED
  BY <1>2, <1>3 DEF Ready

\* So with the worker that is started.
LEMMA EnsuredStep ==
  ASSUME IInv, NEW f \in Flows, Ensured(f)
  PROVE  IInv'
<1>1. At(f, {"ensure"}) /\ ~Over /\ flow[f].todo # <<>>
  BY RunsAt DEF Ensured
<1>2. CASE Continues(f) /\ worker' = "up"
  <2>1. OuterType' /\ (stopping' <=> stopping) /\ (active' <=> active)
    BY <1>2 DEF IInv, AppType, OuterType, Ensured, Continues, window
  <2>2. Aside
    BY <1>1, <1>2, <2>1, AsideHolds DEF Ensured, Continues, window
  <2>3. At(f, Plain)
    BY <1>1 DEF At, First, Plain
  <2>4. Chained(Rest(f)) /\ Onward(f, Rest(f))
    BY <2>3, RestOnward
  <2> QED
    BY <1>2, <2>1, <2>2, <2>4, GoQuiet, QuietStep DEF Continues
<1>3. CASE Raises(f) /\ UNCHANGED worker
  <2>1. At(f, {"host", "ensure", "start"})
    BY <1>1 DEF At, First
  <2>2. /\ stopping' = StillStopping(f) /\ crashed' \in BOOLEAN
        /\ UNCHANGED <<active, running, mpv, reconnecting, closing>>
    BY <1>1, <1>3, RaisesDoes DEF IInv
  <2>3. OuterType'
    BY <1>3, <2>2 DEF IInv, AppType, OuterType, Ensured, StillStopping
  <2>4. Aside
    BY <1>1, <2>2, <2>3, AsideHolds DEF Ensured
  <2> QED
    BY <1>3, <2>1, <2>4, RaiseQuiet, QuietStep
<1>4. CASE /\ Goes(f, After(flow[f].todo, "connected")) /\ worker' \in {worker, "up"}
           /\ UNCHANGED <<window, crashed>>
  <2> DEFINE todo == After(flow[f].todo, "connected")
  <2>1. OuterType' /\ (stopping' <=> stopping) /\ (active' <=> active)
    BY <1>4 DEF IInv, AppType, OuterType, Ensured, window
  <2>2. Aside
    BY <1>1, <1>4, <2>1, AsideHolds DEF Ensured, window
  <2>3. Chained(flow[f].todo)
    BY <1>1 DEF IInv, Tidy
  <2>4. Chained(todo) /\ FirstIfAny(todo, {"watch"})
    BY <1>1, <2>3, EnsureCaught, AfterConnected DEF At
  <2> HIDE DEF todo
  <2>5. Onward(f, todo)
    BY <1>1, <2>4 DEF Onward, At, First, FirstIfAny, Idle
  <2>6. Goes(f, todo)
    BY <1>4 DEF todo
  <2> QED
    BY <2>1, <2>2, <2>4, <2>5, <2>6, GoQuiet, QuietStep
<1> QED
  BY <1>2, <1>3, <1>4 DEF Ensured

\* start_session's answer: the session is active, or the catch stops it.
LEMMA StartedStep ==
  ASSUME IInv, NEW f \in Flows, Started(f)
  PROVE  IInv'
<1>1. At(f, {"start"}) /\ ~Over /\ flow[f].todo # <<>> /\ Chained(flow[f].todo)
  BY RunsAt DEF Started
<1>2. CASE /\ active' = TRUE /\ Goes(f, After(flow[f].todo, "connected"))
           /\ UNCHANGED <<stopping, running, mpv, reconnecting, closing, crashed>>
  <2> DEFINE todo == After(flow[f].todo, "connected")
  <2>1. Chained(todo) /\ FirstIfAny(todo, {"watch"})
    BY <1>1, StartCaught, AfterConnected DEF At
  <2> HIDE DEF todo
  <2>2. Goes(f, todo)
    BY <1>2 DEF todo
  <2>3. Aside
    BY <1>1, <1>2, UnlinkAside DEF Started, IInv, AppType, OuterType
  <2>4. Moves(f) /\ flow'[f].todo = todo
    BY <2>1, <2>2, GoesDoes DEF IInv
  <2>5. AppType'
    BY <2>3, <2>4, MovesType DEF Aside
  <2>6. ~At(f, {"start"})' /\ ~Past(f) /\ ~Past(f)' /\ ~Owns(f) /\ ~Doomed(f)'
    BY <1>1, <2>1, <2>4 DEF At, First, FirstIfAny, Past, Owns, Doomed
  <2> QED
    BY <1>2, <2>3, <2>4, <2>5, <2>6, QuietStep DEF Quiet, Aside
<1>3. CASE Raises(f)
  <2>1. /\ stopping' = StillStopping(f) /\ crashed' \in BOOLEAN
        /\ UNCHANGED <<active, running, mpv, reconnecting, closing>>
    BY <1>1, <1>3, RaisesDoes DEF IInv
  <2>2. Aside
    BY <1>1, <2>1, UnlinkAside DEF Started, IInv, AppType, OuterType, StillStopping
  <2>3. At(f, {"host", "ensure", "start"})
    BY <1>1 DEF At, First
  <2> QED
    BY <1>3, <2>2, <2>3, RaiseQuiet, QuietStep
<1> QED
  BY <1>2, <1>3 DEF Started

\* The handler of the event becomes the reconnection, or is over.
LEMMA ReactStep ==
  ASSUME IInv, NEW f \in Flows, React(f)
  PROVE  IInv'
<1>1. At(f, {"react"}) /\ ~Over
  BY RunsAt DEF React
<1>2. CASE Goes(f, Rest(f)) /\ UNCHANGED reconnecting
  <2>1. Aside /\ (stopping' <=> stopping) /\ (active' <=> active)
    BY <1>1, <1>2, UntouchedAside DEF React, window
  <2>2. At(f, Plain)
    BY <1>1 DEF At, First, Plain
  <2>3. Chained(Rest(f)) /\ Onward(f, Rest(f))
    BY <2>2, RestOnward
  <2> QED
    BY <1>2, <2>1, <2>3, GoQuiet, QuietStep
<1>3. CASE /\ reconnecting' = 1 /\ current' = f
           /\ flow' = [flow EXCEPT ![f].kind = "reconnect", ![f].todo = Reconnect]
  <2>1. OuterType' /\ (stopping' <=> stopping) /\ (active' <=> active)
    BY <1>3 DEF IInv, AppType, OuterType, React, process
  <2>2. Aside
    BY <1>1, <2>1, AsideHolds DEF React, process
  <2>3. flow \in [Flows -> FlowState] /\ Chained(Reconnect) /\ Reconnect \in Seq(Ops)
    BY ListsChained DEF IInv, AppType, Chained
  <2>4. flow' = [flow EXCEPT ![f] = [flow[f] EXCEPT !.kind = "reconnect",
                                                    !.todo = Reconnect]]
    BY <1>3, <2>3 DEF FlowState
  <2>5. /\ flow' \in [Flows -> FlowState] /\ \A g \in Flows \ {f} : flow'[g] = flow[g]
        /\ flow'[f].todo = Reconnect
    BY <2>3, <2>4 DEF FlowState, Kinds
  <2>6. First(Reconnect, {"delay"})
    BY ReconnectBegins
  <2>7. First(flow'[f].todo, {"delay"})
    BY <2>5, <2>6
  <2>8. Moves(f)
    BY <1>3, <2>3, <2>5, <2>7 DEF Moves, Same, First
  <2>9. AppType'
    BY <2>1, <2>8, MovesType
  <2>10. /\ ~At(f, {"start"})' /\ ~Past(f)' /\ ~Doomed(f)'
         /\ ~Past(f) /\ ~Owns(f) /\ ~Cares(f)
    BY <1>1, <2>7 DEF At, First, Past, Doomed, Owns, Cares
  <2> QED
    BY <2>1, <2>2, <2>8, <2>9, <2>10, QuietStep DEF Quiet, Aside
<1> QED
  BY <1>2, <1>3 DEF React

\* The reconnection is over.
LEMMA ReconnectedStep ==
  ASSUME IInv, NEW f \in Flows, Reconnected(f)
  PROVE  IInv'
<1>1. At(f, {"reconnected"}) /\ ~Over
  BY RunsAt DEF Reconnected
<1>2. OuterType' /\ (stopping' <=> stopping) /\ (active' <=> active)
  BY DEF IInv, AppType, OuterType, Reconnected, process
<1>3. Aside
  BY <1>1, <1>2, AsideHolds DEF Reconnected, process
<1>4. At(f, Plain)
  BY <1>1 DEF At, First, Plain
<1>5. Chained(Rest(f)) /\ Onward(f, Rest(f))
  BY <1>4, RestOnward
<1> QED
  BY <1>2, <1>3, <1>5, GoQuiet, QuietStep DEF Reconnected

\* The reconnection looks on, is over, or tries again.
LEMMA WatchStep ==
  ASSUME IInv, NEW f \in Flows, Watch(f)
  PROVE  IInv'
<1>1. At(f, {"watch"}) /\ ~Over
  <2>1. Runs(f, {"watch"}) \/ Resumes(f, {"watch"})
    BY DEF Watch
  <2> QED
    BY <2>1, RunsAt
<1>2. OuterType' /\ (stopping' <=> stopping) /\ (active' <=> active)
  BY DEF IInv, AppType, OuterType, Watch, process
<1>3. Aside
  BY <1>1, <1>2, AsideHolds DEF Watch, process
<1>4. At(f, Plain) /\ At(f, Idle) /\ At(f, Idle \cup {"release", "stop", "relay", "start"})
  BY <1>1 DEF At, First, Plain, Idle
<1>5. Chained(Rest(f)) /\ Onward(f, Rest(f))
  BY <1>4, RestOnward
<1>6. Chained(Reconnect) /\ Onward(f, Reconnect)
  <2>1. FirstIfAny(Reconnect, Idle)
    BY ReconnectBegins DEF First, FirstIfAny, Idle
  <2> QED
    BY <1>4, <2>1, ListsChained DEF Onward
<1>7. CASE Awaits(f)
  BY <1>2, <1>3, <1>4, <1>7, AwaitQuiet, QuietStep
<1>8. CASE Goes(f, Rest(f))
  BY <1>2, <1>3, <1>5, <1>8, GoQuiet, QuietStep
<1>9. CASE Goes(f, Reconnect)
  BY <1>2, <1>3, <1>6, <1>9, GoQuiet, QuietStep
<1> QED
  BY <1>7, <1>8, <1>9 DEF Watch

\* Who waits is answered with a failure, and stays where it is.
LEMMA AbandonedSame ==
  ASSUME NEW flows \in [Flows -> FlowState]
  PROVE  /\ Abandoned(flows) \in [Flows -> FlowState]
         /\ \A g \in Flows : /\ Abandoned(flows)[g].todo = flows[g].todo
                             /\ Abandoned(flows)[g].obj = flows[g].obj
                             /\ Abandoned(flows)[g].at = flows[g].at
<1>1. ASSUME NEW g \in Flows
      PROVE  /\ Abandoned(flows)[g] \in FlowState
             /\ Abandoned(flows)[g].todo = flows[g].todo
             /\ Abandoned(flows)[g].obj = flows[g].obj
             /\ Abandoned(flows)[g].at = flows[g].at
  <2>1. flows[g] \in FlowState
    OBVIOUS
  <2>2. \/ Abandoned(flows)[g] = flows[g]
        \/ Abandoned(flows)[g] = [flows[g] EXCEPT !.answer = "failed"]
    BY DEF Abandoned
  <2> QED
    BY <2>1, <2>2 DEF FlowState
<1>2. Abandoned(flows) = [g \in Flows |-> Abandoned(flows)[g]]
  BY DEF Abandoned
<1> QED
  BY <1>1, <1>2

\* With the worker go its commands and its session.
LEMMA CloseWorkerStep ==
  ASSUME IInv, NEW f \in Flows, CloseWorker(f)
  PROVE  IInv'
<1>1. At(f, {"closeWorker"}) /\ ~Over /\ flow[f].todo # <<>>
  <2>1. Runs(f, {"closeWorker"}) \/ Resumes(f, {"closeWorker"})
    BY DEF CloseWorker
  <2> QED
    BY <2>1, RunsAt
<1>2. At(f, Plain) /\ At(f, Idle \cup {"release", "stop", "relay", "start"})
  BY <1>1 DEF At, First, Plain, Idle
<1>3. Chained(Rest(f)) /\ Onward(f, Rest(f)) /\ First(Rest(f), {"closed"})
  BY <1>1, <1>2, RestOnward, Follows DEF At, First, Rest, IInv, Tidy
<1>4. CASE /\ Goes(f, Rest(f)) \/ Awaits(f)
           /\ UNCHANGED <<window, player, exited, process, crashed, dropped>>
  <2>1. Aside /\ (stopping' <=> stopping) /\ (active' <=> active)
    BY <1>1, <1>4, UntouchedAside
  <2>2. CASE Goes(f, Rest(f))
    BY <1>3, <2>1, <2>2, GoQuiet, QuietStep
  <2>3. CASE Awaits(f)
    BY <1>2, <2>1, <2>3, AwaitQuiet, QuietStep
  <2> QED
    BY <1>4, <2>2, <2>3
<1>5. CASE /\ flow' = Abandoned([flow EXCEPT ![f].todo = Rest(f), ![f].at = "run"])
           /\ current' = f /\ worker' = "none" /\ commands' = <<>> /\ session' = NoSession
           /\ UNCHANGED <<window, player, exited, crashed, dropped>>
  <2> DEFINE flows == [flow EXCEPT ![f].todo = Rest(f), ![f].at = "run"]
  <2>1. flow \in [Flows -> FlowState] /\ Rest(f) \in Seq(Ops)
    BY <1>3 DEF IInv, AppType, Chained
  <2>2. flows = [flow EXCEPT ![f] = [flow[f] EXCEPT !.todo = Rest(f), !.at = "run"]]
    BY <2>1 DEF FlowState
  <2>3. /\ flows \in [Flows -> FlowState] /\ \A g \in Flows \ {f} : flows[g] = flow[g]
        /\ flows[f].todo = Rest(f) /\ flows[f].at = "run"
    BY <2>1, <2>2 DEF FlowState
  <2> HIDE DEF flows
  <2>4. /\ flow' \in [Flows -> FlowState]
        /\ \A g \in Flows : /\ flow'[g].todo = flows[g].todo
                            /\ flow'[g].obj = flows[g].obj /\ flow'[g].at = flows[g].at
    BY <1>5, <2>3, AbandonedSame DEF flows
  <2>5. Moves(f) /\ flow'[f].todo = Rest(f)
    BY <1>3, <1>5, <2>3, <2>4 DEF Moves, Same, First
  <2>6. OuterType' /\ (stopping' <=> stopping) /\ (active' <=> active)
    BY <1>5 DEF IInv, AppType, OuterType, window, NoSession
  <2>7. KeepsPlayers
    <3>1. ASSUME NEW p \in Players
          PROVE  ~Piped(p)'
      BY <1>5, AppAssumption DEF Piped, NoSession
    <3> QED
      BY <1>5, <3>1 DEF KeepsPlayers, Lives
  <2>8. Aside
    BY <1>1, <1>5, <2>6, <2>7 DEF Aside, window
  <2>9. AppType'
    BY <2>5, <2>6, MovesType
  <2>10. /\ ~At(f, {"start"})' /\ ~Past(f)' /\ ~Doomed(f)'
         /\ ~Past(f) /\ ~Owns(f) /\ ~Cares(f)
    BY <1>1, <1>3, <2>5 DEF At, First, Past, Doomed, Owns, Cares
  <2> QED
    BY <2>5, <2>6, <2>8, <2>9, <2>10, QuietStep DEF Quiet, Aside
<1> QED
  BY <1>4, <1>5 DEF CloseWorker

\* The window closes.
LEMMA ClosedStep ==
  ASSUME IInv, NEW f \in Flows, Closed(f)
  PROVE  IInv'
<1>1. At(f, {"closed"}) /\ ~Over
  BY RunsAt DEF Closed
<1>2. OuterType' /\ (stopping' <=> stopping) /\ (active' <=> active)
  BY DEF IInv, AppType, OuterType, Closed, process
<1>3. Aside
  BY <1>1, <1>2, AsideHolds DEF Closed, process
<1>4. At(f, Plain)
  BY <1>1 DEF At, First, Plain
<1>5. Chained(Rest(f)) /\ Onward(f, Rest(f))
  BY <1>4, RestOnward
<1> QED
  BY <1>2, <1>3, <1>5, GoQuiet, QuietStep DEF Closed

-----------------------------------------------------------------------------
(* The user, the events, the processes.                                      *)

\* A method that begins owes nothing yet.
LEMMA BeginStep ==
  ASSUME IInv, Aside, stopping' <=> stopping, active' <=> active, NEW kind \in Kinds,
         NEW todo, Chained(todo), First(todo, {"connect?", "stop?", "clear"}),
         Begin(kind, todo)
  PROVE  IInv'
<1>1. todo # <<>>
  BY DEF First
<1>2. PICK f \in Flows : /\ Moves(f) /\ flow[f].todo = <<>> /\ flow'[f].todo = todo
                         /\ flow'[f].at = "run"
  BY <1>1, BeginDoes DEF IInv
<1>3. AppType'
  BY <1>2, MovesType DEF Aside
<1>4. ~Past(f) /\ ~Owns(f) /\ ~Cares(f)
  BY <1>2 DEF Past, Owns, Cares, At, First
<1>5. ~Past(f)' /\ ~Doomed(f)' /\ ~At(f, {"start"})'
  BY <1>2 DEF Past, Doomed, At, First
<1> QED
  BY <1>2, <1>3, <1>4, <1>5, QuietStep DEF Quiet, Aside

\* How the methods begin
LEMMA Beginnings ==
  /\ First(Connect, {"connect?", "stop?", "clear"})
  /\ First(Stop, {"connect?", "stop?", "clear"})
  /\ First(Close, {"connect?", "stop?", "clear"})
  /\ First(Clear, {"connect?", "stop?", "clear"})
  /\ First(Clear \o <<>>, {"connect?", "stop?", "clear"})
  /\ First(Clear \o <<"react">>, {"connect?", "stop?", "clear"})
<1>1. /\ First(Connect, {"connect?", "stop?", "clear"})
      /\ First(Stop, {"connect?", "stop?", "clear"})
      /\ First(Clear, {"connect?", "stop?", "clear"})
  BY DEF First, Connect, Stop, Clear
<1>2. /\ Chained(Stop) /\ Stop # <<>> /\ Stop[1] = "stop?" /\ Stop[Len(Stop)] = "stopped"
      /\ Chained(Clear) /\ Clear # <<>> /\ Clear[1] = "clear"
      /\ Clear[Len(Clear)] = "cleared"
  BY ListsChained DEF Stop, Clear
<1>3. /\ Chained(<<"closeWorker", "closed">>) /\ Chained(<<"react">>)
  BY DEF Chained, Link, Before, Only, Ops
<1>4. Clear \o <<>> = Clear
  BY DEF Clear
<1>5. First(Close, {"connect?", "stop?", "clear"})
  <2>1. Close # <<>> /\ Close[1] = "stop?" /\ Chained(Close)
    BY <1>2, <1>3, JoinChained DEF Close, Joins
  <2> QED
    BY <2>1 DEF First, Chained
<1>6. First(Clear \o <<"react">>, {"connect?", "stop?", "clear"})
  <2> DEFINE c == Clear \o <<"react">>
  <2>1. c # <<>> /\ c[1] = "clear" /\ Chained(c)
    BY <1>2, <1>3, JoinChained DEF Joins
  <2> HIDE DEF c
  <2>2. Head(c) = "clear"
    BY <2>1 DEF Chained
  <2> QED
    BY <2>1, <2>2 DEF First, c
<1> QED
  BY <1>1, <1>4, <1>5, <1>6

\* The buttons
LEMMA UserStep ==
  ASSUME IInv, UserConnects \/ UserDisconnects
  PROVE  IInv'
<1>1. ~Over
  BY DEF UserConnects, UserDisconnects, Begin, Between
<1>2. Aside /\ (stopping' <=> stopping) /\ (active' <=> active)
  BY <1>1, UntouchedAside DEF UserConnects, UserDisconnects
<1>3. Begin("button", Connect) \/ Begin("button", Stop)
  BY DEF UserConnects, UserDisconnects
<1> QED
  BY <1>2, <1>3, BeginStep, Beginnings, ListsChained DEF Kinds

\* The window's close
LEMMA UserClosesStep ==
  ASSUME IInv, UserCloses
  PROVE  IInv'
<1>1. ~Over
  BY DEF UserCloses, Begin, Between
<1>2. OuterType' /\ (stopping' <=> stopping) /\ (active' <=> active)
  BY DEF IInv, AppType, OuterType, UserCloses, process
<1>3. Aside
  BY <1>1, <1>2, AsideHolds DEF UserCloses, process
<1> QED
  BY <1>2, <1>3, BeginStep, Beginnings, ListsChained DEF UserCloses, Kinds

\* The end of a session
LEMMA SessionEndsStep ==
  ASSUME IInv, SessionEnds
  PROVE  IInv'
<1>1. ~Over
  BY DEF SessionEnds, Begin, Between
<1>0. /\ UNCHANGED <<worker, commands, session, player, exited, crashed, dropped>>
      /\ running' \in BOOLEAN /\ UNCHANGED <<stopping, active, mpv, reconnecting, closing>>
  <2>1. running' = FALSE
    BY DEF SessionEnds
  <2> QED
    BY <2>1 DEF SessionEnds, Read
<1>2. OuterType' /\ (stopping' <=> stopping) /\ (active' <=> active)
  BY <1>0 DEF IInv, AppType, OuterType
<1>3. Aside
  BY <1>1, <1>2, AsideHolds DEF SessionEnds, Read
<1>4. Begin("event", Clear \o <<>>) \/ Begin("event", Clear \o <<"react">>)
  BY DEF SessionEnds
<1> QED
  BY <1>2, <1>3, <1>4, BeginStep, Beginnings, ListsChained DEF Kinds

\* The player's exit, decided upon
LEMMA FallbackStep ==
  ASSUME IInv, Fallback
  PROVE  IInv'
<1>1. ~Over
  BY DEF Fallback, Begin, Between
<1>2. OuterType' /\ (stopping' <=> stopping) /\ (active' <=> active)
  BY DEF IInv, AppType, OuterType, Fallback, Read, window
<1>3. Aside
  BY <1>1, <1>2, AsideHolds DEF Fallback, Read, window
<1> QED
  BY <1>2, <1>3, BeginStep, Beginnings, ListsChained DEF Kinds, Fallback

\* Steps at which no method moves
LEMMA UnmovedStep ==
  ASSUME IInv, ~Over, OuterType', KeepsPlayers, UNCHANGED flow,
         UNCHANGED <<stopping, active, mpv, current, dropped>>
  PROVE  IInv'
<1>1. AppType' /\ \A g \in Flows : Same(g)
  BY DEF IInv, AppType, Same
<1> QED
  BY <1>1, StillStep DEF Still

\* An answer
LEMMA AnsweredStep ==
  ASSUME IInv, Answered
  PROVE  IInv'
<1> DEFINE m == Head(inbox)
<1>1. /\ ~Over /\ m.what \in {"ok", "failed"} /\ flow \in [Flows -> FlowState]
      /\ UNCHANGED <<stopping, active, running, mpv, reconnecting, closing, current>>
      /\ UNCHANGED <<worker, commands, session, player, exited, crashed, dropped>>
      /\ flow' = IF m.by = None THEN flow ELSE [flow EXCEPT ![m.by].answer = m.what]
  BY DEF Answered, Read, Between, IInv, AppType, window
<1> HIDE DEF m
<1>2. flow' \in [Flows -> FlowState] /\ \A g \in Flows : Same(g)
  <2>1. CASE flow' = flow
    BY <1>1, <2>1 DEF Same
  <2>2. CASE m.by \in Flows /\ flow' = [flow EXCEPT ![m.by].answer = m.what]
    <3> DEFINE b == m.by
               what == m.what
    <3>1. flow' = [flow EXCEPT ![b] = [flow[b] EXCEPT !.answer = what]] /\ b \in Flows
            /\ what \in {"ok", "failed"}
      BY <1>1, <2>2 DEF FlowState
    <3> HIDE DEF b, what
    <3>3. flow \in [Flows -> FlowState]
      BY <1>1
    <3>4. [flow[b] EXCEPT !.answer = what] \in FlowState
      BY <3>1, <3>3 DEF FlowState
    <3>5. flow'[b] = [flow[b] EXCEPT !.answer = what]
      BY <3>1, <3>3
    <3>2. /\ flow' \in [Flows -> FlowState]
          /\ \A g \in Flows \ {b} : flow'[g] = flow[g]
          /\ flow'[b].todo = flow[b].todo /\ flow'[b].obj = flow[b].obj
          /\ flow'[b].at = flow[b].at
      BY <3>1, <3>3, <3>4, <3>5 DEF FlowState
    <3> QED
      BY <3>2 DEF Same
  <2>3. CASE m.by \notin Flows /\ flow' = [flow EXCEPT ![m.by].answer = m.what]
    <3>1. flow' = [g \in Flows |-> IF g = m.by THEN [flow[m.by] EXCEPT !.answer = m.what]
                                   ELSE flow[g]]
      BY <1>1, <2>3
    <3>2. flow' = flow
      BY <1>1, <2>3, <3>1
    <3> QED
      BY <2>1, <3>2
  <2> QED
    BY <1>1, <2>1, <2>2, <2>3
<1>3. OuterType'
  BY <1>1 DEF IInv, AppType, OuterType
<1>4. KeepsPlayers
  BY <1>1 DEF KeepsPlayers, Lives, Piped
<1>5. AppType'
  BY <1>1, <1>2, <1>3 DEF IInv, AppType
<1> QED
  BY <1>1, <1>2, <1>4, <1>5, StillStep DEF Still

\* The states of a session
LEMMA SessionStartsStep ==
  ASSUME IInv, SessionStarts
  PROVE  IInv'
<1>1. /\ ~Over /\ UNCHANGED flow /\ UNCHANGED <<stopping, active, mpv, current, dropped>>
      /\ UNCHANGED <<player, commands, session>>
      /\ running' \in BOOLEAN /\ UNCHANGED <<reconnecting, closing, exited, worker, crashed>>
  BY DEF SessionStarts, Read, Between
<1>2. OuterType'
  BY <1>1 DEF IInv, AppType, OuterType
<1>3. KeepsPlayers
  BY <1>1 DEF KeepsPlayers, Lives, Piped
<1> QED
  BY <1>1, <1>2, <1>3, UnmovedStep

\* A player's exit is looked at.
LEMMA PlayerExitedStep ==
  ASSUME IInv, PlayerExited
  PROVE  IInv'
<1>1. /\ ~Over /\ UNCHANGED flow /\ UNCHANGED <<stopping, active, mpv, current, dropped>>
      /\ UNCHANGED <<player, commands, session, running, reconnecting, closing, worker>>
      /\ UNCHANGED crashed
  BY DEF PlayerExited, Between, window
<1>2. exited' \in BOOLEAN
  <2>1. exited' = FALSE
    BY DEF PlayerExited
  <2> QED
    BY <2>1
<1>3. OuterType'
  BY <1>1, <1>2 DEF IInv, AppType, OuterType
<1>4. KeepsPlayers
  BY <1>1 DEF KeepsPlayers, Lives, Piped
<1> QED
  BY <1>1, <1>3, <1>4, UnmovedStep

\* A player exits.
LEMMA PlayerDiesStep ==
  ASSUME IInv, NEW p \in Players, PlayerDies(p)
  PROVE  IInv'
<1>1. /\ ~Over /\ UNCHANGED flow /\ UNCHANGED <<stopping, active, mpv, current, dropped>>
      /\ UNCHANGED <<commands, session>>
      /\ player[p] \in {"alive", "killed"} /\ player' = [player EXCEPT ![p] = "exited"]
      /\ player \in [Players -> {"none", "alive", "killed", "exited", "closed"}]
  BY DEF PlayerDies, Between, window, process, IInv, AppType, OuterType
<1>2. OuterType'
  BY <1>1 DEF IInv, AppType, OuterType, PlayerDies, window, process
<1>3. KeepsPlayers
  BY <1>1 DEF KeepsPlayers, Lives, Piped
<1> QED
  BY <1>1, <1>2, <1>3, UnmovedStep

\* The worker takes a command, or its session goes on: pipes are handed on or closed.
LEMMA WorkerStep ==
  ASSUME IInv, NEW es, Writes(es), commands' \in Seq(Command),
         session' \in [phase : {"none", "accepted", "starting", "running"},
                       ending : BOOLEAN, player : Players \cup {None}],
         \A p \in Players : Piped(p)' => Piped(p)
  PROVE  IInv'
<1>1. /\ ~Over /\ UNCHANGED <<window, player, flow, current, exited, worker, crashed, dropped>>
  BY DEF Writes, Between
<1>2. OuterType'
  BY <1>1 DEF IInv, AppType, OuterType, window
<1>3. KeepsPlayers
  BY <1>1 DEF KeepsPlayers, Lives
<1> QED
  BY <1>1, <1>2, <1>3, UnmovedStep DEF window

\* What is left of the commands when the first is taken
LEMMA TakenPipes ==
  ASSUME IInv, commands # <<>>, commands' = Tail(commands)
  PROVE  /\ commands' \in Seq(Command) /\ Head(commands) \in Command
         /\ \A i \in DOMAIN commands' : i + 1 \in DOMAIN commands
                                        /\ commands'[i] = commands[i + 1]
         /\ 1 \in DOMAIN commands /\ Head(commands) = commands[1]
<1>1. commands \in Seq(Command) /\ Len(commands) \in Nat /\ Len(commands) > 0
  BY DEF IInv, AppType, OuterType
<1>2. commands' \in Seq(Command) /\ Len(commands') = Len(commands) - 1
  BY <1>1
<1>3. DOMAIN commands = 1..Len(commands) /\ DOMAIN commands' = 1..(Len(commands) - 1)
  BY <1>1, <1>2
<1>4. \A i \in 1..(Len(commands) - 1) : commands'[i] = commands[i + 1]
  BY <1>1
<1>5. Head(commands) = commands[1] /\ 1 \in DOMAIN commands /\ commands[1] \in Command
  BY <1>1, <1>3
<1>6. \A i \in 1..(Len(commands) - 1) : i + 1 \in 1..Len(commands)
  BY <1>1
<1> QED
  BY <1>2, <1>3, <1>4, <1>5, <1>6

\* The session has the pipe that its command brought.
LEMMA TakeStartStep ==
  ASSUME IInv, TakeStart
  PROVE  IInv'
<1>1. /\ commands' \in Seq(Command) /\ Head(commands) \in Command
      /\ \A i \in DOMAIN commands' : i + 1 \in DOMAIN commands
                                     /\ commands'[i] = commands[i + 1]
      /\ 1 \in DOMAIN commands /\ Head(commands) = commands[1]
  BY TakenPipes DEF TakeStart
<1>2. \/ session' = session
      \/ session' = [phase |-> "accepted", ending |-> FALSE, player |-> Head(commands).player]
  BY DEF TakeStart
<1>3. session' \in [phase : {"none", "accepted", "starting", "running"},
                    ending : BOOLEAN, player : Players \cup {None}]
  <2> DEFINE p == Head(commands).player
  <2>1. p \in Players \cup {None}
    BY <1>1 DEF Command
  <2> HIDE DEF p
  <2>2. [phase |-> "accepted", ending |-> FALSE, player |-> p]
          \in [phase : {"none", "accepted", "starting", "running"},
              ending : BOOLEAN, player : Players \cup {None}]
    BY <2>1
  <2> QED
    BY <1>2, <2>2 DEF IInv, AppType, OuterType, p
<1>4. session'.player = session.player \/ session'.player = commands[1].player
  BY <1>1, <1>2
<1>5. \A p \in Players : Piped(p)' => Piped(p)
  BY <1>1, <1>4 DEF Piped
<1>6. \E es : Writes(es)
  BY DEF TakeStart
<1> QED
  BY <1>1, <1>3, <1>5, <1>6, WorkerStep

\* A stop, taken or answered
LEMMA TakeStopStep ==
  ASSUME IInv, TakeStop
  PROVE  IInv'
<1>1. CASE commands' = Tail(commands) /\ UNCHANGED session
  <2>1. /\ commands' \in Seq(Command)
        /\ \A i \in DOMAIN commands' : i + 1 \in DOMAIN commands
                                       /\ commands'[i] = commands[i + 1]
    BY <1>1, TakenPipes DEF TakeStop
  <2>2. \A p \in Players : Piped(p)' => Piped(p)
    BY <1>1, <2>1 DEF Piped
  <2>3. \E es : Writes(es)
    BY DEF TakeStop
  <2> QED
    BY <1>1, <2>1, <2>2, <2>3, WorkerStep DEF IInv, AppType, OuterType
<1>2. CASE session' = [session EXCEPT !.ending = TRUE] /\ UNCHANGED commands
  <2>1. /\ commands' \in Seq(Command) /\ session'.player = session.player
        /\ session' \in [phase : {"none", "accepted", "starting", "running"},
                         ending : BOOLEAN, player : Players \cup {None}]
    BY <1>2 DEF IInv, AppType, OuterType
  <2>2. \A p \in Players : Piped(p)' => Piped(p)
    BY <1>2, <2>1 DEF Piped
  <2>3. \E es : Writes(es)
    BY DEF TakeStop
  <2> QED
    BY <2>1, <2>2, <2>3, WorkerStep
<1> QED
  BY <1>1, <1>2 DEF TakeStop

\* A session goes on, or ends, with its pipe.
LEMMA PassesStep ==
  ASSUME IInv, NEW from, NEW phase \in {"none", "starting", "running"}, NEW es,
         Passes(from, phase, es)
  PROVE  IInv'
<1>1. session' = NoSession \/ session' = [session EXCEPT !.phase = phase]
  BY DEF Passes
<1>2. /\ session' \in [phase : {"none", "accepted", "starting", "running"},
                       ending : BOOLEAN, player : Players \cup {None}]
      /\ session'.player = None \/ session'.player = session.player
  <2>1. CASE session' = NoSession
    BY <2>1 DEF NoSession
  <2>2. CASE session' = [session EXCEPT !.phase = phase]
    BY <2>2 DEF IInv, AppType, OuterType
  <2> QED
    BY <1>1, <2>1, <2>2
<1>3. commands' = commands /\ Writes(es)
  BY DEF Passes
<1>4. \A p \in Players : Piped(p)' => Piped(p)
  BY <1>2, <1>3, AppAssumption DEF Piped
<1> QED
  BY <1>2, <1>3, <1>4, WorkerStep DEF IInv, AppType, OuterType

\* The worker's own steps
LEMMA SessionStep ==
  ASSUME IInv, Proceeds \/ Ends
  PROVE  IInv'
<1>1. \E from : \E phase \in {"none", "starting", "running"} : \E es :
        Passes(from, phase, es)
  BY DEF Proceeds, Ends
<1> QED
  BY <1>1, PassesStep

\* The worker exits, and its commands and its session with it.
LEMMA WorkerExitsStep ==
  ASSUME IInv, WorkerExits
  PROVE  IInv'
<1>1. /\ ~Over /\ UNCHANGED <<window, player, current, exited, crashed, dropped>>
      /\ flow' = Abandoned(flow) /\ worker' = "exited" /\ commands' = <<>>
      /\ session' = NoSession
  BY DEF WorkerExits, Between
<1>2. flow' \in [Flows -> FlowState] /\ \A g \in Flows : Same(g)
  BY <1>1, AbandonedSame DEF IInv, AppType, Same
<1>3. OuterType'
  BY <1>1 DEF IInv, AppType, OuterType, window, NoSession
<1>4. KeepsPlayers
  <2>1. ASSUME NEW p \in Players
        PROVE  ~Piped(p)'
    BY <1>1, AppAssumption DEF Piped, NoSession
  <2> QED
    BY <1>1, <2>1 DEF KeepsPlayers, Lives
<1>5. AppType'
  BY <1>1, <1>2, <1>3 DEF IInv, AppType
<1> QED
  BY <1>1, <1>2, <1>4, <1>5, StillStep DEF Still, window

-----------------------------------------------------------------------------
(* Actions that stop, start, and lose a player.                              *)

\* Who owns _stopping also cares for the player.
LEMMA OwnerCares ==
  ASSUME NEW f, Owns(f)
  PROVE  Cares(f)
BY DEF Owns, Cares, At, First

\* An unmoved method keeps its roles.
LEMMA OthersRoles ==
  ASSUME NEW f \in Flows, Moves(f)
  PROVE  \A g \in Flows \ {f} : /\ \A ops : At(g, ops)' <=> At(g, ops)
                                /\ Past(g)' <=> Past(g)
                                /\ Doomed(g)' <=> Doomed(g)
                                /\ Owns(g)' <=> Owns(g)
                                /\ Cares(g)' <=> Cares(g)
                                /\ flow'[g].obj = flow[g].obj
<1>1. \A g \in Flows \ {f} : Same(g)
  BY DEF Moves
<1> QED
  BY <1>1, SameRoles DEF Same

\* A stop that is entered is its method's; one that is turned away is somebody else's.
LEMMA EnterStep ==
  ASSUME IInv, NEW f \in Flows, Enter(f)
  PROVE  IInv'
<1>0. /\ AppType /\ Tidy /\ DoomInv /\ FreshInv /\ HeldInv /\ OwnedInv
      /\ MournedInv /\ CaredInv
  BY DEF IInv
<1> DEFINE s == flow[f].todo
           end == IF Op(f) = "stop?" THEN "stopped" ELSE "connected"
<1>1. At(f, {"connect?", "stop?"}) /\ ~Over /\ s # <<>> /\ Chained(s)
        /\ Op(f) \in {"connect?", "stop?"}
  BY RunsAt DEF Enter
<1>2. /\ UNCHANGED <<active, running, mpv, reconnecting, closing, player, exited, process,
                     crashed, dropped>>
      /\ stopping' = TRUE
  BY DEF Enter
<1>3. Chained(After(s, end)) /\ FirstIfAny(After(s, end), {"ensure", "watch", "closeWorker"})
  <2>1. CASE Op(f) = "stop?"
    <3>1. First(s, {"stop?", "dispose"}) /\ end = "stopped"
      BY <1>1, <2>1 DEF First, Op
    <3> QED
      BY <1>1, <3>1, AfterStopped
  <2>2. CASE Op(f) = "connect?"
    <3>1. First(s, {"connect?"}) /\ end = "connected"
      BY <1>1, <2>2 DEF First, Op
    <3>2. Chained(After(s, end)) /\ FirstIfAny(After(s, end), {"watch"})
      BY <1>1, <3>1, AfterConnected
    <3> QED
      BY <3>2 DEF FirstIfAny
  <2> QED
    BY <1>1, <2>1, <2>2
<1>4. /\ Chained(After(s, "stop")) /\ First(After(s, "stop"), {"dispose"})
      /\ First(Rest(f), {"release"}) /\ Chained(Rest(f))
  <2>1. First(s, {"stop?", "connect?"})
    BY <1>1 DEF At, First
  <2> QED
    BY <1>1, <2>1, AfterStop, Follows DEF Rest
<1>5. \/ stopping /\ Goes(f, After(s, end))
      \/ Goes(f, Rest(f))
      \/ Goes(f, After(s, "stop"))
  BY DEF Enter
<1> HIDE DEF s, end
<1>6. ~Past(f) /\ ~Owns(f)
  BY <1>1 DEF Past, Owns, At, First
<1>7. /\ Moves(f) /\ ~At(f, {"start"})' /\ ~Past(f)' /\ ~Doomed(f)'
      /\ \E g \in Flows : Owns(g)' /\ Cares(g)'
  <2>1. ASSUME stopping, Goes(f, After(s, end))
        PROVE  <1>7!:
    <3>1. Moves(f) /\ flow'[f].todo = After(s, end)
      BY <1>0, <1>3, <2>1, GoesDoes
    <3>2. PICK g \in Flows : Owns(g)
      BY <1>0, <2>1 DEF OwnedInv
    <3>3. Owns(g)' /\ Cares(g)'
      BY <1>6, <3>1, <3>2, OthersRoles, OwnerCares
    <3> QED
      BY <1>3, <3>1, <3>3 DEF At, First, FirstIfAny, Past, Doomed
  <2>2. ASSUME NEW todo, Chained(todo), First(todo, {"release", "dispose"}), Goes(f, todo)
        PROVE  <1>7!:
    <3>1. /\ Moves(f) /\ flow'[f].todo = todo
          /\ todo # <<>> => flow'[f].at = "run"
      BY <1>0, <2>2, GoesDoes
    <3>2. Owns(f)' /\ Cares(f)' /\ flow'[f].at = "run"
      BY <2>2, <3>1 DEF Owns, Cares, At, First
    <3> QED
      BY <2>2, <3>1, <3>2 DEF At, First, Past, Doomed
  <2>3. First(Rest(f), {"release", "dispose"}) /\ First(After(s, "stop"), {"release", "dispose"})
    BY <1>4 DEF First
  <2> QED
    BY <1>4, <1>5, <2>1, <2>2, <2>3
<1>8. AppType'
  <2>1. OuterType'
    BY <1>0, <1>2 DEF AppType, OuterType, process
  <2> QED
    BY <1>7, <2>1, MovesType
<1>9. Tidy'
  BY <1>0, <1>7, MovesTidy
<1>10. DoomInv'
  BY <1>0, <1>2, <1>7, OthersRoles DEF DoomInv, Piped, process
<1>11. FreshInv'
  BY <1>7, AppAssumption DEF FreshInv, Moves
<1>12. HeldInv'
  BY <1>0, <1>2 DEF HeldInv, Piped, process
<1>13. OwnedInv' /\ CaredInv'
  BY <1>7 DEF OwnedInv, CaredInv
<1>14. MournedInv'
  BY <1>0, <1>1, <1>2, <1>6, <1>7, OthersRoles DEF MournedInv
<1> QED
  BY <1>8, <1>9, <1>10, <1>11, <1>12, <1>13, <1>14 DEF IInv

\* With its player's pipe go the commands' and the session's hold on it.
LEMMA UnpipedDoes ==
  ASSUME IInv, NEW p \in Players, Unpiped(p)
  PROVE  /\ commands' \in Seq(Command)
         /\ session' \in [phase : {"none", "accepted", "starting", "running"},
                          ending : BOOLEAN, player : Players \cup {None}]
         /\ ~Piped(p)' /\ \A q \in Players : Piped(q)' => Piped(q)
<1>1. /\ commands \in Seq(Command) /\ Len(commands) \in Nat
      /\ DOMAIN commands = 1..Len(commands)
      /\ p # None
      /\ session \in [phase : {"none", "accepted", "starting", "running"},
                      ending : BOOLEAN, player : Players \cup {None}]
  BY AppAssumption DEF IInv, AppType, OuterType
<1>2. \A i \in DOMAIN commands : commands[i] \in Command
  BY <1>1
<1>3. commands' = [i \in DOMAIN commands |->
                     IF commands[i].player = p THEN [commands[i] EXCEPT !.player = None]
                     ELSE commands[i]]
  BY DEF Unpiped
<1>4. ASSUME NEW i \in DOMAIN commands
      PROVE  /\ commands'[i] \in Command
             /\ commands'[i].player = None \/ commands'[i] = commands[i]
             /\ commands'[i].player # p
  <2>1. commands[i] \in Command
    BY <1>2
  <2>2. CASE commands[i].player = p
    <3>1. commands'[i] = [commands[i] EXCEPT !.player = None]
      BY <1>3, <2>2
    <3> QED
      BY <1>1, <2>1, <3>1 DEF Command
  <2>3. CASE commands[i].player # p
    <3>1. commands'[i] = commands[i]
      BY <1>3, <2>3
    <3> QED
      BY <2>1, <2>3, <3>1
  <2> QED
    BY <2>2, <2>3
<1>5. DOMAIN commands' = DOMAIN commands
  BY <1>3
<1>6. commands' \in Seq(Command)
  <2>1. commands' \in [1..Len(commands) -> Command]
    BY <1>1, <1>3, <1>4
  <2> QED
    BY <1>1, <2>1
<1>7. /\ session' \in [phase : {"none", "accepted", "starting", "running"},
                       ending : BOOLEAN, player : Players \cup {None}]
      /\ session'.player # p
      /\ session'.player = None \/ session' = session
  <2>1. session' = IF session.player = p THEN [session EXCEPT !.player = None] ELSE session
    BY DEF Unpiped
  <2>2. CASE session.player = p
    <3>1. session' = [session EXCEPT !.player = None]
      BY <2>1, <2>2
    <3> QED
      BY <1>1, <3>1
  <2>3. CASE session.player # p
    BY <1>1, <2>1, <2>3
  <2> QED
    BY <2>2, <2>3
<1>8. ~Piped(p)'
  BY <1>4, <1>5, <1>7 DEF Piped
<1>9. ASSUME NEW q \in Players, Piped(q)'
      PROVE  Piped(q)
  <2>1. q # None
    BY AppAssumption
  <2> QED
    BY <1>4, <1>5, <1>7, <1>9, <2>1 DEF Piped
<1> QED
  BY <1>6, <1>7, <1>8, <1>9

\* A player that is killed is seen out by who kills it.
LEMMA KillStep ==
  ASSUME IInv, NEW f \in Flows, Kill(f)
  PROVE  IInv'
<1>0. /\ AppType /\ Tidy /\ DoomInv /\ FreshInv /\ HeldInv /\ OwnedInv
      /\ MournedInv /\ CaredInv /\ f # None
  BY AppAssumption DEF IInv
<1>1. /\ At(f, {"dispose", "clear"}) /\ ~Over /\ flow[f].todo # <<>>
      /\ Chained(flow[f].todo) /\ Op(f) \in {"dispose", "clear"} /\ current = f
  BY RunsAt DEF Kill, Runs
<1>2. /\ UNCHANGED <<mpv, reconnecting, closing, worker, inbox, crashed, dropped>>
      /\ active' \in BOOLEAN /\ running' \in BOOLEAN /\ stopping' \in BOOLEAN
      /\ stopping' => stopping /\ (mpv # None \/ Op(f) = "clear")
  <2>1. active' = FALSE
    BY DEF Kill
  <2>2. active' \in BOOLEAN
    BY <2>1
  <2> QED
    BY <2>2 DEF Kill
<1>3. ~Past(f) /\ (Op(f) = "clear" => ~Owns(f))
  BY <1>1 DEF Past, Owns, At, First, Op
<1>4. /\ mpv \in Players \cup {None} /\ flow \in [Flows -> FlowState]
      /\ player \in [Players -> {"none", "alive", "killed", "exited", "closed"}]
  BY <1>0 DEF AppType, OuterType
<1>5. CASE mpv = None
  <2> DEFINE todo == After(flow[f].todo, Ending(f))
  <2>1. Goes(f, todo) /\ UNCHANGED <<player, exited, commands, session>>
    BY <1>5 DEF Kill
  <2>2. Chained(todo) /\ FirstIfAny(todo, {"ensure", "watch", "closeWorker", "react"})
    <3>1. CASE Op(f) = "clear"
      <4>1. First(flow[f].todo, {"clear"}) /\ Ending(f) = "cleared"
        BY <1>1, <3>1 DEF First, Op, Ending
      <4>2. Chained(todo) /\ FirstIfAny(todo, {"react"})
        BY <1>1, <4>1, AfterCleared
      <4> QED
        BY <4>2 DEF FirstIfAny
    <3>2. CASE Op(f) = "dispose"
      <4>1. First(flow[f].todo, {"stop?", "dispose"}) /\ Ending(f) = "stopped"
        BY <1>1, <3>2 DEF First, Op, Ending
      <4>2. Chained(todo) /\ FirstIfAny(todo, {"ensure", "watch", "closeWorker"})
        BY <1>1, <4>1, AfterStopped
      <4> QED
        BY <4>2 DEF FirstIfAny
    <3> QED
      BY <1>1, <3>1, <3>2
  <2> HIDE DEF todo
  <2>3. Moves(f) /\ flow'[f].todo = todo
    BY <1>0, <2>1, <2>2, GoesDoes
  <2>4. ~At(f, {"start"})' /\ ~Past(f)' /\ ~Doomed(f)'
    BY <2>2, <2>3 DEF At, First, FirstIfAny, Past, Doomed
  <2>5. AppType'
    <3>1. OuterType'
      BY <1>0, <1>2, <2>1 DEF AppType, OuterType
    <3> QED
      BY <2>3, <3>1, MovesType
  <2>6. Tidy'
    BY <1>0, <2>3, MovesTidy
  <2>7. DoomInv'
    BY <1>0, <2>1, <2>3, <2>4, OthersRoles DEF DoomInv, Piped
  <2>8. FreshInv'
    BY <2>3, <2>4, AppAssumption DEF FreshInv, Moves
  <2>9. HeldInv'
    BY <1>0, <1>2, <2>1 DEF HeldInv, Piped
  <2>10. OwnedInv'
    BY <1>0, <1>2, <1>3, <1>5, <2>3, OthersRoles DEF OwnedInv
  <2>11. MournedInv' /\ CaredInv'
    BY <1>2, <1>5 DEF MournedInv, CaredInv
  <2> QED
    BY <2>5, <2>6, <2>7, <2>8, <2>9, <2>10, <2>11 DEF IInv
<1>6. CASE mpv # None
  <2>0. PICK p \in Players : p = mpv
    BY <1>4, <1>6
  <2>1. p = mpv /\ p = mpv' /\ Unpiped(p)
    BY <1>2, <1>6, <2>0 DEF Kill, Unpiped
  <2>2. /\ commands' \in Seq(Command)
        /\ session' \in [phase : {"none", "accepted", "starting", "running"},
                         ending : BOOLEAN, player : Players \cup {None}]
        /\ ~Piped(p)' /\ \A q \in Players : Piped(q)' => Piped(q)
    BY <2>1, UnpipedDoes
  <2>3. CASE /\ player[mpv] \in {"alive", "killed"}
             /\ player' = [player EXCEPT ![mpv] = "killed"]
             /\ flow' = [flow EXCEPT ![f].at = "await", ![f].obj = mpv]
             /\ current' = None /\ UNCHANGED exited
    <3>1. flow' = [flow EXCEPT ![f] = [flow[f] EXCEPT !.at = "await", !.obj = mpv]]
      BY <1>4, <2>3 DEF FlowState
    <3>2. /\ flow' \in [Flows -> FlowState] /\ \A g \in Flows \ {f} : flow'[g] = flow[g]
          /\ flow'[f].todo = flow[f].todo /\ flow'[f].obj = p
      BY <1>4, <2>1, <3>1 DEF FlowState
    <3>3. Moves(f)
      BY <1>0, <1>1, <2>3, <3>2 DEF Moves, Same
    <3>4. (Owns(f)' <=> Owns(f)) /\ Cares(f)' /\ ~Past(f)'
      BY <1>1, <1>3, <3>2 DEF Owns, Cares, Past, At, First
    <3>5. player' \in [Players -> {"none", "alive", "killed", "exited", "closed"}]
            /\ player'[p] = "killed" /\ \A q \in Players \ {p} : player'[q] = player[q]
      BY <1>4, <2>1, <2>3
    <3>6. AppType'
      <4>1. OuterType'
        BY <1>0, <1>2, <2>2, <2>3, <3>5 DEF AppType, OuterType
      <4> QED
        BY <3>3, <4>1, MovesType
    <3>7. Tidy'
      BY <1>0, <3>3, MovesTidy
    <3>8. DoomInv'
      BY <1>0, <2>1, <2>2, <2>3, <3>2, <3>3, <3>4, <3>5, OthersRoles DEF DoomInv
    <3>9. FreshInv'
      BY <2>3, AppAssumption DEF FreshInv
    <3>10. HeldInv'
      BY <1>0, <1>2, <2>2, <2>3, <3>5 DEF HeldInv
    <3>11. OwnedInv'
      BY <1>0, <1>2, <3>3, <3>4, OthersRoles DEF OwnedInv
    <3>12. MournedInv' /\ CaredInv'
      BY <1>2, <2>1, <3>4, <3>5 DEF MournedInv, CaredInv
    <3> QED
      BY <3>6, <3>7, <3>8, <3>9, <3>10, <3>11, <3>12 DEF IInv
  <2>4. CASE /\ player' = [player EXCEPT ![mpv] = "closed"]
             /\ flow' = [flow EXCEPT ![f].todo = Rest(f), ![f].obj = mpv]
             /\ exited' \in {exited, exited \/ player[mpv] \in {"alive", "killed"}}
             /\ UNCHANGED current
    <3>1. /\ Chained(Rest(f)) /\ Rest(f) \in Seq(Ops) /\ First(Rest(f), {"relay"})
          /\ Op(f) = "dispose" => Rest(f)[2] = "stopped"
      BY <1>1, Follows DEF Rest, Op, Chained
    <3>2. flow' = [flow EXCEPT ![f] = [flow[f] EXCEPT !.todo = Rest(f), !.obj = mpv]]
      BY <1>4, <2>4 DEF FlowState
    <3>3. /\ flow' \in [Flows -> FlowState] /\ \A g \in Flows \ {f} : flow'[g] = flow[g]
          /\ flow'[f].todo = Rest(f) /\ flow'[f].obj = p
      BY <1>4, <2>1, <3>1, <3>2 DEF FlowState
    <3>4. Moves(f)
      BY <1>0, <1>1, <2>4, <3>1, <3>3 DEF Moves, Same, First
    <3>5. (Owns(f) => Owns(f)') /\ Cares(f)' /\ Past(f)' /\ ~At(f, {"start"})'
      BY <1>1, <1>3, <3>1, <3>3 DEF Owns, Cares, Past, At, First
    <3>6. player' \in [Players -> {"none", "alive", "killed", "exited", "closed"}]
            /\ player'[p] = "closed" /\ \A q \in Players \ {p} : player'[q] = player[q]
      BY <1>4, <2>1, <2>4
    <3>7. AppType'
      <4>1. exited' \in BOOLEAN
        BY <1>0, <2>4 DEF AppType, OuterType
      <4>2. OuterType'
        BY <1>0, <1>2, <2>2, <3>6, <4>1 DEF AppType, OuterType
      <4> QED
        BY <3>4, <4>2, MovesType
    <3>8. Tidy'
      BY <1>0, <3>4, MovesTidy
    <3>9. DoomInv'
      BY <1>0, <2>1, <2>2, <3>3, <3>4, <3>6, OthersRoles DEF DoomInv
    <3>10. FreshInv'
      BY <1>0, <1>1, <2>4, <3>5 DEF FreshInv
    <3>11. HeldInv'
      BY <1>0, <1>2, <2>2, <3>6 DEF HeldInv
    <3>12. OwnedInv'
      BY <1>0, <1>2, <3>4, <3>5, OthersRoles DEF OwnedInv
    <3>13. MournedInv' /\ CaredInv'
      BY <1>2, <2>1, <3>3, <3>5 DEF MournedInv, CaredInv
    <3> QED
      BY <3>7, <3>8, <3>9, <3>10, <3>11, <3>12, <3>13 DEF IInv
  <2> QED
    BY <1>6, <2>3, <2>4 DEF Kill
<1> QED
  BY <1>5, <1>6

\* Who has seen the player out goes on to put _mpv right; who finds it closed raises, and
\* the player that there is has somebody else, unless it is left behind.
LEMMA DisposedStep ==
  ASSUME IInv, NEW f \in Flows, Disposed(f)
  PROVE  IInv'
<1>0. /\ AppType /\ Tidy /\ DoomInv /\ FreshInv /\ HeldInv /\ OwnedInv
      /\ MournedInv /\ CaredInv /\ f # None
  BY AppAssumption DEF IInv
<1>1. /\ At(f, {"dispose", "clear"}) /\ ~Over /\ flow[f].todo # <<>>
      /\ Chained(flow[f].todo) /\ Op(f) \in {"dispose", "clear"} /\ flow[f].at = "await"
  BY RunsAt DEF Disposed, Resumes
<1>2. PICK p \in Players : p = flow[f].obj /\ ~Piped(p)
  BY <1>0, <1>1 DEF DoomInv, Doomed
<1>3. /\ player[p] \in {"exited", "closed"} /\ player' = [player EXCEPT ![p] = "closed"]
      /\ UNCHANGED <<exited, process>>
  BY <1>2 DEF Disposed
<1>4. /\ mpv \in Players \cup {None} /\ flow \in [Flows -> FlowState]
      /\ player \in [Players -> {"none", "alive", "killed", "exited", "closed"}]
  BY <1>0 DEF AppType, OuterType
<1>5. player' \in [Players -> {"none", "alive", "killed", "exited", "closed"}]
        /\ player'[p] = "closed" /\ \A q \in Players \ {p} : player'[q] = player[q]
  BY <1>3, <1>4
<1>6. ~Past(f) /\ \A q : Piped(q)' <=> Piped(q)
  BY <1>1, <1>3 DEF Past, At, First, Piped, process
<1>7. CASE Continues(f) /\ UNCHANGED dropped
  <2>1. /\ Chained(Rest(f)) /\ First(Rest(f), {"relay"})
        /\ Op(f) = "dispose" => Rest(f)[2] = "stopped"
    BY <1>1, Follows DEF Rest, Op
  <2>2. Moves(f) /\ flow'[f].todo = Rest(f) /\ flow'[f].obj = p
          /\ UNCHANGED <<stopping, active, running, mpv, reconnecting, closing, crashed>>
    <3>1. Goes(f, Rest(f))
            /\ UNCHANGED <<stopping, active, running, mpv, reconnecting, closing, crashed>>
      BY <1>7 DEF Continues, window
    <3>2. First(Rest(f), {"relay", "stopped", "cleared"})
      BY <2>1 DEF First
    <3> QED
      BY <1>0, <1>2, <2>1, <3>1, <3>2, GoesDoes
  <2>3. (Owns(f) => Owns(f)') /\ Cares(f)' /\ Past(f)' /\ ~At(f, {"start"})'
    BY <1>1, <2>1, <2>2 DEF Owns, Cares, Past, At, First, Op
  <2>4. AppType'
    <3>1. OuterType'
      BY <1>0, <1>3, <1>5, <1>7, <2>2 DEF AppType, OuterType, process
    <3> QED
      BY <2>2, <3>1, MovesType
  <2>5. Tidy'
    BY <1>0, <2>2, MovesTidy
  <2>6. DoomInv'
    BY <1>0, <1>2, <1>5, <1>6, <2>2, OthersRoles DEF DoomInv
  <2>7. FreshInv'
    BY <2>2, <2>3, AppAssumption DEF FreshInv, Moves
  <2>8. HeldInv'
    BY <1>0, <1>5, <1>6, <1>7, <2>2 DEF HeldInv
  <2>9. OwnedInv'
    BY <1>0, <2>2, <2>3, OthersRoles DEF OwnedInv
  <2>10. MournedInv'
    <3>1. SUFFICES ASSUME mpv # None, player'[mpv] = "closed"
                   PROVE  \E g \in Flows : Past(g)' /\ flow'[g].obj = mpv
      BY <2>2 DEF MournedInv
    <3>2. CASE mpv = p
      BY <2>2, <2>3, <3>2
    <3>3. CASE mpv # p
      <4>1. PICK g \in Flows : Past(g) /\ flow[g].obj = mpv
        BY <1>0, <1>1, <1>4, <1>5, <3>1, <3>3 DEF MournedInv
      <4> QED
        BY <1>6, <2>2, <4>1, OthersRoles
    <3> QED
      BY <3>2, <3>3
  <2>11. CaredInv'
    BY <2>3 DEF CaredInv
  <2> QED
    BY <2>4, <2>5, <2>6, <2>7, <2>8, <2>9, <2>10, <2>11 DEF IInv
<1>8. CASE /\ player[p] = "closed" /\ Op(f) = "dispose" /\ Raises(f)
           /\ dropped' = (~Catches(f) /\ mpv \notin {None, flow[f].obj})
  <2>1. /\ Moves(f) /\ stopping' = StillStopping(f) /\ crashed' \in BOOLEAN
        /\ Catches(f) => First(flow'[f].todo, {"stop?"})
        /\ ~Catches(f) => FirstIfAny(flow'[f].todo, {"reconnected"})
        /\ UNCHANGED <<active, running, mpv, reconnecting, closing>>
    BY <1>0, <1>1, <1>8, RaisesDoes
  <2>2. stopping' = FALSE
    BY <1>8, <2>1 DEF StillStopping
  <2>3. \A q \in Players : player'[q] = player[q]
    BY <1>5, <1>8
  <2>4. FirstIfAny(flow'[f].todo, {"stop?", "reconnected"})
    BY <2>1 DEF First, FirstIfAny
  <2>5. ~At(f, {"start"})' /\ ~Past(f)' /\ ~Doomed(f)'
    BY <2>4 DEF At, First, FirstIfAny, Past, Doomed
  <2>6. AppType'
    <3>1. dropped' \in BOOLEAN /\ stopping' \in BOOLEAN
      BY <1>8, <2>2
    <3>2. OuterType'
      BY <1>0, <1>3, <1>5, <2>1, <3>1 DEF AppType, OuterType, process
    <3> QED
      BY <2>1, <3>2, MovesType
  <2>7. Tidy'
    BY <1>0, <2>1, MovesTidy
  <2>8. DoomInv'
    BY <1>0, <1>6, <2>1, <2>3, <2>5, OthersRoles DEF DoomInv
  <2>9. FreshInv'
    BY <2>1, <2>5, AppAssumption DEF FreshInv, Moves
  <2>10. HeldInv'
    BY <1>0, <1>1, <1>6, <2>1, <2>3 DEF HeldInv, Over
  <2>11. OwnedInv'
    BY <2>2 DEF OwnedInv
  <2>12. MournedInv'
    <3>1. SUFFICES ASSUME mpv # None, player'[mpv] = "closed"
                   PROVE  \E g \in Flows : Past(g)' /\ flow'[g].obj = mpv
      BY <2>1 DEF MournedInv
    <3>2. PICK g \in Flows : Past(g) /\ flow[g].obj = mpv
      BY <1>0, <1>1, <1>4, <2>3, <3>1 DEF MournedInv
    <3> QED
      BY <1>6, <2>1, <3>2, OthersRoles
  <2>13. CaredInv'
    <3>1. SUFFICES ASSUME ~Over', mpv # None, ~active
                   PROVE  \E g \in Flows : Cares(g)'
      BY <2>1 DEF CaredInv
    <3>2. CASE Catches(f)
      BY <2>1, <3>2 DEF Cares, At, First
    <3>3. CASE ~Catches(f)
      <4>1. ~dropped'
        BY <3>1 DEF Over
      <4>2. mpv = p
        BY <1>2, <1>8, <3>1, <3>3, <4>1
      <4>3. PICK g \in Flows : Past(g)
        BY <1>0, <1>1, <1>8, <3>1, <4>2 DEF MournedInv
      <4>4. Cares(g)
        BY <4>3 DEF Past, Cares, At, First
      <4> QED
        BY <1>6, <2>1, <4>3, <4>4, OthersRoles
    <3> QED
      BY <3>2, <3>3
  <2> QED
    BY <2>6, <2>7, <2>8, <2>9, <2>10, <2>11, <2>12, <2>13 DEF IInv
<1> QED
  BY <1>2, <1>7, <1>8 DEF Disposed

\* Without a player nobody has to care for one; a player that is still there is lost.
LEMMA DropStep ==
  ASSUME IInv, NEW f \in Flows, Drop(f)
  PROVE  IInv'
<1>0. /\ AppType /\ Tidy /\ DoomInv /\ FreshInv /\ HeldInv /\ OwnedInv
      /\ MournedInv /\ CaredInv /\ f # None
  BY AppAssumption DEF IInv
<1>1. /\ At(f, {"stopped", "cleared"}) /\ ~Over /\ flow[f].todo # <<>>
      /\ Chained(flow[f].todo) /\ Op(f) \in {"stopped", "cleared"}
  BY RunsAt DEF Drop
<1>2. /\ flow[f].obj \in Players /\ ~Piped(flow[f].obj)
      /\ player[flow[f].obj] = "closed"
  BY <1>0, <1>1 DEF DoomInv, Doomed, Past, At, First
<1>3. /\ UNCHANGED <<active, running, reconnecting, closing, process, crashed>>
      /\ mpv' = None /\ (dropped' <=> mpv \notin {None, flow[f].obj})
      /\ dropped' \in BOOLEAN /\ exited' \in BOOLEAN /\ stopping' \in BOOLEAN
      /\ stopping' => stopping /\ Op(f) = "cleared"
  <2>1. exited' = FALSE /\ stopping' = (stopping /\ Op(f) # "stopped")
          /\ dropped' = (mpv \notin {None, flow[f].obj})
    BY DEF Drop
  <2>2. exited' \in BOOLEAN
    BY <2>1
  <2> QED
    BY <1>1, <2>1, <2>2 DEF Drop
<1>4. /\ mpv \in Players \cup {None}
      /\ player \in [Players -> {"none", "alive", "killed", "exited", "closed"}]
  BY <1>0 DEF AppType, OuterType
<1>5. /\ player' \in [Players -> {"none", "alive", "killed", "exited", "closed"}]
      /\ \A q \in Players : \/ player'[q] = player[q]
                            \/ /\ player[q] = "closed" /\ player'[q] = "none"
                               /\ \A g \in Flows \ {f} : flow[g].obj # q
  <2>1. player' = [p \in Players |->
                     IF player[p] = "closed" /\ \A g \in Flows \ {f} : flow[g].obj # p
                     THEN "none" ELSE player[p]]
    BY DEF Drop
  <2> QED
    BY <1>4, <2>1
<1>6. \A q : Piped(q)' <=> Piped(q)
  BY <1>3 DEF Piped, process
<1>7. /\ Chained(Rest(f)) /\ FirstIfAny(Rest(f), {"ensure", "watch", "closeWorker", "react"})
  BY <1>1, Follows DEF Rest, Op, FirstIfAny
<1>8. Moves(f) /\ flow'[f].todo = Rest(f)
  BY <1>0, <1>7, GoesDoes DEF Drop
<1>9. ~At(f, {"start"})' /\ ~Past(f)' /\ ~Doomed(f)'
  BY <1>7, <1>8 DEF At, First, FirstIfAny, Past, Doomed
<1>10. AppType'
  <2>1. OuterType'
    BY <1>0, <1>3, <1>5 DEF AppType, OuterType, process
  <2> QED
    BY <1>8, <2>1, MovesType
<1>11. Tidy'
  BY <1>0, <1>8, MovesTidy
<1>12. DoomInv'
  <2>1. ASSUME NEW g \in Flows \ {f}, Doomed(g)
        PROVE  /\ flow[g].obj \in Players /\ ~Piped(flow[g].obj)
               /\ Past(g) => player'[flow[g].obj] = "closed"
    BY <1>0, <1>5, <2>1 DEF DoomInv
  <2> QED
    BY <1>6, <1>8, <1>9, <2>1, OthersRoles DEF DoomInv
<1>13. FreshInv'
  BY <1>8, <1>9, AppAssumption DEF FreshInv, Moves
<1>14. HeldInv'
  <2>1. SUFFICES ASSUME ~dropped', NEW q \in Players,
                        player'[q] \in {"alive", "killed", "exited"} \/ Piped(q)'
                 PROVE  FALSE
    BY DEF HeldInv
  <2>2. player[q] \in {"alive", "killed", "exited"} \/ Piped(q)
    BY <1>5, <1>6, <2>1
  <2>3. q = mpv
    BY <1>0, <1>1, <2>2 DEF HeldInv, Over
  <2>4. q = flow[f].obj
    BY <1>3, <2>1, <2>3, AppAssumption
  <2> QED
    BY <1>2, <2>2, <2>4
<1>15. OwnedInv'
  <2>1. Op(f) = "cleared" => ~Owns(f)
    BY <1>1 DEF Owns, At, First, Op
  <2> QED
    BY <1>0, <1>3, <1>8, <2>1, OthersRoles DEF OwnedInv
<1>16. MournedInv' /\ CaredInv'
  BY <1>3 DEF MournedInv, CaredInv
<1> QED
  BY <1>10, <1>11, <1>12, <1>13, <1>14, <1>15, <1>16 DEF IInv

\* A new player is its method's, and nobody else knows it.
LEMMA NewPlayerStep ==
  ASSUME IInv, NEW f \in Flows, NewPlayer(f)
  PROVE  IInv'
<1>0. /\ AppType /\ Tidy /\ DoomInv /\ FreshInv /\ HeldInv /\ OwnedInv
      /\ MournedInv /\ CaredInv /\ f # None
  BY AppAssumption DEF IInv
<1>1. /\ At(f, {"player"}) /\ ~Over /\ flow[f].todo # <<>>
      /\ Chained(flow[f].todo) /\ Op(f) = "player" /\ current = f
  BY RunsAt DEF NewPlayer, Runs
<1>2. PICK p \in Players :
         /\ p \notin Named
         /\ player' = [player EXCEPT ![p] = "alive"] /\ mpv' = p
         /\ flow' = [flow EXCEPT ![f].todo = Rest(f), ![f].obj = p]
  BY DEF NewPlayer
<1>3. /\ UNCHANGED <<stopping, active, running, reconnecting, closing, current, process,
                     crashed>>
      /\ dropped' <=> mpv # None
      /\ dropped' \in BOOLEAN /\ exited' \in BOOLEAN
  <2>1. exited' = FALSE /\ dropped' = (mpv # None)
    BY DEF NewPlayer
  <2>2. exited' \in BOOLEAN
    BY <2>1
  <2> QED
    BY <2>1, <2>2 DEF NewPlayer
<1>4. /\ mpv \in Players \cup {None} /\ flow \in [Flows -> FlowState]
      /\ player \in [Players -> {"none", "alive", "killed", "exited", "closed"}]
  BY <1>0 DEF AppType, OuterType
<1>5. /\ player' \in [Players -> {"none", "alive", "killed", "exited", "closed"}]
      /\ player'[p] = "alive" /\ \A q \in Players \ {p} : player'[q] = player[q]
  BY <1>2, <1>4
<1>6. /\ \A q : Piped(q)' <=> Piped(q)
      /\ p # mpv /\ \A g \in Flows : flow[g].obj # p
  BY <1>2, <1>3 DEF Piped, process, Named
<1>7. Chained(Rest(f)) /\ First(Rest(f), {"start"}) /\ Rest(f) \in Seq(Ops)
  BY <1>1, Follows DEF Rest, Op, Chained
<1>8. /\ flow' \in [Flows -> FlowState] /\ \A g \in Flows \ {f} : flow'[g] = flow[g]
      /\ flow'[f].todo = Rest(f) /\ flow'[f].obj = p
  <2>1. flow' = [flow EXCEPT ![f] = [flow[f] EXCEPT !.todo = Rest(f), !.obj = p]]
    BY <1>2, <1>4 DEF FlowState
  <2> QED
    BY <1>4, <1>7, <2>1 DEF FlowState
<1>9. Moves(f)
  BY <1>0, <1>1, <1>3, <1>7, <1>8 DEF Moves, Same, First
<1>10. ~Owns(f) /\ Cares(f)' /\ ~Past(f)' /\ ~Doomed(f)'
  BY <1>1, <1>7, <1>8 DEF Owns, Cares, Past, Doomed, At, First
<1>11. AppType'
  <2>1. OuterType'
    BY <1>0, <1>2, <1>3, <1>5 DEF AppType, OuterType, process
  <2> QED
    BY <1>9, <2>1, MovesType
<1>12. Tidy'
  BY <1>0, <1>9, MovesTidy
<1>13. DoomInv'
  <2>1. ASSUME NEW g \in Flows \ {f}, Doomed(g)
        PROVE  /\ flow[g].obj \in Players /\ ~Piped(flow[g].obj)
               /\ Past(g) => player'[flow[g].obj] = "closed"
    BY <1>0, <1>5, <1>6, <2>1 DEF DoomInv
  <2> QED
    BY <1>6, <1>9, <1>10, <2>1, OthersRoles DEF DoomInv
<1>14. FreshInv'
  BY <1>1, <1>2, <1>3, <1>6, <1>8 DEF FreshInv
<1>15. HeldInv'
  <2>1. SUFFICES ASSUME ~dropped', NEW q \in Players,
                        player'[q] \in {"alive", "killed", "exited"} \/ Piped(q)'
                 PROVE  q = p
    BY <1>2 DEF HeldInv
  <2>2. q # mpv
    BY <1>3, <2>1, AppAssumption
  <2>3. ~(player[q] \in {"alive", "killed", "exited"} \/ Piped(q))
    BY <1>0, <1>1, <2>2 DEF HeldInv, Over
  <2> QED
    BY <1>5, <1>6, <2>1, <2>3
<1>16. OwnedInv'
  BY <1>0, <1>3, <1>9, <1>10, OthersRoles DEF OwnedInv
<1>17. MournedInv' /\ CaredInv'
  BY <1>2, <1>5, <1>10 DEF MournedInv, CaredInv
<1> QED
  BY <1>11, <1>12, <1>13, <1>14, <1>15, <1>16, <1>17 DEF IInv

\* The player whose pipe the worker is told of is _mpv.
LEMMA StartStep ==
  ASSUME IInv, NEW f \in Flows, Start(f)
  PROVE  IInv'
<1>0. /\ AppType /\ Tidy /\ DoomInv /\ FreshInv /\ HeldInv /\ OwnedInv
      /\ MournedInv /\ CaredInv /\ f # None
  BY AppAssumption DEF IInv
<1>1. /\ At(f, {"start"}) /\ ~Over /\ flow[f].todo # <<>> /\ current = f
      /\ UNCHANGED <<player, exited, worker, session, inbox, dropped>>
  BY RunsAt DEF Start, Runs
<1>2. CASE Raises(f) /\ UNCHANGED commands
  <2>1. At(f, {"host", "ensure", "start"})
    BY <1>1 DEF At, First
  <2>2. /\ stopping' = StillStopping(f) /\ crashed' \in BOOLEAN
        /\ UNCHANGED <<active, running, mpv, reconnecting, closing>>
    BY <1>0, <1>1, <1>2, RaisesDoes
  <2>3. OuterType'
    BY <1>0, <1>1, <1>2, <2>2 DEF AppType, OuterType, StillStopping
  <2>4. Aside
    BY <1>1, <1>2, <2>2, <2>3, AsideHolds
  <2> QED
    BY <1>2, <2>1, <2>4, RaiseQuiet, QuietStep
<1>3. CASE /\ Awaits(f) /\ UNCHANGED <<window, crashed>>
           /\ commands' = Append(commands, [what |-> "start", by |-> f,
                                            player |-> flow[f].obj])
  <2> DEFINE c == [what |-> "start", by |-> f, player |-> flow[f].obj]
  <2>1. flow[f].obj = mpv /\ \A g \in Flows \ {f} : flow[g].obj # mpv
    BY <1>0, <1>1 DEF FreshInv
  <2>2. c \in Command /\ c.player = mpv
    <3>1. flow[f].obj \in Players \cup {None}
      BY <1>0 DEF AppType, FlowState
    <3> QED
      BY <2>1, <3>1 DEF Command
  <2>3. commands' = Append(commands, c) /\ session' = session
    BY <1>1, <1>3
  <2> HIDE DEF c
  <2>4. PICK p : p = mpv
    OBVIOUS
  <2>5. commands' \in Seq(Command) /\ \A q : Piped(q)' => Piped(q) \/ q = p
    <3>1. PICK d \in Command : d = c
      BY <2>2
    <3>2. commands' = Append(commands, d) /\ d.player = p
      BY <2>2, <2>3, <2>4, <3>1
    <3> QED
      BY <2>3, <3>2, AppendPipes
  <2>6. Moves(f) /\ flow'[f].todo = flow[f].todo /\ flow'[f].obj = flow[f].obj
          /\ current' = None
          /\ UNCHANGED <<stopping, active, running, mpv, reconnecting, closing>>
    BY <1>0, <1>1, <1>3, AwaitsDoes DEF window
  <2>7. ~Owns(f) /\ Cares(f)' /\ ~Past(f) /\ ~Past(f)' /\ ~Doomed(f)'
    BY <1>1, <2>6 DEF Owns, Cares, Past, Doomed, At, First
  <2>8. AppType'
    <3>1. OuterType'
      BY <1>0, <1>1, <1>3, <2>5, <2>6 DEF AppType, OuterType
    <3> QED
      BY <2>6, <3>1, MovesType
  <2>9. Tidy'
    BY <1>0, <2>6, MovesTidy
  <2>10. DoomInv'
    <3>1. ASSUME NEW g \in Flows \ {f}, Doomed(g)
          PROVE  /\ flow[g].obj \in Players /\ ~Piped(flow[g].obj) /\ flow[g].obj # p
                 /\ Past(g) => player[flow[g].obj] = "closed"
      BY <1>0, <2>1, <2>4, <3>1 DEF DoomInv
    <3> QED
      BY <1>1, <2>5, <2>6, <2>7, <3>1, OthersRoles DEF DoomInv
  <2>11. FreshInv'
    BY <2>6, AppAssumption DEF FreshInv
  <2>12. HeldInv'
    BY <1>0, <1>1, <2>4, <2>5, <2>6 DEF HeldInv
  <2>13. OwnedInv'
    BY <1>0, <2>6, <2>7, OthersRoles DEF OwnedInv
  <2>14. MournedInv'
    BY <1>0, <1>1, <2>6, <2>7, OthersRoles DEF MournedInv
  <2>15. CaredInv'
    BY <2>7 DEF CaredInv
  <2> QED
    BY <2>8, <2>9, <2>10, <2>11, <2>12, <2>13, <2>14, <2>15 DEF IInv
<1> QED
  BY <1>2, <1>3 DEF Start

-----------------------------------------------------------------------------
(* The theorems.                                                             *)

\* The invariant holds at the start, ...
LEMMA InitHolds == Init => IInv
<1> SUFFICES ASSUME Init PROVE IInv
  OBVIOUS
<1>1. AppType
  <2>1. <<>> \in Seq(Command) /\ <<>> \in Seq(Ops)
    OBVIOUS
  <2>2. Absent \in FlowState
    BY <2>1 DEF Absent, FlowState, Kinds
  <2>3. /\ stopping \in BOOLEAN /\ active \in BOOLEAN /\ running \in BOOLEAN
        /\ exited \in BOOLEAN /\ crashed \in BOOLEAN /\ dropped \in BOOLEAN
    <3>1. /\ stopping = FALSE /\ active = FALSE /\ running = FALSE
          /\ exited = FALSE /\ crashed = FALSE /\ dropped = FALSE
      BY DEF Init
    <3> QED
      BY <3>1
  <2>4. session \in [phase : {"none", "accepted", "starting", "running"},
                     ending : BOOLEAN, player : Players \cup {None}]
    <3>1. session = NoSession
      BY DEF Init
    <3> QED
      BY <3>1 DEF NoSession
  <2> QED
    BY <2>1, <2>2, <2>3, <2>4 DEF Init, AppType, OuterType
<1>2. \A f \in Flows : flow[f] = Absent
  BY DEF Init
<1>3. \A f \in Flows : /\ flow[f].todo = <<>> /\ flow[f].at = "run"
                       /\ \A ops : ~At(f, ops)
  BY <1>2 DEF Absent, At, First
<1>4. mpv = None /\ current = None /\ ~stopping
        /\ \A p \in Players : player[p] = "none" /\ ~Piped(p)
  BY AppAssumption DEF Init, Piped, NoSession
<1>5. Tidy
  BY <1>3, <1>4, ListsChained DEF Tidy
<1>6. DoomInv /\ FreshInv
  BY <1>3 DEF DoomInv, FreshInv, Doomed, Past
<1>7. HeldInv /\ OwnedInv /\ MournedInv /\ CaredInv
  BY <1>4 DEF HeldInv, OwnedInv, MournedInv, CaredInv
<1> QED
  BY <1>1, <1>5, <1>6, <1>7 DEF IInv

\* ... and is kept by every step.
LEMMA NextKeeps == IInv /\ [Next]_vars => IInv'
<1> SUFFICES ASSUME IInv, [Next]_vars PROVE IInv'
  OBVIOUS
<1>1. ASSUME NEW f \in Flows, Dispatch(f)
      PROVE  IInv'
  BY <1>1, EnterStep, AskWorkerStep, AskedStep, KillStep, DisposedStep, MaybeStep,
     ReadyStep, DropStep, EnsureStep, EnsuredStep, NewPlayerStep, StartStep, StartedStep,
     ReactStep, DelayStep, WatchStep, ReconnectedStep, CloseWorkerStep, ClosedStep
     DEF Dispatch
<1>2. CASE \/ UserConnects \/ UserDisconnects \/ UserCloses
           \/ Answered \/ SessionStarts \/ SessionEnds \/ Fallback \/ PlayerExited
  BY <1>2, UserStep, UserClosesStep, AnsweredStep, SessionStartsStep, SessionEndsStep,
     FallbackStep, PlayerExitedStep
<1>3. ASSUME NEW p \in Players, PlayerDies(p)
      PROVE  IInv'
  BY <1>3, PlayerDiesStep
<1>4. CASE TakeStart \/ TakeStop \/ Proceeds \/ Ends \/ WorkerExits
  BY <1>4, TakeStartStep, TakeStopStep, SessionStep, WorkerExitsStep
<1>5. CASE UNCHANGED vars
  <2>1. /\ UNCHANGED <<stopping, active, running, mpv, reconnecting, closing>>
        /\ UNCHANGED <<player, flow, current, exited>>
        /\ UNCHANGED <<worker, commands, session, inbox, crashed, dropped>>
    BY <1>5 DEF vars, window, process
  <2>2. \A f \in Flows : Same(f)
    BY <2>1 DEF Same
  <2>3. AppType' /\ Tidy'
    BY <2>1 DEF IInv, AppType, OuterType, Tidy
  <2>4. \A q : Piped(q)' <=> Piped(q)
    BY <2>1 DEF Piped
  <2>5. \A f \in Flows : /\ \A ops : At(f, ops)' <=> At(f, ops)
                         /\ Past(f)' <=> Past(f)
                         /\ Doomed(f)' <=> Doomed(f)
                         /\ Owns(f)' <=> Owns(f)
                         /\ Cares(f)' <=> Cares(f)
    BY <2>2, SameRoles
  <2>6. DoomInv' /\ FreshInv' /\ HeldInv' /\ OwnedInv'
    BY <2>1, <2>4, <2>5 DEF IInv, DoomInv, FreshInv, HeldInv, OwnedInv
  <2>7. MournedInv' /\ CaredInv'
    BY <2>1, <2>5 DEF IInv, MournedInv, CaredInv, Over
  <2> QED
    BY <2>3, <2>6, <2>7 DEF IInv
<1> QED
  BY <1>1, <1>2, <1>3, <1>4, <1>5 DEF Next

\* The inductive invariant: a player that lives is _mpv, _stopping and a player without
\* a session have a method that sees to them.
THEOREM AppInvariant == Spec => []IInv
BY InitHolds, NextKeeps, PTL DEF Spec

\* Type correctness: of the window, of the methods in progress and of the worker.
THEOREM AppTypes == Spec => []AppType
<1>1. IInv => AppType
  BY DEF IInv
<1> QED
  BY <1>1, AppInvariant, PTL

\* _stopping is never left to a method that is over, however many are in progress and
\* whatever they raise: the finally of StopSessionAsync, or its end, is still to come.
THEOREM StopEndsHolds == Spec => []StopEnds
<1>1. ASSUME IInv, stopping
      PROVE  \E f \in Flows : "stopped" \in ToSet(flow[f].todo)
  <2>1. PICK f \in Flows : Owns(f)
    BY <1>1 DEF IInv, OwnedInv
  <2> DEFINE s == flow[f].todo
  <2>2. Chained(s)
    BY <1>1 DEF IInv, Tidy
  <2>3. s \in Seq(Ops) /\ Len(s) \in Nat /\ \A i \in 1..Len(s) : Link(s, i)
    BY <2>2 DEF Chained
  <2>4. s # <<>> /\ Head(s) \in {"release", "stop", "dispose", "stopped", "relay"}
          /\ (Head(s) = "relay" => s[2] = "stopped")
    BY <2>1 DEF Owns, At, First
  <2> HIDE DEF s
  <2>5. Len(s) > 0 /\ Head(s) = s[1] /\ Link(s, 1) /\ DOMAIN s = 1..Len(s)
    BY <2>3, <2>4
  <2>6. ASSUME NEW i \in 1..Len(s), s[i] = "dispose"
        PROVE  \E k \in 1..Len(s) : s[k] = "stopped"
    BY <2>3, <2>6 DEF Link
  <2>7. ASSUME NEW i \in 1..Len(s), s[i] = "stop"
        PROVE  \E k \in 1..Len(s) : s[k] = "stopped"
    BY <2>3, <2>6, <2>7 DEF Link, Before
  <2>8. \E k \in 1..Len(s) : s[k] = "stopped"
    <3>1. CASE s[1] = "stopped"
      BY <2>3, <2>5, <3>1
    <3>2. CASE s[1] = "relay"
      BY <2>3, <2>4, <2>5, <3>2 DEF Link, Before
    <3>3. CASE s[1] = "dispose"
      BY <2>3, <2>5, <2>6, <3>3
    <3>4. CASE s[1] = "stop"
      BY <2>3, <2>5, <2>7, <3>4
    <3>5. CASE s[1] = "release"
      BY <2>3, <2>5, <2>7, <3>5 DEF Link, Before
    <3> QED
      BY <2>4, <2>5, <3>1, <3>2, <3>3, <3>4, <3>5
  <2> QED
    BY <2>5, <2>8 DEF ToSet, s
<1>2. IInv => StopEnds
  BY <1>1 DEF StopEnds
<1> QED
  BY <1>2, AppInvariant, PTL

\* No player is left behind: when all methods are over there is one only for the active
\* session, however many methods were in progress together and wherever each was given
\* the dispatcher, unless one has overwritten or left behind another one's player.
THEOREM OneViewerHolds == Spec => []OneViewer
<1>1. ASSUME IInv, AtRest
      PROVE  /\ \A p \in Players : player[p] \in {"alive", "killed", "exited"} => p = mpv
             /\ mpv # None => active
             /\ session.phase = "running" /\ session.player # None =>
                  active /\ mpv = session.player
  <2>1. ~Over /\ ~dropped /\ \A f \in Flows : flow[f].todo = <<>>
    BY <1>1 DEF AtRest, Absent, Over
  <2>2. \A p \in Players :
          player[p] \in {"alive", "killed", "exited"} \/ Piped(p) => p = mpv
    BY <1>1, <2>1 DEF IInv, HeldInv
  <2>3. \A f \in Flows : ~Cares(f)
    BY <2>1 DEF Cares, At, First
  <2>4. mpv # None => active
    BY <1>1, <2>1, <2>3 DEF IInv, CaredInv
  <2>5. session.player # None => session.player \in Players /\ Piped(session.player)
    BY <1>1 DEF IInv, AppType, OuterType, Piped
  <2>6. session.player # None => mpv = session.player
    BY <2>2, <2>5
  <2> QED
    BY <2>2, <2>4, <2>6
<1>2. IInv => OneViewer
  BY <1>1 DEF OneViewer
<1> QED
  BY <1>2, AppInvariant, PTL

=============================================================================
