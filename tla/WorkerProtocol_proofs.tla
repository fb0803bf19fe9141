------------------------- MODULE WorkerProtocol_proofs -------------------------
(***************************************************************************)
(* Proofs about WorkerProtocol for any number of commands and any size of  *)
(* the pipe.                                                               *)
(***************************************************************************)
EXTENDS WorkerProtocol, TLAPS

\* What is left of a queue without its head
LEMMA TailOfSeq ==
  ASSUME NEW S, NEW q \in Seq(S), q # <<>>
  PROVE  /\ Tail(q) \in Seq(S)
         /\ Len(Tail(q)) = Len(q) - 1
         /\ \A i \in 1 .. Len(Tail(q)) : Tail(q)[i] = q[i + 1]
         /\ Head(q) \in S /\ Head(q) = q[1] /\ Len(q) \in Nat \ {0}
  OBVIOUS

\* A queue with one entry more
LEMMA AppendToSeq ==
  ASSUME NEW S, NEW q \in Seq(S), NEW e \in S
  PROVE  /\ Append(q, e) \in Seq(S)
         /\ Len(Append(q, e)) = Len(q) + 1
         /\ \A i \in 1 .. Len(q) : Append(q, e)[i] = q[i]
         /\ Append(q, e)[Len(q) + 1] = e
  OBVIOUS

\* What is queued has the queue's type.
LEMMA ElementOfSeq ==
  ASSUME NEW S, NEW q \in Seq(S)
  PROVE  Len(q) \in Nat /\ \A i \in 1 .. Len(q) : q[i] \in S
  OBVIOUS

\* A release of the lock takes its holder out of the queue, or empties it.
LEMMA Released ==
  ASSUME TypeOK, NEW r \in Calls, Holder(r), Release
  PROVE  /\ queue' \in Seq(Calls)
         /\ queue' = Tail(queue) \/ queue' = <<>>
         /\ r = queue[1]
  BY TailOfSeq DEF TypeOK, Holder, Release

\* A call that ends leaves no registration behind.
LEMMA Ended ==
  ASSUME TypeOK, NEW r \in Calls, NEW result, End(r, result),
         result \in {"refused", "sent", "failed", "result", "timeout"}
  PROVE  /\ call' \in [Calls -> {"none", "checked", "queued", "waiting", "done"}]
         /\ call'[r] = "done" /\ \A t \in Calls \ {r} : call'[t] = call[t]
         /\ outcome' \in [Calls -> {"none", "refused", "sent", "failed", "result",
                                    "timeout"}]
         /\ pending' = pending \ {r}
         /\ pending' \in SUBSET {t \in Calls : call'[t] \in {"queued", "waiting"}}
  BY DEF TypeOK, End

\* What a new call, whatever its kind, does to the client.
LEMMA Begun ==
  ASSUME TypeOK, NEW k \in {"wait", "noWait", "shutdown"}, Begin(k)
  PROVE  /\ calls' = calls + 1 /\ calls' \in Calls
         /\ kind' \in [Calls -> {"none", "wait", "noWait", "shutdown"}]
         /\ \A t \in Calls \ {calls'} : kind'[t] = kind[t]
         /\ call' \in [Calls -> {"none", "checked", "queued", "waiting", "done"}]
         /\ call'[calls'] \in {"checked", "done"}
         /\ \A t \in Calls \ {calls'} : call'[t] = call[t]
         /\ outcome' \in [Calls -> {"none", "refused", "sent", "failed", "result",
                                    "timeout"}]
         /\ pending' \in SUBSET pending /\ pending \ {calls'} \subseteq pending'
         /\ call[calls'] \notin {"queued", "waiting"} =>
              pending' \in SUBSET {t \in Calls : call'[t] \in {"queued", "waiting"}}
         /\ UNCHANGED <<answer, queue, stdinOpen, reading, told, lifetime, processVars>>
<1> DEFINE r == calls + 1
<1>1. r \in Calls /\ calls' = r
  BY SizeAssumption DEF Begin, TypeOK, Calls
<1>2. kind' = [kind EXCEPT ![r] = k]
  BY DEF Begin
<1>3. CASE lifetime /\ alive
  BY <1>1, <1>2, <1>3 DEF Begin, TypeOK
<1>4. CASE ~(lifetime /\ alive)
  <2>1. End(r, "refused")
    BY <1>4 DEF Begin
  <2> HIDE DEF r
  <2>2. QED
    BY <1>1, <1>2, <2>1, Ended DEF Begin, TypeOK, End
<1> QED
  BY <1>3, <1>4

\* Calls are numbered without gaps, and the newest is the only one that can be
\* in the middle of its first turn.
NumberInv ==
  \A r \in Calls :
    /\ call[r] = "none" <=> r > calls
    /\ call[r] = "checked" => r = calls

\* A call's steps keep the types and the numbering, ...
LEMMA CallTypes ==
  ASSUME TypeOK, NumberInv, NEW r \in Calls, CallSteps(r)
  PROVE  TypeOK' /\ NumberInv'
<1> USE DEF TypeOK, NumberInv, processVars, Calls
<1>1. CASE Register(r)
  <2>1. queue' \in Seq(Calls)
    BY <1>1, AppendToSeq DEF Register, Enqueue
  <2> QED
    BY <1>1, <2>1 DEF Register
<1>2. CASE Write(r)
  <2>1. queue' \in Seq(Calls)
    BY <1>2, Released DEF Write
  <2>2. stdin' \in Seq(Calls) /\ Len(stdin') <= PipeSize
    BY <1>2, AppendToSeq, ElementOfSeq, SizeAssumption DEF Write
  <2>3. CASE kind[r] = "noWait"
    BY <1>2, <2>1, <2>2, <2>3, Ended DEF Write
  <2>4. CASE kind[r] # "noWait"
    BY <1>2, <2>1, <2>2, <2>4 DEF Write
  <2> QED
    BY <2>3, <2>4
<1>3. CASE WriteFails(r)
  BY <1>3, Released, Ended DEF WriteFails
<1>4. CASE Return(r)
  BY <1>4, Ended DEF Return
<1>5. CASE Timeout(r)
  BY <1>5, Ended DEF Timeout
<1> QED
  BY <1>1, <1>2, <1>3, <1>4, <1>5 DEF CallSteps

\* A new call finds its number free.
LEMMA BeginTypes ==
  ASSUME TypeOK, NumberInv, NEW k \in {"wait", "noWait", "shutdown"}, Begin(k),
         dispose' \in {"none", "asking", "grace", "join", "done"}
  PROVE  TypeOK' /\ NumberInv'
<1>1. call[calls'] = "none"
  BY Begun DEF NumberInv, TypeOK
<1>2. \A r \in Calls : r # calls' => call[r] # "checked"
  BY DEF Begin, ThreadFree
<1>3. NumberInv'
  BY <1>1, <1>2, Begun DEF NumberInv, TypeOK, Calls
<1> QED
  BY <1>1, <1>3, Begun, SizeAssumption DEF TypeOK, Calls, processVars

\* ... and so do all others.
LEMMA TypeStep ==
  ASSUME TypeOK, NumberInv, [Next]_vars
  PROVE  TypeOK' /\ NumberInv'
<1> USE DEF TypeOK, NumberInv
<1>1. CASE Take \/ Reply \/ ProcessExit
  <2>1. CASE Take
    BY <2>1, TailOfSeq, AppendToSeq, SizeAssumption DEF Take, clientVars
  <2>2. CASE Reply
    BY <2>2, AppendToSeq DEF Reply, clientVars
  <2>3. CASE ProcessExit
    BY <2>3 DEF ProcessExit, clientVars
  <2> QED
    BY <1>1, <2>1, <2>2, <2>3
<1>2. CASE Call
  BY <1>2, BeginTypes DEF Call
<1>3. ASSUME NEW r \in Calls, CallSteps(r) PROVE TypeOK' /\ NumberInv'
  BY <1>3, CallTypes
<1>4. CASE ReadLine \/ ReadFails \/ OnExited
  <2>1. answer' \in [Calls -> {"none", "result", "failed"}]
    BY <1>4 DEF ReadLine, ReadFails, OnExited, FailPending, Complete
  <2>2. stdout' \in Seq(Calls)
    <3>1. CASE ReadLine
      BY <3>1, TailOfSeq DEF ReadLine
    <3>2. CASE ReadFails \/ OnExited
      BY <3>2 DEF ReadFails, OnExited, processVars
    <3> QED
      BY <1>4, <3>1, <3>2
  <2> QED
    BY <1>4, <2>1, <2>2 DEF ReadLine, ReadFails, OnExited, processVars
<1>5. CASE ReadEnds \/ GraceEnds \/ Disposed \/ Finished
  BY <1>5 DEF ReadEnds, GraceEnds, Disposed, Finished, vars, clientVars, processVars
<1>6. CASE Dispose \/ ShutdownAsked
  <2>1. CASE CloseStreams /\ UNCHANGED <<calls, kind, call, outcome, answer, pending,
                                         queue, reading, told, processVars>>
    BY <2>1 DEF CloseStreams, processVars
  <2>2. CASE Begin("shutdown") /\ dispose' = "asking"
    BY <2>2, BeginTypes
  <2> QED
    BY <1>6, <2>1, <2>2 DEF Dispose, ShutdownAsked
<1>7. CASE UNCHANGED vars
  BY <1>7 DEF vars, clientVars, processVars
<1> QED
  BY <1>1, <1>2, <1>3, <1>4, <1>5, <1>6, <1>7 DEF Next, Reader, DisposeSteps

\* At the start no call has begun.
LEMMA InitTypes == Init => TypeOK /\ NumberInv
<1> SUFFICES ASSUME Init PROVE TypeOK /\ NumberInv
  OBVIOUS
<1>1. queue \in Seq(Calls) /\ stdin \in Seq(Calls) /\ stdout \in Seq(Calls)
      /\ received \in Seq(Calls) /\ Len(stdin) <= PipeSize
  BY SizeAssumption DEF Init
<1>2. calls \in 0 .. MaxCalls
  BY SizeAssumption DEF Init
<1>3. TypeOK
  BY <1>1, <1>2 DEF Init, TypeOK
<1>4. NumberInv
  BY DEF Init, NumberInv, Calls
<1> QED
  BY <1>3, <1>4

(* Every variable keeps its type, the pipe its size, and the pending map     *)
(* holds only calls in progress.                                             *)
THEOREM TypeCorrect == Spec => []TypeOK
  BY InitTypes, TypeStep, PTL DEF Spec

-----------------------------------------------------------------------------
(* Order: the commands received, those in the pipe and those at the lock are *)
(* three pieces of the order of the calls.                                   *)

Older(s, r) == \A i \in 1 .. Len(s) : s[i] < r
Below(s, t) == \A i \in 1 .. Len(s), j \in 1 .. Len(t) : s[i] < t[j]

OrderInv ==
  /\ Increasing(received) /\ Increasing(stdin) /\ Increasing(queue)
  /\ Below(received, stdin) /\ Below(received, queue) /\ Below(stdin, queue)
  /\ \A r \in Calls : call[r] \in {"none", "checked"} =>
       Older(received, r) /\ Older(stdin, r) /\ Older(queue, r)

\* A later call at the end keeps the order.
LEMMA AppendOrdered ==
  ASSUME NEW s \in Seq(Calls), NEW r \in Calls, Increasing(s), Older(s, r)
  PROVE  /\ Increasing(Append(s, r))
         /\ \A t \in Calls : Older(s, t) /\ r < t => Older(Append(s, r), t)
         /\ \A t \in Seq(Calls) :
              /\ Below(s, t) /\ (\A j \in 1 .. Len(t) : r < t[j])
                   => Below(Append(s, r), t)
              /\ Below(t, s) /\ Older(t, r) => Below(t, Append(s, r))
  BY AppendToSeq, ElementOfSeq DEF Increasing, Older, Below, Calls

\* What is left after the head is later than the head.
LEMMA TailOrdered ==
  ASSUME NEW s \in Seq(Calls), s # <<>>, Increasing(s)
  PROVE  /\ Increasing(Tail(s))
         /\ \A j \in 1 .. Len(Tail(s)) : s[1] < Tail(s)[j]
         /\ \A t \in Calls : Older(s, t) => Older(Tail(s), t) /\ s[1] < t
         /\ \A t \in Seq(Calls) :
              /\ Below(s, t) => Below(Tail(s), t) /\ \A j \in 1 .. Len(t) : s[1] < t[j]
              /\ Below(t, s) => Below(t, Tail(s)) /\ Older(t, s[1])
<1>1. Len(s) \in Nat \ {0} /\ Len(Tail(s)) = Len(s) - 1
  BY TailOfSeq
<1>2. \A i \in 1 .. Len(Tail(s)) : Tail(s)[i] = s[i + 1]
  BY TailOfSeq
<1>3. 1 \in 1 .. Len(s)
      /\ \A i \in 1 .. Len(Tail(s)) : i \in Nat /\ i + 1 \in 1 .. Len(s) /\ 1 < i + 1
  BY <1>1
<1>4. Increasing(Tail(s)) /\ \A j \in 1 .. Len(Tail(s)) : s[1] < Tail(s)[j]
  <2>1. ASSUME NEW i \in 1 .. Len(Tail(s)), NEW j \in 1 .. Len(Tail(s)), i < j
        PROVE  Tail(s)[i] < Tail(s)[j]
    <3>1. i + 1 \in 1 .. Len(s) /\ j + 1 \in 1 .. Len(s) /\ i + 1 < j + 1
      BY <1>3, <2>1
    <3>2. s[i + 1] < s[j + 1]
      BY <3>1 DEF Increasing
    <3> QED
      BY <1>2, <3>2
  <2>2. \A j \in 1 .. Len(Tail(s)) : s[1] < Tail(s)[j]
    BY <1>2, <1>3 DEF Increasing
  <2> QED
    BY <2>1, <2>2 DEF Increasing
<1>5. ASSUME NEW t \in Calls, Older(s, t) PROVE Older(Tail(s), t) /\ s[1] < t
  BY <1>1, <1>2, <1>3, <1>5 DEF Older
<1>6. ASSUME NEW t \in Seq(Calls), Below(s, t)
      PROVE  Below(Tail(s), t) /\ \A j \in 1 .. Len(t) : s[1] < t[j]
  BY <1>1, <1>2, <1>3, <1>6 DEF Below
<1>7. ASSUME NEW t \in Seq(Calls), Below(t, s)
      PROVE  Below(t, Tail(s)) /\ Older(t, s[1])
  BY <1>1, <1>2, <1>3, <1>7 DEF Below, Older
<1> QED
  BY <1>4, <1>5, <1>6, <1>7

\* Nothing is in any order.
LEMMA EmptyOrdered ==
  /\ Increasing(<<>>)
  /\ \A t : Older(<<>>, t)
  /\ \A t : Below(<<>>, t) /\ Below(t, <<>>)
  BY DEF Increasing, Older, Below

\* The call that leaves the queue is the oldest there.
LEMMA ReleaseOrdered ==
  ASSUME TypeOK, OrderInv, NEW r \in Calls, Holder(r), Release
  PROVE  /\ Increasing(queue')
         /\ \A t \in Calls : Older(queue, t) => Older(queue', t) /\ r < t
         /\ \A j \in 1 .. Len(queue') : r < queue'[j]
         /\ Below(received, queue') /\ Below(stdin, queue')
         /\ Older(received, r) /\ Older(stdin, r)
<1>1. /\ queue \in Seq(Calls) /\ queue # <<>> /\ r = queue[1]
      /\ received \in Seq(Calls) /\ stdin \in Seq(Calls)
  BY Released DEF TypeOK, Holder
<1>2. /\ \A t \in Calls : Older(queue, t) => Older(Tail(queue), t) /\ r < t
      /\ Older(received, r) /\ Older(stdin, r)
      /\ Increasing(Tail(queue))
      /\ \A j \in 1 .. Len(Tail(queue)) : r < Tail(queue)[j]
      /\ Below(received, Tail(queue)) /\ Below(stdin, Tail(queue))
  BY <1>1, TailOrdered DEF OrderInv
<1>3. CASE queue' = Tail(queue)
  BY <1>2, <1>3
<1>4. CASE queue' = <<>>
  BY <1>2, <1>4, EmptyOrdered
<1> QED
  BY <1>3, <1>4, Released

\* What leaves the calls' order alone keeps the invariant.
LEMMA OrderKept ==
  ASSUME OrderInv, UNCHANGED <<received, stdin, queue>>,
         \A r \in Calls : call'[r] \in {"none", "checked"} =>
                            call[r] \in {"none", "checked"}
  PROVE  OrderInv'
  BY DEF OrderInv, Increasing, Older, Below

\* A call's steps keep the three pieces in order, ...
LEMMA CallOrder ==
  ASSUME TypeOK, NumberInv, OrderInv, NEW r \in Calls, CallSteps(r)
  PROVE  OrderInv'
<1>1. CASE Register(r)
  <2>1. queue \in Seq(Calls) /\ received \in Seq(Calls) /\ stdin \in Seq(Calls)
    BY DEF TypeOK
  <2>2. Older(received, r) /\ Older(stdin, r) /\ Older(queue, r)
    BY <1>1 DEF Register, OrderInv
  <2>3. queue' = Append(queue, r) /\ UNCHANGED <<received, stdin>>
        /\ call' = [call EXCEPT ![r] = "queued"]
    BY <1>1 DEF Register, Enqueue, processVars
  <2>4. Increasing(queue') /\ Below(received, queue') /\ Below(stdin, queue')
    BY <2>1, <2>2, <2>3, AppendOrdered DEF OrderInv
  <2>5. ASSUME NEW t \in Calls, call'[t] \in {"none", "checked"}
        PROVE  Older(received, t) /\ Older(stdin, t) /\ Older(queue', t)
    <3>1. t # r /\ call[t] \in {"none", "checked"} /\ call[r] = "checked"
      BY <1>1, <2>3, <2>5 DEF TypeOK, Register
    <3>2. r < t
      BY <3>1 DEF NumberInv, TypeOK, Calls
    <3> QED
      BY <2>1, <2>2, <2>3, <3>1, <3>2, AppendOrdered DEF OrderInv
  <2> QED
    BY <2>3, <2>4, <2>5 DEF OrderInv, Increasing, Below, Older
<1>2. CASE Write(r)
  <2>1. /\ stdin' = Append(stdin, r) /\ received' = received
        /\ Holder(r) /\ Release
    BY <1>2 DEF Write
  <2>2. stdin \in Seq(Calls) /\ received \in Seq(Calls) /\ queue' \in Seq(Calls)
    BY <2>1, Released DEF TypeOK
  <2>3. Increasing(stdin') /\ Below(received, stdin')
    BY <2>1, <2>2, AppendOrdered, ReleaseOrdered DEF OrderInv
  <2>4. Below(stdin', queue')
    BY <2>1, <2>2, AppendOrdered, ReleaseOrdered DEF OrderInv
  <2>5. ASSUME NEW t \in Calls, call'[t] \in {"none", "checked"}
        PROVE  Older(received, t) /\ Older(stdin', t) /\ Older(queue', t)
    <3>1. call[t] \in {"none", "checked"}
      BY <1>2, <2>5 DEF Write, End, TypeOK
    <3> QED
      BY <2>1, <2>2, <3>1, AppendOrdered, ReleaseOrdered DEF OrderInv
  <2> QED
    BY <2>1, <2>3, <2>4, <2>5, ReleaseOrdered DEF OrderInv, Increasing, Below, Older
<1>3. CASE WriteFails(r)
  <2>1. /\ UNCHANGED <<stdin, received>> /\ Holder(r) /\ Release
        /\ \A t \in Calls : call'[t] \in {"none", "checked"} =>
                              call[t] \in {"none", "checked"}
    BY <1>3 DEF WriteFails, End, processVars, TypeOK
  <2> QED
    BY <2>1, ReleaseOrdered DEF OrderInv, Increasing, Below, Older
<1>4. CASE Return(r) \/ Timeout(r)
  <2>1. /\ UNCHANGED <<received, stdin, queue>>
        /\ \A t \in Calls : call'[t] \in {"none", "checked"} =>
                              call[t] \in {"none", "checked"}
    BY <1>4 DEF Return, Timeout, End, processVars, TypeOK
  <2> QED
    BY <2>1, OrderKept
<1> QED
  BY <1>1, <1>2, <1>3, <1>4 DEF CallSteps

\* ... a call that begins is later than all of them, ...
LEMMA BeginOrder ==
  ASSUME TypeOK, NumberInv, OrderInv, NEW k \in {"wait", "noWait", "shutdown"},
         Begin(k)
  PROVE  OrderInv'
<1>1. call[calls'] = "none"
  BY Begun DEF NumberInv, TypeOK
<1> QED
  BY <1>1, Begun, OrderKept DEF processVars

\* ... and what the process takes is the oldest there is.
LEMMA OrderStep ==
  ASSUME TypeOK, NumberInv, OrderInv, [Next]_vars
  PROVE  OrderInv'
<1>1. CASE Take
  <2>1. /\ stdin \in Seq(Calls) /\ stdin # <<>> /\ received \in Seq(Calls)
        /\ Head(stdin) = stdin[1] /\ stdin[1] \in Calls
        /\ Tail(stdin) \in Seq(Calls) /\ queue \in Seq(Calls)
    BY <1>1, TailOfSeq DEF TypeOK, Take
  <2>2. /\ received' = Append(received, stdin[1]) /\ stdin' = Tail(stdin)
        /\ UNCHANGED <<queue, call>>
    BY <1>1, <2>1 DEF Take, clientVars
  <2>3. /\ Increasing(stdin') /\ Below(stdin', queue)
        /\ Older(received, stdin[1]) /\ Below(received, stdin')
        /\ \A j \in 1 .. Len(stdin') : stdin[1] < stdin'[j]
        /\ \A j \in 1 .. Len(queue) : stdin[1] < queue[j]
    BY <2>1, <2>2, TailOrdered DEF OrderInv
  <2>4. Increasing(received') /\ Below(received', stdin') /\ Below(received', queue)
    BY <2>1, <2>2, <2>3, AppendOrdered DEF OrderInv
  <2>5. ASSUME NEW t \in Calls, call[t] \in {"none", "checked"}
        PROVE  Older(received', t) /\ Older(stdin', t) /\ Older(queue, t)
    BY <2>1, <2>2, <2>3, <2>5, AppendOrdered, TailOrdered DEF OrderInv
  <2> QED
    BY <2>2, <2>3, <2>4, <2>5 DEF OrderInv, Increasing, Below, Older
<1>2. CASE Call
  BY <1>2, BeginOrder DEF Call
<1>3. ASSUME NEW r \in Calls, CallSteps(r) PROVE OrderInv'
  BY <1>3, CallOrder
<1>4. CASE Dispose
  BY <1>4, BeginOrder, OrderKept DEF Dispose, processVars
<1>5. CASE \/ Reply \/ ProcessExit \/ ReadLine \/ ReadEnds \/ ReadFails \/ OnExited
           \/ ShutdownAsked \/ GraceEnds \/ Disposed \/ Finished \/ UNCHANGED vars
  <2>1. UNCHANGED <<received, stdin, queue, call>>
    BY <1>5 DEF Reply, ProcessExit, ReadLine, ReadEnds, ReadFails, OnExited,
                ShutdownAsked, GraceEnds, Disposed, Finished, vars, clientVars,
                processVars
  <2> QED
    BY <2>1, OrderKept
<1> QED
  BY <1>1, <1>2, <1>3, <1>4, <1>5 DEF Next, Reader, DisposeSteps

\* The invariant of the order
LEMMA OrderHolds == Spec => [](TypeOK /\ NumberInv /\ OrderInv)
<1>1. Init => TypeOK /\ NumberInv
  BY InitTypes
<1>2. Init => OrderInv
  BY EmptyOrdered DEF Init, OrderInv
<1> QED
  BY <1>1, <1>2, TypeStep, OrderStep, PTL DEF Spec

(* The worker takes the commands in the order in which they were called,     *)
(* whatever was lost on the way.                                             *)
THEOREM InputInOrder == Spec => []ReceivedInOrder
<1>1. OrderInv => ReceivedInOrder
  BY DEF OrderInv, ReceivedInOrder
<1> QED
  BY <1>1, OrderHolds, PTL

-----------------------------------------------------------------------------
(* Answers.                                                                  *)

Served(r) ==
  /\ \E i \in 1 .. Len(received) : received[i] = r
  /\ handling # r

AnswerInv ==
  /\ handling # None => \E i \in 1 .. Len(received) : received[i] = handling
  /\ \A i \in 1 .. Len(stdout) : Served(stdout[i])
  /\ \A r \in Calls : answer[r] = "result" => Served(r)

\* An answer that nothing new is said about stays its command's own.
LEMMA AnswerKept ==
  ASSUME AnswerInv, UNCHANGED <<received, handling, stdout>>,
         \A r \in Calls : answer'[r] = "result" => Served(r)
  PROVE  AnswerInv'
  BY DEF AnswerInv, Served

\* Every answer is to a command that was taken.
LEMMA AnswerStep ==
  ASSUME TypeOK, OrderInv, AnswerInv, [Next]_vars
  PROVE  AnswerInv'
<1>1. CASE Take
  <2>1. /\ stdin \in Seq(Calls) /\ stdin # <<>> /\ received \in Seq(Calls)
        /\ received' = Append(received, stdin[1]) /\ handling' = stdin[1]
        /\ stdin[1] \in Calls /\ UNCHANGED <<stdout, answer>>
    BY <1>1, TailOfSeq DEF TypeOK, Take, clientVars
  <2>2. \A r : Served(r) => r # stdin[1]
    BY <2>1, TailOfSeq, ElementOfSeq DEF Served, OrderInv, Below, Calls
  <2>3. \A r : Served(r) => Served(r)'
    BY <2>1, <2>2, AppendToSeq, ElementOfSeq DEF Served
  <2>4. \E i \in 1 .. Len(received') : received'[i] = handling'
    BY <2>1, AppendToSeq, ElementOfSeq
  <2> QED
    BY <2>1, <2>3, <2>4 DEF AnswerInv
<1>2. CASE Reply
  <2>1. PICK h \in Calls : h = handling
    BY <1>2 DEF TypeOK, Reply
  <2>2. /\ stdout \in Seq(Calls) /\ stdout' = Append(stdout, h) /\ handling' = None
        /\ UNCHANGED <<received, answer>>
    BY <1>2, <2>1 DEF TypeOK, Reply, clientVars
  <2>3. \A r \in Calls : r = h \/ Served(r) => Served(r)'
    BY <2>1, <2>2, NoneAssumption DEF AnswerInv, Served, Calls
  <2>4. ASSUME NEW i \in 1 .. Len(stdout'), NEW r \in Calls, r = stdout'[i]
        PROVE  Served(r)'
    <3>1. CASE i \in 1 .. Len(stdout)
      BY <2>2, <2>3, <2>4, <3>1, AppendToSeq DEF AnswerInv
    <3>2. CASE i = Len(stdout) + 1
      BY <2>2, <2>3, <2>4, <3>2, AppendToSeq
    <3> QED
      BY <2>2, <3>1, <3>2, AppendToSeq, ElementOfSeq
  <2>5. stdout' \in Seq(Calls)
    BY <2>2, AppendToSeq
  <2>6. \A i \in 1 .. Len(stdout') : stdout'[i] \in Calls
    BY <2>5, ElementOfSeq
  <2> QED
    BY <2>2, <2>3, <2>4, <2>6 DEF AnswerInv, Served
<1>3. CASE ReadLine
  <2>1. /\ stdout \in Seq(Calls) /\ stdout # <<>> /\ stdout' = Tail(stdout)
        /\ Served(stdout[1]) /\ Head(stdout) = stdout[1]
        /\ UNCHANGED <<received, handling>>
    BY <1>3, TailOfSeq DEF TypeOK, ReadLine, AnswerInv
  <2>2. \A r \in Calls : answer'[r] = "result" => Served(r)
    BY <1>3, <2>1 DEF ReadLine, Complete, Addressee, AnswerInv
  <2>3. \A i \in 1 .. Len(stdout') : Served(stdout'[i])
    BY <2>1, TailOfSeq DEF AnswerInv
  <2> QED
    BY <2>1, <2>2, <2>3 DEF AnswerInv, Served
<1>4. CASE ReadFails \/ OnExited
  <2>1. /\ UNCHANGED <<received, handling, stdout>>
        /\ \A r \in Calls : answer'[r] = "result" => answer[r] = "result"
    BY <1>4 DEF ReadFails, OnExited, FailPending, Complete, processVars
  <2> QED
    BY <2>1, AnswerKept DEF AnswerInv
<1>5. CASE Call
  <2>1. UNCHANGED <<received, handling, stdout, answer>>
    BY <1>5 DEF Call, Begin, processVars
  <2> QED
    BY <2>1, AnswerKept DEF AnswerInv
<1>6. ASSUME NEW r \in Calls, CallSteps(r) PROVE AnswerInv'
  <2>1. UNCHANGED <<received, handling, stdout, answer>>
    BY <1>6 DEF CallSteps, Register, Write, WriteFails, Return, Timeout, processVars
  <2> QED
    BY <2>1, AnswerKept DEF AnswerInv
<1>7. CASE \/ ProcessExit \/ ReadEnds \/ Dispose \/ ShutdownAsked \/ GraceEnds
           \/ Disposed \/ Finished \/ UNCHANGED vars
  <2>1. UNCHANGED <<received, handling, stdout, answer>>
    BY <1>7 DEF ProcessExit, ReadEnds, Dispose, Begin, ShutdownAsked, GraceEnds,
                Disposed, Finished, vars, clientVars, processVars
  <2> QED
    BY <2>1, AnswerKept DEF AnswerInv
<1> QED
  BY <1>1, <1>2, <1>3, <1>4, <1>5, <1>6, <1>7 DEF Next, Reader, DisposeSteps

(* A command's result is the worker's answer to it, for any number of calls  *)
(* that time out and are answered late.                                      *)
THEOREM ResultsAreOwn == Spec => []AnswersAreOwn
<1>1. Init => AnswerInv
  BY DEF Init, AnswerInv
<1>2. AnswerInv => AnswersAreOwn
  BY DEF AnswerInv, AnswersAreOwn, Served
<1> QED
  BY <1>1, <1>2, OrderHolds, AnswerStep, PTL DEF Spec

-----------------------------------------------------------------------------
(* The exit of the process.                                                  *)

\* A call that waits for its answer is registered from before it is written.
ExitInv ==
  /\ \A r \in Calls :
       call[r] = "waiting" \/ (call[r] = "queued" /\ kind[r] # "noWait")
         => r \in pending
  /\ told => ~alive
  /\ ExitFailsAll

\* A call's steps leave nobody waiting for a process that is gone, ...
LEMMA CallExit ==
  ASSUME TypeOK, ExitInv, NEW r \in Calls, CallSteps(r)
  PROVE  ExitInv'
<1> USE DEF ExitInv, ExitFailsAll, TypeOK, processVars
<1>1. CASE Register(r)
  BY <1>1 DEF Register
<1>2. CASE Write(r)
  BY <1>2 DEF Write, End
<1>3. CASE WriteFails(r)
  BY <1>3 DEF WriteFails, End
<1>4. CASE Return(r) \/ Timeout(r)
  BY <1>4 DEF Return, Timeout, End
<1> QED
  BY <1>1, <1>2, <1>3, <1>4 DEF CallSteps

\* ... a call that begins is not waiting yet, ...
LEMMA BeginExit ==
  ASSUME TypeOK, NumberInv, ExitInv, NEW k \in {"wait", "noWait", "shutdown"},
         Begin(k)
  PROVE  ExitInv'
<1>1. call[calls'] = "none" /\ calls' \notin pending
  BY Begun DEF NumberInv, TypeOK
<1> QED
  BY <1>1, Begun DEF ExitInv, ExitFailsAll, TypeOK, processVars

\* ... and the exit, once noticed, fails all that wait.
LEMMA ExitStep ==
  ASSUME TypeOK, NumberInv, ExitInv, [Next]_vars
  PROVE  ExitInv'
<1>1. CASE \/ Take \/ Reply \/ ProcessExit \/ ReadEnds \/ ShutdownAsked \/ GraceEnds
           \/ Disposed \/ Finished \/ UNCHANGED vars
  <2>1. UNCHANGED <<call, kind, pending, answer, told>> /\ (alive' => alive)
    BY <1>1 DEF Take, Reply, ProcessExit, ReadEnds, ShutdownAsked, GraceEnds,
                Disposed, Finished, vars, clientVars, processVars, TypeOK
  <2> QED
    BY <2>1 DEF ExitInv, ExitFailsAll
<1>2. CASE Call
  BY <1>2, BeginExit DEF Call
<1>3. ASSUME NEW r \in Calls, CallSteps(r) PROVE ExitInv'
  BY <1>3, CallExit
<1>4. CASE ReadLine \/ ReadFails
  <2>1. /\ UNCHANGED <<call, kind, pending, told, alive>>
        /\ \A r \in Calls : answer[r] # "none" => answer'[r] # "none"
    BY <1>4 DEF ReadLine, ReadFails, Complete, processVars
  <2> QED
    BY <2>1 DEF ExitInv, ExitFailsAll
<1>5. CASE OnExited
  <2>1. /\ UNCHANGED <<call, kind, pending, alive>> /\ ~alive
        /\ \A r \in pending : answer'[r] # "none"
    BY <1>5 DEF OnExited, FailPending, Complete, processVars, TypeOK
  <2> QED
    BY <2>1 DEF ExitInv, ExitFailsAll
<1>6. CASE Dispose
  <2>1. CASE Begin("shutdown")
    BY <2>1, BeginExit
  <2>2. CASE UNCHANGED <<call, kind, pending, answer, told, alive>>
    BY <2>2 DEF ExitInv, ExitFailsAll
  <2> QED
    BY <1>6, <2>1, <2>2 DEF Dispose, processVars
<1> QED
  BY <1>1, <1>2, <1>3, <1>4, <1>5, <1>6 DEF Next, Reader, DisposeSteps

(* No call waits for the answer of a process whose exit has been noticed.    *)
THEOREM NoneLeftWaiting == Spec => []ExitFailsAll
<1>1. Init => ExitInv
  BY DEF Init, ExitInv, ExitFailsAll
<1>2. ExitInv => ExitFailsAll
  BY DEF ExitInv
<1> QED
  BY <1>1, <1>2, InitTypes, TypeStep, ExitStep, PTL DEF Spec

=============================================================================
