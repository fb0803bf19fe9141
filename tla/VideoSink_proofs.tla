--------------------------- MODULE VideoSink_proofs ---------------------------
(***************************************************************************)
(* Proofs about VideoSink for every capacity, every number of access units *)
(* and every setting of the thresholds.                                    *)
(***************************************************************************)
EXTENDS VideoSink, TLAPS

\* What is left of a queue without its head
LEMMA TailOfSeq ==
  ASSUME NEW S, NEW q \in Seq(S), q # <<>>
  PROVE  /\ Tail(q) \in Seq(S)
         /\ Len(Tail(q)) = Len(q) - 1
         /\ \A i \in 1 .. Len(Tail(q)) : Tail(q)[i] = q[i + 1]
         /\ Head(q) \in S /\ Head(q) = q[1] /\ Len(q) \in Nat \ {0}
  OBVIOUS

\* What is queued has the queue's type.
LEMMA ElementOfSeq ==
  ASSUME NEW S, NEW q \in Seq(S)
  PROVE  \A i \in 1 .. Len(q) : q[i] \in S
  OBVIOUS

\* A queue with one entry more
LEMMA AppendToSeq ==
  ASSUME NEW S, NEW q \in Seq(S), NEW e \in S
  PROVE  /\ Append(q, e) \in Seq(S)
         /\ Len(Append(q, e)) = Len(q) + 1
         /\ \A i \in 1 .. Len(q) : Append(q, e)[i] = q[i]
         /\ Append(q, e)[Len(q) + 1] = e
  OBVIOUS

(* Type correctness: every variable keeps its type, and the ages and the    *)
(* feed counter their bounds.                                               *)
THEOREM TypeCorrect == Spec => []TypeOK
<1>1. Init => TypeOK
  <2> SUFFICES ASSUME Init PROVE TypeOK
    OBVIOUS
  <2>1. /\ queue \in Seq(Frames) /\ written \in Seq(Frames)
        /\ Len(queue) <= Capacity
    BY CapacityAssumption DEF Init
  <2>2. nextFrame \in 0 .. MaxFrames + 1
    BY MaxFramesAssumption DEF Init, Header
  <2>3. feeder \in FeederState
    BY DEF Init, FeederState, FeederIdle
  <2>4. writer \in WriterState
    BY DEF Init, WriterState, WriterIdle
  <2>5. writeAge = None /\ lastWriteAge \in Ages /\ packetAge \in Ages
    BY TimeAssumption DEF Init, Ages, AgeCap
  <2>6. QED
    BY <2>1, <2>2, <2>3, <2>4, <2>5 DEF Init, TypeOK, PipeState
<1>2. TypeOK /\ [Next]_vars => TypeOK'
  <2> SUFFICES ASSUME TypeOK, [Next]_vars PROVE TypeOK'
    OBVIOUS
  <2> USE DEF TypeOK, feedVars, writeVars, sessionVars
  <2>a. 0 \in Ages /\ \A age \in Ages : Older(age) \in Ages
    BY TimeAssumption DEF Ages, AgeCap, Older
  <2>1. CASE Packet
    BY <2>1, <2>a DEF Packet
  <2>2. CASE Feed
    <3>1. nextFrame \in Frames /\ nextFrame' \in 0 .. MaxFrames + 1
      BY <2>2, MaxFramesAssumption DEF Feed, HasRoom, Frames
    <3>2. queue' \in Seq(Frames) /\ Len(queue') <= Capacity
      <4>1. CASE HasRoom
        BY <2>2, <3>1, <4>1, AppendToSeq, CapacityAssumption DEF Feed, HasRoom, Enqueue
      <4>2. CASE ~HasRoom
        BY <2>2, <4>2 DEF Feed
      <4> QED
        BY <4>1, <4>2
    <3>3. feeder' \in FeederState
      BY <2>2, <3>1 DEF Feed, HasRoom, FeederState, FeederIdle
    <3>4. QED
      BY <2>2, <3>1, <3>2, <3>3 DEF Feed
  <2>3. CASE FeedKeep
    <3>1. Keep \in 0 .. 1
      BY DEF Keep
    <3>2. feeder \in [pc : {"full", "drain", "drop", "put"},
                      frame : Frames, keep : 0 .. 1]
      BY <2>3 DEF FeedKeep, FeederState, FeederIdle
    <3>3. feeder' = [feeder EXCEPT !.pc = "drain", !.keep = Keep]
      BY <2>3 DEF FeedKeep
    <3>4. feeder' \in FeederState
      BY <3>1, <3>2, <3>3 DEF FeederState
    <3>5. QED
      BY <2>3, <3>4 DEF FeedKeep
  <2>4. CASE FeedDrain
    <3>1. feeder' \in FeederState
      BY <2>4 DEF FeedDrain, FeederState, FeederIdle
    <3>2. QED
      BY <2>4, <3>1 DEF FeedDrain
  <2>5. CASE FeedDrop
    <3>1. queue' \in Seq(Frames) /\ Len(queue') <= Capacity
      <4>1. CASE queue = <<>>
        BY <2>5, <4>1 DEF FeedDrop
      <4>2. CASE queue # <<>>
        BY <2>5, <4>2, TailOfSeq, CapacityAssumption DEF FeedDrop
      <4> QED
        BY <4>1, <4>2
    <3>2. feeder' \in FeederState
      BY <2>5 DEF FeedDrop, FeederState, FeederIdle
    <3>3. QED
      BY <2>5, <3>1, <3>2 DEF FeedDrop
  <2>6. CASE FeedRetry
    <3>1. feeder' \in FeederState
      BY <2>6 DEF FeedRetry, FeederState, FeederIdle
    <3>2. feeder.frame \in Frames
      BY <2>6 DEF FeedRetry, FeederState, FeederIdle
    <3>3. queue' \in Seq(Frames) /\ Len(queue') <= Capacity
      BY <2>6, <3>2, AppendToSeq, CapacityAssumption DEF FeedRetry, HasRoom, Enqueue
    <3>4. QED
      BY <2>6, <3>1, <3>3 DEF FeedRetry
  <2>7. CASE WriterGet
    <3>1. Head(queue) \in Frames /\ queue' \in Seq(Frames) /\ Len(queue') <= Capacity
      BY <2>7, TailOfSeq, CapacityAssumption DEF WriterGet
    <3>2. writer' \in WriterState
      BY <2>7, <3>1 DEF WriterGet, WriterState, WriterIdle
    <3>3. QED
      BY <2>7, <3>1, <3>2 DEF WriterGet
  <2>8. CASE WriterStart
    <3>1. writer' \in WriterState
      BY <2>8 DEF WriterStart, WriterState, WriterIdle
    <3>2. QED
      BY <2>8, <2>a, <3>1 DEF WriterStart
  <2>9. CASE WriterWrite
    <3>1. writer' \in WriterState
      BY <2>9 DEF WriterWrite, WriterState, WriterIdle
    <3>2. writer.frame \in Frames
      BY <2>9 DEF WriterWrite, WriterState
    <3>3. written' \in Seq(Frames)
      BY <2>9, <3>2, AppendToSeq DEF WriterWrite
    <3>4. QED
      BY <2>9, <2>a, <3>1, <3>3 DEF WriterWrite
  <2>10. CASE WriterFail
    <3>1. writer' \in WriterState
      BY <2>10 DEF WriterFail, WriterState, WriterIdle
    <3>2. QED
      BY <2>10, <3>1 DEF WriterFail, Reported
  <2>11. CASE WriterExit
    <3>1. writer' \in WriterState
      BY <2>11 DEF WriterExit, WriterState, WriterIdle
    <3>2. QED
      BY <2>11, <3>1 DEF WriterExit
  <2>12. CASE DeliverNotice
    BY <2>12 DEF DeliverNotice, Stop, ErrorCodes
  <2>13. CASE Poll
    BY <2>13 DEF Poll, Stop, Verdict, ErrorCodes
  <2>14. CASE UserStop
    BY <2>14 DEF UserStop, Stop
  <2>15. CASE Close
    BY <2>15 DEF Close
  <2>16. CASE PlayerHangs
    BY <2>16 DEF PlayerHangs, PipeState
  <2>17. CASE PlayerDies
    BY <2>17 DEF PlayerDies, PipeState
  <2>18. CASE MediaTaskEnds
    BY <2>18 DEF MediaTaskEnds
  <2>19. CASE Tick
    BY <2>19, <2>a DEF Tick
  <2>20. CASE UNCHANGED vars
    BY <2>20 DEF vars
  <2>21. QED
    BY <2>1, <2>2, <2>3, <2>4, <2>5, <2>6, <2>7, <2>8, <2>9, <2>10, <2>11,
       <2>12, <2>13, <2>14, <2>15, <2>16, <2>17, <2>18, <2>19, <2>20
       DEF Next, FeederStep, WriterStep, Environment
<1>3. QED
  BY <1>1, <1>2, PTL DEF Spec

-----------------------------------------------------------------------------
(* Order and freshness.  Placed is the number of access units that feed()    *)
(* has placed: all of them while it is not running, all but the one in its   *)
(* hands while it is.  Everything in flight was placed, and the queue, the   *)
(* writer's entry and the pipe hold disjoint, ordered parts of the feed.     *)

Placed == IF feeder.pc = "idle" THEN nextFrame ELSE nextFrame - 1

Holding == writer.pc \in {"took", "write"}

OrderInv ==
  /\ Increasing(queue) /\ Increasing(written)
  /\ \A i \in 1 .. Len(queue) : queue[i] < Placed
  /\ \A i \in 1 .. Len(written) : written[i] < Placed
  /\ \A i \in 1 .. Len(written), j \in 1 .. Len(queue) : written[i] < queue[j]
  /\ Holding => /\ writer.frame \in Frames /\ writer.frame < Placed
                /\ \A j \in 1 .. Len(queue) : writer.frame < queue[j]
                /\ \A i \in 1 .. Len(written) : written[i] < writer.frame
  /\ feeder.pc # "idle" => /\ feeder.frame \in Frames
                           /\ feeder.frame = nextFrame - 1

PutInv == feeder.pc = "put" => Len(queue) <= 1

\* The pieces of the feed stay in their order.
LEMMA OrderStep == TypeOK /\ PutInv /\ OrderInv /\ [Next]_vars => OrderInv'
<1> SUFFICES ASSUME TypeOK, PutInv, OrderInv, [Next]_vars PROVE OrderInv'
  OBVIOUS
<1> USE DEF feedVars, writeVars, sessionVars
<1>a. /\ queue \in Seq(Frames) /\ written \in Seq(Frames)
      /\ nextFrame \in Nat /\ Frames \subseteq Nat
  BY MaxFramesAssumption DEF TypeOK, Frames
<1>b. Len(queue) \in Nat /\ Len(written) \in Nat
  BY <1>a
<1>c. /\ \A i \in 1 .. Len(queue) : queue[i] \in Nat
      /\ \A i \in 1 .. Len(written) : written[i] \in Nat
  BY <1>a, ElementOfSeq
<1>1. CASE Feed
  <2>1. nextFrame \in Frames /\ nextFrame' = nextFrame + 1
        /\ Placed = nextFrame
    BY <1>1, <1>a, MaxFramesAssumption DEF Feed, HasRoom, Placed, Frames
  <2>2. CASE Len(queue) < Capacity
    <3>1. queue' = Append(queue, nextFrame) /\ Placed' = nextFrame + 1
          /\ UNCHANGED <<feeder, writer, written>>
      BY <1>1, <2>2, CapacityAssumption, <1>b DEF Feed, HasRoom, Enqueue, Placed
    <3>2. /\ Len(queue') = Len(queue) + 1
          /\ \A i \in 1 .. Len(queue) : queue'[i] = queue[i]
          /\ queue'[Len(queue) + 1] = nextFrame
      BY <3>1, <2>1, <1>a, AppendToSeq
    <3>3. feeder'.pc = "idle"
      BY <1>1, <3>1 DEF Feed, HasRoom
    <3>4. \A i \in 1 .. Len(queue') : queue'[i] = IF i <= Len(queue)
                                                  THEN queue[i] ELSE nextFrame
      BY <3>2, <1>b
    <3>7. Increasing(queue')
      BY <3>2, <3>4, <1>c, <2>1, <1>a, <1>b DEF OrderInv, Increasing
    <3>8. \A i \in 1 .. Len(queue') : queue'[i] < Placed'
      BY <3>1, <3>2, <3>4, <1>c, <2>1, <1>a, <1>b DEF OrderInv
    <3>9. \A i \in 1 .. Len(written') : written'[i] < Placed'
      BY <3>1, <1>c, <2>1, <1>a, <1>b DEF OrderInv
    <3>10. \A i \in 1 .. Len(written'), j \in 1 .. Len(queue') :
             written'[i] < queue'[j]
      BY <3>1, <3>2, <3>4, <1>c, <2>1, <1>a, <1>b DEF OrderInv
    <3>11. Holding' => /\ writer'.frame \in Frames /\ writer'.frame < Placed'
                       /\ \A j \in 1 .. Len(queue') : writer'.frame < queue'[j]
                       /\ \A i \in 1 .. Len(written') : written'[i] < writer'.frame
      <4> SUFFICES ASSUME Holding'
                   PROVE  /\ writer'.frame \in Frames /\ writer'.frame < Placed'
                          /\ \A j \in 1 .. Len(queue') :
                               writer'.frame < queue'[j]
                          /\ \A i \in 1 .. Len(written') :
                               written'[i] < writer'.frame
        OBVIOUS
      <4>1. Holding /\ writer' = writer /\ written' = written
        BY <3>1 DEF Holding
      <4>2. writer.frame \in Nat /\ writer.frame < Placed
        BY <4>1, <1>a DEF OrderInv
      <4>3. \A j \in 1 .. Len(queue') : writer.frame < queue'[j]
        BY <3>1, <3>2, <3>4, <1>c, <2>1, <1>a, <1>b, <4>1, <4>2 DEF OrderInv
      <4>4. QED
        BY <3>1, <2>1, <1>a, <4>1, <4>2, <4>3 DEF OrderInv
    <3>12. QED
      BY <3>1, <3>3, <3>7, <3>8, <3>9, <3>10, <3>11 DEF OrderInv
  <2>3. CASE Len(queue) >= Capacity
    <3>1. /\ UNCHANGED <<queue, writer, written>>
          /\ feeder'.pc = "full" /\ feeder'.frame = nextFrame
      BY <1>1, <2>3, CapacityAssumption, <1>b DEF Feed, HasRoom
    <3>2. Placed' = Placed
      BY <2>1, <3>1, <1>a DEF Placed
    <3>3. QED
      BY <2>1, <3>1, <3>2, <1>a DEF OrderInv, Holding
  <2>4. QED
    BY <2>2, <2>3, <1>b, CapacityAssumption
<1>2. ASSUME UNCHANGED <<queue, nextFrame, writer, written>>,
             feeder'.frame = feeder.frame, feeder.pc # "idle",
             feeder'.pc # "idle"
      PROVE  OrderInv'
  BY <1>2 DEF OrderInv, Holding, Placed
<1>3. CASE FeedKeep
  BY <1>3, <1>2 DEF FeedKeep, TypeOK, FeederState, FeederIdle
<1>4. CASE FeedDrain
  BY <1>4, <1>2 DEF FeedDrain, TypeOK, FeederState, FeederIdle
<1>5. CASE FeedDrop
  <2>1. CASE queue = <<>>
    BY <1>5, <2>1, <1>2 DEF FeedDrop, TypeOK, FeederState, FeederIdle
  <2>2. CASE queue # <<>>
    <3>1. /\ queue' = Tail(queue) /\ UNCHANGED <<writer, written, nextFrame>>
          /\ feeder'.frame = feeder.frame /\ feeder.pc # "idle"
          /\ feeder'.pc # "idle" /\ Placed' = Placed
      BY <1>5, <2>2 DEF FeedDrop, TypeOK, FeederState, FeederIdle, Placed
    <3>2. /\ Len(queue') = Len(queue) - 1
          /\ \A i \in 1 .. Len(queue') : queue'[i] = queue[i + 1]
      BY <3>1, <2>2, <1>a, TailOfSeq
    <3>3. \A i \in 1 .. Len(queue') : i + 1 \in 1 .. Len(queue)
      BY <3>2, <1>b
    <3>4. Increasing(queue')
      BY <3>2, <3>3, <1>b DEF OrderInv, Increasing
    <3>5. QED
      BY <3>1, <3>2, <3>3, <3>4, <1>b DEF OrderInv, Holding
  <2>3. QED
    BY <2>1, <2>2
<1>6. CASE FeedRetry
  <2>1. /\ UNCHANGED <<writer, written, nextFrame>> /\ feeder'.pc = "idle"
        /\ feeder.pc = "put" /\ feeder.frame \in Frames
        /\ feeder.frame = nextFrame - 1
    BY <1>6 DEF FeedRetry, HasRoom, FeederIdle, OrderInv
  <2>2. Placed = feeder.frame /\ Placed' = feeder.frame + 1
    BY <2>1, <1>a DEF Placed
  <2>3. Len(queue) < Capacity
    BY <2>1, <1>b, CapacityAssumption DEF PutInv
  <2>4. QED
    <3>1. queue' = Append(queue, feeder.frame)
      BY <1>6, <2>3 DEF FeedRetry, HasRoom, Enqueue
    <3>2. /\ Len(queue') = Len(queue) + 1
          /\ \A i \in 1 .. Len(queue) : queue'[i] = queue[i]
          /\ queue'[Len(queue) + 1] = feeder.frame
      BY <3>1, <2>1, <1>a, AppendToSeq
    <3>4. \A i \in 1 .. Len(queue') : queue'[i] = IF i <= Len(queue)
                                                  THEN queue[i] ELSE feeder.frame
      BY <3>2, <1>b
    <3>7. Increasing(queue')
      BY <3>2, <3>4, <1>c, <2>1, <2>2, <1>a, <1>b DEF OrderInv, Increasing
    <3>8. \A i \in 1 .. Len(queue') : queue'[i] < Placed'
      BY <3>2, <3>4, <1>c, <2>1, <2>2, <1>a, <1>b DEF OrderInv
    <3>9. \A i \in 1 .. Len(written') : written'[i] < Placed'
      BY <1>c, <2>1, <2>2, <1>a, <1>b DEF OrderInv
    <3>10. \A i \in 1 .. Len(written'), j \in 1 .. Len(queue') :
             written'[i] < queue'[j]
      BY <3>2, <3>4, <1>c, <2>1, <2>2, <1>a, <1>b DEF OrderInv
    <3>11. Holding' => /\ writer'.frame \in Frames /\ writer'.frame < Placed'
                       /\ \A j \in 1 .. Len(queue') : writer'.frame < queue'[j]
                       /\ \A i \in 1 .. Len(written') : written'[i] < writer'.frame
      <4> SUFFICES ASSUME Holding'
                   PROVE  /\ writer'.frame \in Frames /\ writer'.frame < Placed'
                          /\ \A j \in 1 .. Len(queue') :
                               writer'.frame < queue'[j]
                          /\ \A i \in 1 .. Len(written') :
                               written'[i] < writer'.frame
        OBVIOUS
      <4>1. Holding /\ writer' = writer /\ written' = written
        BY <2>1 DEF Holding
      <4>2. writer.frame \in Nat /\ writer.frame < Placed
        BY <4>1, <1>a DEF OrderInv
      <4>3. \A j \in 1 .. Len(queue') : writer.frame < queue'[j]
        BY <3>2, <3>4, <1>c, <2>1, <2>2, <1>a, <1>b, <4>1, <4>2 DEF OrderInv
      <4>4. QED
        BY <2>1, <2>2, <1>a, <4>1, <4>2, <4>3 DEF OrderInv
    <3>12. QED
      BY <2>1, <3>7, <3>8, <3>9, <3>10, <3>11 DEF OrderInv
<1>7. CASE WriterGet
  <2>1. /\ queue # <<>> /\ queue' = Tail(queue)
        /\ writer' = [pc |-> "took", frame |-> Head(queue)]
        /\ UNCHANGED <<written, nextFrame, feeder>> /\ Placed' = Placed
    BY <1>7 DEF WriterGet, Placed
  <2>2. /\ Len(queue') = Len(queue) - 1 /\ Len(queue) \in Nat \ {0}
        /\ \A i \in 1 .. Len(queue') : queue'[i] = queue[i + 1]
        /\ writer'.frame = queue[1] /\ queue[1] \in Frames
    BY <2>1, <1>a, TailOfSeq
  <2>3. \A i \in 1 .. Len(queue') : i + 1 \in 1 .. Len(queue)
    BY <2>2, <1>b
  <2>4. Increasing(queue')
    BY <2>2, <2>3, <1>b DEF OrderInv, Increasing
  <2>5. \A j \in 1 .. Len(queue') : writer'.frame < queue'[j]
    <3>1. \A j \in 1 .. Len(queue') : queue[1] < queue[j + 1]
      BY <2>2, <2>3, <1>b DEF OrderInv, Increasing
    <3>2. QED
      BY <2>2, <3>1
  <2>6. 1 \in 1 .. Len(queue)
    BY <2>2
  <2>7. QED
    BY <2>1, <2>2, <2>3, <2>4, <2>5, <2>6, <1>b DEF OrderInv, Holding
<1>8. CASE WriterStart
  <2>1. /\ UNCHANGED <<queue, nextFrame, feeder, written>>
        /\ writer'.frame = writer.frame /\ Holding /\ Placed' = Placed
    BY <1>8 DEF WriterStart, Placed, Holding, TypeOK, WriterState
  <2>2. QED
    BY <2>1 DEF OrderInv
<1>9. CASE WriterWrite
  <2>1. /\ UNCHANGED <<queue, nextFrame, feeder>> /\ Placed' = Placed
        /\ ~Holding' /\ Holding
    BY <1>9 DEF WriterWrite, Placed, Holding, WriterIdle
  <2>2. CASE written' = written
    BY <2>1, <2>2 DEF OrderInv
  <2>3. CASE written' = Append(written, writer.frame)
    <3>1. /\ Len(written') = Len(written) + 1
          /\ \A i \in 1 .. Len(written) : written'[i] = written[i]
          /\ written'[Len(written) + 1] = writer.frame
      BY <2>1, <2>3, <1>a, AppendToSeq DEF OrderInv
    <3>2. \A i \in 1 .. Len(written') : written'[i] = IF i <= Len(written)
                                                 THEN written[i] ELSE writer.frame
      BY <3>1, <1>b
    <3>3. Increasing(written')
      BY <3>1, <3>2, <2>1, <1>b DEF OrderInv, Increasing
    <3>4. QED
      BY <3>1, <3>2, <3>3, <2>1, <1>b DEF OrderInv
  <2>4. QED
    BY <1>9, <2>2, <2>3 DEF WriterWrite
<1>10. CASE WriterFail
  <2>1. UNCHANGED <<queue, nextFrame, feeder, written>> /\ ~Holding'
    BY <1>10 DEF WriterFail, Holding, TypeOK, WriterState
  <2>2. QED
    BY <2>1 DEF OrderInv, Placed
<1>11. CASE WriterExit
  <2>1. UNCHANGED <<queue, nextFrame, feeder, written>> /\ ~Holding'
    BY <1>11 DEF WriterExit, Holding, TypeOK, WriterState
  <2>2. QED
    BY <2>1 DEF OrderInv, Placed
<1>12. ASSUME UNCHANGED <<queue, nextFrame, feeder, writer, written>>
       PROVE  OrderInv'
  BY <1>12 DEF OrderInv, Holding, Placed
<1>13. QED
  BY <1>1, <1>3, <1>4, <1>5, <1>6, <1>7, <1>8, <1>9, <1>10, <1>11, <1>12
     DEF Next, FeederStep, WriterStep, Environment, vars, DeliverNotice, Poll,
         UserStop, Close, Packet, PlayerHangs, PlayerDies, MediaTaskEnds, Tick

\* Between the drain and the last put the writer only takes.
LEMMA PutStep == TypeOK /\ PutInv /\ [Next]_vars => PutInv'
<1> SUFFICES ASSUME TypeOK, PutInv, [Next]_vars PROVE PutInv'
  OBVIOUS
<1> USE DEF feedVars, PutInv
<1>a. queue \in Seq(Frames) /\ Len(queue) \in Nat
  BY DEF TypeOK
<1>1. CASE Feed
  BY <1>1 DEF Feed, HasRoom
<1>2. CASE FeedKeep
  BY <1>2 DEF FeedKeep, TypeOK, FeederState, FeederIdle
<1>3. CASE FeedDrain
  <2>1. feeder.keep \in 0 .. 1 /\ queue' = queue
    BY <1>3 DEF FeedDrain, TypeOK, FeederState, FeederIdle
  <2>2. feeder'.pc = "put" => Drained
    BY <1>3 DEF FeedDrain, TypeOK, FeederState, FeederIdle
  <2>3. QED
    BY <2>1, <2>2, <1>a DEF Drained
<1>4. CASE FeedDrop
  BY <1>4 DEF FeedDrop, TypeOK, FeederState, FeederIdle
<1>5. CASE FeedRetry
  BY <1>5 DEF FeedRetry, HasRoom, FeederIdle
<1>6. CASE WriterGet
  BY <1>6, <1>a, TailOfSeq DEF WriterGet
<1>7. ASSUME UNCHANGED <<queue, feeder>> PROVE PutInv'
  BY <1>7
<1>8. QED
  BY <1>1, <1>2, <1>3, <1>4, <1>5, <1>6, <1>7
     DEF Next, FeederStep, WriterStep, Environment, vars, DeliverNotice, Poll,
         UserStop, Close, Packet, PlayerHangs, PlayerDies, MediaTaskEnds, Tick,
         WriterStart, WriterWrite, WriterFail, WriterExit

\* The invariant of the queue
LEMMA SinkInvariant == Spec => [](TypeOK /\ PutInv /\ OrderInv)
<1>1. Init => PutInv /\ OrderInv
  BY DEF Init, PutInv, OrderInv, Increasing, Holding, FeederIdle, WriterIdle
<1>2. QED
  BY <1>1, OrderStep, PutStep, TypeCorrect, PTL DEF Spec

(* The pipe receives access units in feed order and none twice: a reader of  *)
(* the queue, a writer and a drain that throws away the middle of the feed   *)
(* cannot reorder what is left.                                              *)
THEOREM PipeOrder == Spec => []WritesInOrder
<1>1. OrderInv => WritesInOrder
  BY DEF OrderInv, WritesInOrder
<1>2. QED
  BY <1>1, SinkInvariant, PTL

(* An overflowing feed() leaves at most one stale unit before the fresh one, *)
(* whatever the capacity: this is the latency bound of the mirror.           *)
THEOREM LatencyBound == Spec => OverflowDropsBacklog
<1>1. TypeOK /\ PutInv /\ OrderInv /\ [Next]_vars =>
        [feeder.pc = "put" /\ feeder'.pc = "idle" => Len(queue') <= 2]_vars
  <2> SUFFICES ASSUME TypeOK, PutInv, OrderInv, [Next]_vars,
                      feeder.pc = "put", feeder'.pc = "idle"
               PROVE  Len(queue') <= 2
    BY DEF vars
  <2>1. FeedRetry
    BY DEF Next, FeederStep, WriterStep, Environment, vars, DeliverNotice,
           Poll, UserStop, Close, Packet, PlayerHangs, PlayerDies,
           MediaTaskEnds, Tick, WriterStart, WriterWrite, WriterFail,
           WriterExit, WriterGet, Feed, FeedKeep, FeedDrain, FeedDrop, feedVars
  <2>2. queue \in Seq(Frames) /\ Len(queue) \in Nat /\ Len(queue) <= 1
    BY DEF TypeOK, PutInv
  <2>3. feeder.frame \in Frames
    BY DEF OrderInv
  <2>4. QED
    BY <2>1, <2>2, <2>3, AppendToSeq DEF FeedRetry, HasRoom, Enqueue
<1>2. QED
  BY <1>1, SinkInvariant, PTL DEF Spec, OverflowDropsBacklog

\* The newest unit stays on its way or has been written.
LEMMA NewestStep ==
  TypeOK /\ PutInv /\ OrderInv /\ NewestSurvives /\ [Next]_vars
    => NewestSurvives'
<1> SUFFICES ASSUME TypeOK, PutInv, OrderInv, NewestSurvives, [Next]_vars,
                    feeder'.pc = "idle", nextFrame' > Header, ~sinkStop'
             PROVE  \/ \E i \in 1 .. Len(queue') : queue'[i] = nextFrame' - 1
                    \/ writer'.frame = nextFrame' - 1
                    \/ \E i \in 1 .. Len(written') : written'[i] = nextFrame' - 1
  BY DEF NewestSurvives
<1> USE DEF feedVars, writeVars, sessionVars
<1>a. /\ queue \in Seq(Frames) /\ written \in Seq(Frames)
      /\ nextFrame \in Nat /\ Frames \subseteq Nat
      /\ Len(queue) \in Nat /\ Len(written) \in Nat
  BY MaxFramesAssumption DEF TypeOK, Frames
<1>1. CASE Feed
  <2>1. nextFrame \in Frames /\ nextFrame' = nextFrame + 1
    BY <1>1, <1>a, MaxFramesAssumption DEF Feed, HasRoom, Frames
  <2>2. queue' = Append(queue, nextFrame)
    BY <1>1 DEF Feed, HasRoom, Enqueue
  <2>3. queue'[Len(queue')] = nextFrame' - 1 /\ Len(queue') \in 1 .. Len(queue')
    BY <2>1, <2>2, <1>a, AppendToSeq
  <2>4. QED
    BY <2>3
<1>2. CASE FeedKeep
  BY <1>2 DEF FeedKeep, TypeOK, FeederState, FeederIdle
<1>3. CASE FeedDrain
  BY <1>3 DEF FeedDrain, TypeOK, FeederState, FeederIdle
<1>4. CASE FeedDrop
  BY <1>4 DEF FeedDrop, TypeOK, FeederState, FeederIdle
<1>5. CASE FeedRetry
  <2>1. /\ feeder.frame \in Frames /\ feeder.frame = nextFrame - 1
        /\ nextFrame' = nextFrame /\ Len(queue) < Capacity
    BY <1>5, <1>a, CapacityAssumption DEF FeedRetry, HasRoom, OrderInv, PutInv
  <2>2. queue' = Append(queue, feeder.frame)
    BY <1>5, <2>1 DEF FeedRetry, HasRoom, Enqueue
  <2>3. queue'[Len(queue')] = nextFrame' - 1 /\ Len(queue') \in 1 .. Len(queue')
    BY <2>1, <2>2, <1>a, AppendToSeq
  <2>4. QED
    BY <2>3
<1>6. CASE WriterGet
  <2>1. /\ queue # <<>> /\ queue' = Tail(queue) /\ writer.frame = None
        /\ writer'.frame = Head(queue)
        /\ UNCHANGED <<written, nextFrame, feeder, sinkStop>>
    BY <1>6 DEF WriterGet, TypeOK, WriterState
  <2>2. CASE \E i \in 1 .. Len(queue) : queue[i] = nextFrame - 1
    <3>1. PICK i \in 1 .. Len(queue) : queue[i] = nextFrame - 1
      BY <2>2
    <3>2. CASE i = 1
      BY <3>1, <3>2, <2>1, <1>a, TailOfSeq
    <3>3. CASE i # 1
      <4>1. i - 1 \in 1 .. Len(queue') /\ queue'[i - 1] = nextFrame' - 1
        BY <3>1, <3>3, <2>1, <1>a, TailOfSeq
      <4>2. QED
        BY <4>1
    <3>4. QED
      BY <3>2, <3>3
  <2>3. CASE \E i \in 1 .. Len(written) : written[i] = nextFrame - 1
    BY <2>1, <2>3
  <2>4. writer.frame # nextFrame - 1
    BY <2>1, <1>a, NoneAssumption DEF NewestSurvives, Header
  <2>5. QED
    BY <2>1, <2>2, <2>3, <2>4 DEF NewestSurvives
<1>7. CASE WriterStart
  <2>1. /\ UNCHANGED <<queue, written, nextFrame, feeder, sinkStop>>
        /\ writer'.frame = writer.frame
    BY <1>7 DEF WriterStart, TypeOK, WriterState
  <2>2. QED
    BY <2>1 DEF NewestSurvives
<1>8. CASE WriterWrite
  <2>1. /\ UNCHANGED <<queue, nextFrame, feeder, sinkStop>>
        /\ written' = Append(written, writer.frame) /\ writer.frame \in Frames
    BY <1>8 DEF WriterWrite, OrderInv, Holding
  <2>2. /\ Len(written') = Len(written) + 1
        /\ \A i \in 1 .. Len(written) : written'[i] = written[i]
        /\ written'[Len(written) + 1] = writer.frame
    BY <2>1, <1>a, AppendToSeq
  <2>3. CASE writer.frame = nextFrame - 1
    BY <2>1, <2>2, <2>3, <1>a
  <2>4. CASE \E i \in 1 .. Len(written) : written[i] = nextFrame - 1
    BY <2>1, <2>2, <2>4, <1>a
  <2>5. CASE \E i \in 1 .. Len(queue) : queue[i] = nextFrame - 1
    BY <2>1, <2>5
  <2>6. QED
    BY <2>1, <2>3, <2>4, <2>5 DEF NewestSurvives
<1>9. CASE WriterFail
  <2>1. /\ UNCHANGED <<queue, written, nextFrame, feeder, sinkStop>>
        /\ writer'.frame = writer.frame
    BY <1>9 DEF WriterFail, TypeOK, WriterState
  <2>2. QED
    BY <2>1 DEF NewestSurvives
<1>10. CASE WriterExit
  BY <1>10 DEF WriterExit
<1>11. CASE Close
  BY <1>11 DEF Close
<1>12. CASE UNCHANGED <<queue, nextFrame, feeder, writer, written, sinkStop>>
  BY <1>12 DEF NewestSurvives
<1>13. QED
  BY <1>1, <1>2, <1>3, <1>4, <1>5, <1>6, <1>7, <1>8, <1>9, <1>10, <1>11, <1>12
     DEF Next, FeederStep, WriterStep, Environment, vars, DeliverNotice, Poll,
         UserStop, Packet, PlayerHangs, PlayerDies, MediaTaskEnds, Tick

(* The newest access unit is never the one an overflow sacrifices.           *)
THEOREM NewestKept == Spec => []NewestSurvives
<1>1. Init => NewestSurvives
  BY DEF Init, NewestSurvives, Header
<1>2. QED
  BY <1>1, NewestStep, SinkInvariant, PTL DEF Spec

-----------------------------------------------------------------------------
(* The player is blamed only when it is gone.  The invariant also covers the *)
(* notice that the writer thread has posted and the loop has not yet run.    *)

BlameInv == notice \/ errorCode = "player_disconnected" => pipe = "broken"

\* A notice is posted only of a player that is gone.
LEMMA BlameStep == TypeOK /\ BlameInv /\ [Next]_vars => BlameInv'
<1> SUFFICES ASSUME TypeOK, BlameInv, [Next]_vars PROVE BlameInv'
  OBVIOUS
<1> USE DEF BlameInv, sessionVars
<1>1. CASE WriterFail
  BY <1>1 DEF WriterFail, Reported
<1>2. CASE DeliverNotice
  BY <1>2 DEF DeliverNotice, Stop
<1>3. CASE Poll
  BY <1>3 DEF Poll, Stop, Verdict
<1>4. CASE UserStop
  BY <1>4 DEF UserStop, Stop
<1>5. CASE PlayerHangs
  BY <1>5 DEF PlayerHangs
<1>6. CASE PlayerDies
  BY <1>6 DEF PlayerDies
<1>7. CASE UNCHANGED <<notice, errorCode, pipe>>
  BY <1>7
<1>8. QED
  BY <1>1, <1>2, <1>3, <1>4, <1>5, <1>6, <1>7
     DEF Next, FeederStep, WriterStep, Environment, vars, Close, Packet,
         MediaTaskEnds, Tick, WriterStart, WriterWrite, WriterGet, WriterExit,
         Feed, FeedKeep, FeedDrain, FeedDrop, FeedRetry

(* Closing a sink under a write in flight is not reported as a lost player.  *)
THEOREM CloseSilent == Spec => []CloseIsSilent
<1>1. Init => BlameInv
  BY NoneAssumption DEF Init, BlameInv, ErrorCodes
<1>2. BlameInv => CloseIsSilent
  BY DEF BlameInv, CloseIsSilent
<1>3. QED
  BY <1>1, <1>2, BlameStep, TypeCorrect, PTL DEF Spec
=============================================================================
