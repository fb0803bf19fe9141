------------------------- MODULE WorkerSession_proofs -------------------------
(***************************************************************************)
(* Theorems about the session life cycle of the Windows worker, for any    *)
(* number of sessions and of handshake attempts, and the refinement of its *)
(* contract with the application, WorkerContract.                          *)
(***************************************************************************)
EXTENDS WorkerSession, SequenceTheorems, TLAPS

\* All that happens in the life of a session
SessionStep(s) == RunStep(s) \/ Mishap(s) \/ Input(s)

EventNames == {"starting", "running", "stopping", "stopped", "error"}
Terminal == {"stopped", "error"}

\* One sequence after another
LEMMA Concatenation ==
  ASSUME NEW S, NEW a \in Seq(S), NEW b \in Seq(S)
  PROVE  /\ a \o b \in Seq(S)
         /\ Len(a \o b) = Len(a) + Len(b)
         /\ \A i \in 1 .. Len(a) : (a \o b)[i] = a[i]
         /\ \A i \in 1 .. Len(a \o b) :
              i \in 1 .. Len(a) \/ (/\ i - Len(a) \in 1 .. Len(b)
                                    /\ (a \o b)[i] = b[i - Len(a)])
  OBVIOUS

\* The last events of a session are terminal.
LEMMA FinalEventsType ==
  ASSUME NEW s \in Sessions
  PROVE  /\ FinalEvents(s) \in Seq(EventNames)
         /\ \A i \in 1 .. Len(FinalEvents(s)) : FinalEvents(s)[i] \in Terminal
<1> DEFINE e == IF errorCode[s] THEN "error" ELSE "stopped"
<1>1. e \in Terminal /\ e \in EventNames
  BY DEF Terminal, EventNames
<1>2. \/ FinalEvents(s) = <<e>> \o <<>>
      \/ FinalEvents(s) = <<e>> \o <<"error">>
  BY DEF FinalEvents
<1> HIDE DEF e
<1>3. CASE FinalEvents(s) = <<e>> \o <<>>
  BY <1>1, <1>3 DEF Terminal, EventNames
<1>4. CASE FinalEvents(s) = <<e>> \o <<"error">>
  BY <1>1, <1>4 DEF Terminal, EventNames
<1> QED
  BY <1>2, <1>3, <1>4

\* What a session has sent, and now sends
LEMMA Emitting ==
  ASSUME NEW s \in Sessions, NEW es \in Seq(EventNames),
         events \in [Sessions -> Seq(EventNames)], Emit(s, es)
  PROVE  /\ events' \in [Sessions -> Seq(EventNames)]
         /\ events'[s] = events[s] \o es
         /\ \A t \in Sessions : t # s => events'[t] = events[t]
  BY Concatenation DEF Emit

-----------------------------------------------------------------------------
(* Type correctness. *)

MainType ==
  [pc : {"idle", "setup", "stopWait", "shutWait", "exitWait", "done"},
   waitsFor : Sessions \cup {None}]

\* A session's steps keep the types, ...
LEMMA SessionStepType ==
  ASSUME TypeOK, NEW s \in Sessions, SessionStep(s)
  PROVE  TypeOK'
<1> USE DEF TypeOK, Goto, Own, Raise, StopWith, FreeSlot, mainVars,
            Places, Startup, Cleanup
<1>0. events \in [Sessions -> Seq(EventNames)]
  BY DEF EventNames
<1>e. ASSUME NEW es \in Seq(EventNames), Emit(s, es)
      PROVE  events' \in [Sessions -> Seq({"starting", "running", "stopping",
                                           "stopped", "error"})]
  BY <1>e, <1>0, Emitting DEF EventNames
<1>r. Raise(s) => /\ raised' \in [Sessions -> {"nothing", "startup", "exit"}]
                  /\ pc' \in [Sessions -> Places]
  OBVIOUS
<1>o. ASSUME NEW thing \in SUBSET Resources, Own(s, thing)
      PROVE  owned' \in [Sessions -> SUBSET Resources]
  BY <1>o
<1>c. ASSUME NEW things, NEW failing \in SUBSET {"tunnel", "stream"},
             Close(s, things, failing)
      PROVE  /\ owned' \in [Sessions -> SUBSET Resources]
             /\ left' \in [Sessions -> SUBSET {"tunnel", "stream"}]
  BY <1>c DEF Close
<1>d. ASSUME NEW place, NEW thing, NEW failing \in SUBSET {"tunnel", "stream"},
             NEW next \in Places, Release(s, place, thing, failing, next)
      PROVE  TypeOK'
  <2>1. pc' \in [Sessions -> Places]
    BY <1>d DEF Release
  <2> QED
    BY <1>d, <1>c, <2>1 DEF Release
<1>g. ASSUME NEW place \in Places, Goto(s, place)
      PROVE  pc' \in [Sessions -> Places]
  BY <1>g
<1>p. ASSUME NEW place, NEW thing \in SUBSET Resources, NEW next \in Places,
             Open(s, place, thing, next)
      PROVE  TypeOK'
  <2>1. /\ pc' \in [Sessions -> Places]
        /\ owned' \in [Sessions -> SUBSET Resources]
        /\ raised' \in [Sessions -> {"nothing", "startup", "exit"}]
    <3>1. CASE Raise(s) /\ UNCHANGED owned
      BY <1>r, <3>1
    <3>2. CASE Own(s, thing) /\ Goto(s, next) /\ UNCHANGED raised
      BY <1>o, <1>g, <3>2
    <3> QED
      BY <1>p, <3>1, <3>2 DEF Open
  <2> QED
    BY <1>p, <2>1 DEF Open
<1>1. CASE Select(s)
  <2>1. <<"starting">> \in Seq(EventNames) /\ <<"error">> \in Seq(EventNames)
    BY DEF EventNames
  <2> QED
    BY <1>1, <1>e, <2>1 DEF Select
<1>2. CASE EnterTunnel(s)
  BY <1>2, <1>p DEF EnterTunnel, Resources
<1>3. CASE ConnectDisplay(s)
  <2>1. /\ pc' \in [Sessions -> Places]
        /\ owned' \in [Sessions -> SUBSET Resources]
        /\ raised' \in [Sessions -> {"nothing", "startup", "exit"}]
        /\ attempt' \in [Sessions -> 0 .. MaxAttempts]
    <3>0. 0 \in 0 .. MaxAttempts
      BY BoundsAssumption
    <3>1. CASE /\ Raise(s) /\ UNCHANGED owned
               /\ attempt' = [attempt EXCEPT ![s] = 0]
      BY <1>r, <3>0, <3>1
    <3>2. CASE /\ Own(s, {"display"}) /\ Goto(s, "media")
               /\ attempt' = [attempt EXCEPT ![s] = 0]
               /\ UNCHANGED raised
      <4>1. {"display"} \in SUBSET Resources
        BY DEF Resources
      <4> QED
        BY <1>o, <1>g, <3>0, <3>2, <4>1
    <3>3. CASE /\ MayRetry(s)
               /\ attempt' = [attempt EXCEPT ![s] = @ + 1]
               /\ UNCHANGED <<pc, owned, raised>>
      <4>1. attempt[s] + 1 \in 0 .. MaxAttempts
        BY <3>3, BoundsAssumption DEF MayRetry
      <4> QED
        BY <3>3, <4>1
    <3> QED
      BY <1>3, <3>1, <3>2, <3>3 DEF ConnectDisplay
  <2> QED
    BY <1>3, <2>1 DEF ConnectDisplay
<1>4. CASE OpenMedia(s)
  BY <1>4, <1>p DEF OpenMedia, Resources
<1>5. CASE StartStream(s)
  <2>1. PICK begun \in SUBSET Resources :
          /\ Own(s, begun)
          /\ Raise(s) \/ (Goto(s, "ready") /\ UNCHANGED raised)
    BY <1>5 DEF StartStream, Resources
  <2>2. owned' \in [Sessions -> SUBSET Resources]
    BY <1>o, <2>1
  <2>3. pc' \in [Sessions -> Places]
        /\ raised' \in [Sessions -> {"nothing", "startup", "exit"}]
    BY <1>r, <1>g, <2>1
  <2> QED
    BY <1>5, <2>2, <2>3 DEF StartStream
<1>6. CASE AwaitVideo(s)
  BY <1>6 DEF AwaitVideo
<1>7. CASE WarmInput(s)
  <2>1. <<"running">> \in Seq(EventNames)
    BY DEF EventNames
  <2>2. owned' \in [Sessions -> SUBSET Resources]
    BY <1>7, <1>o DEF WarmInput, Resources
  <2> QED
    BY <1>7, <1>e, <2>1, <2>2 DEF WarmInput
<1>8. CASE EndLoop(s)
  BY <1>8 DEF EndLoop
<1>9. CASE LeaveTunnel(s)
  <2>1. \E failing \in SUBSET {"tunnel"} : Close(s, {"tunnel"}, failing)
    BY <1>9 DEF LeaveTunnel
  <2>2. /\ owned' \in [Sessions -> SUBSET Resources]
        /\ left' \in [Sessions -> SUBSET {"tunnel", "stream"}]
    BY <1>c, <2>1
  <2>3. raised' \in [Sessions -> {"nothing", "startup", "exit"}]
    BY <1>9 DEF LeaveTunnel
  <2> QED
    BY <1>9, <2>2, <2>3 DEF LeaveTunnel
<1>10. CASE Stopping(s)
  <2>1. <<"stopping">> \in Seq(EventNames)
    BY DEF EventNames
  <2> QED
    BY <1>10, <1>e, <2>1 DEF Stopping
<1>11. CASE CloseInput(s)
  BY <1>11, <1>d DEF CloseInput
<1>12. CASE StopStream(s)
  BY <1>12, <1>d DEF StopStream
<1>13. CASE CancelTasks(s)
  BY <1>13, <1>d DEF CancelTasks
<1>14. CASE CloseSink(s)
  BY <1>14, <1>d DEF CloseSink
<1>15. CASE Finish(s)
  BY <1>15, <1>c, <1>e, FinalEventsType DEF Finish
<1>16. CASE SinkReady(s)
  BY <1>16 DEF SinkReady, Resources
<1>17. CASE StreamFails(s)
  BY <1>17 DEF StreamFails
<1>18. CASE LosePlayer(s)
  BY <1>18 DEF LosePlayer
<1>19. CASE PlayerDisconnected(s)
  BY <1>19 DEF PlayerDisconnected
<1>20. CASE InputConnects(s)
  BY <1>20, <1>o DEF InputConnects, Resources
<1>21. CASE InputFails(s)
  BY <1>21, <1>c DEF InputFails
<1> QED
  BY <1>1, <1>2, <1>3, <1>4, <1>5, <1>6, <1>7, <1>8, <1>9, <1>10, <1>11,
     <1>12, <1>13, <1>14, <1>15, <1>16, <1>17, <1>18, <1>19, <1>20, <1>21
     DEF SessionStep, RunStep, Mishap, Input

\* ... and so do the command loop's.
LEMMA MainStepType == TypeOK /\ MainStep => TypeOK'
<1> SUFFICES ASSUME TypeOK, MainStep PROVE TypeOK'
  OBVIOUS
<1> USE DEF TypeOK, sessionVars
<1>w. ASSUME NEW waiting \in {"stopWait", "shutWait", "exitWait"},
             NEW after \in {"idle", "done"}, StopThenWait(waiting, after)
      PROVE  /\ main' \in MainType
             /\ stopEvent' \in [Sessions -> BOOLEAN]
             /\ errorCode' \in [Sessions -> BOOLEAN]
  <2>1. CASE session = None
    BY <1>w, <2>1 DEF StopThenWait, MainType
  <2>2. CASE session # None
    <3>1. session \in Sessions /\ StopWith(session, FALSE)
          /\ main' = [pc |-> waiting, waitsFor |-> session]
      BY <1>w, <2>2 DEF StopThenWait
    <3>2. /\ stopEvent' = [stopEvent EXCEPT ![session] = TRUE]
          /\ errorCode' = [errorCode EXCEPT ![session] = @ \/ FALSE]
      BY <3>1 DEF StopWith
    <3>3. errorCode' \in [Sessions -> BOOLEAN]
      BY <3>1, <3>2
    <3> QED
      BY <3>1, <3>2, <3>3 DEF MainType
  <2> QED
    BY <2>1, <2>2
<1>1. CASE StartSession
  <2>1. CASE SlotFree /\ started < MaxSessions
    <3>1. started + 1 \in Sessions /\ started + 1 \in 0 .. MaxSessions
      BY <2>1, BoundsAssumption DEF Sessions
    <3>2. pc' = [pc EXCEPT ![started + 1] = "select"]
          /\ session' = started + 1 /\ started' = started + 1
      BY <1>1, <2>1 DEF StartSession
    <3>3. "select" \in Places
      BY DEF Places, Startup
    <3>4. pc' \in [Sessions -> Places]
      BY <3>1, <3>2, <3>3
    <3> QED
      BY <1>1, <2>1, <3>1, <3>2, <3>4 DEF StartSession
  <2>2. CASE ~SlotFree
    BY <1>1, <2>2 DEF StartSession
  <2> QED
    BY <1>1, <2>1, <2>2 DEF StartSession
<1>2. CASE Setup
  BY <1>2 DEF Setup
<1>3. CASE SetupDone
  BY <1>3 DEF SetupDone
<1>4. CASE StopSession
  BY <1>4, <1>w DEF StopSession, MainType
<1>5. CASE StopAnswer
  <2>1. main' \in MainType
    BY <1>5 DEF StopAnswer, MainType
  <2> QED
    BY <1>5, <2>1 DEF StopAnswer, MainType
<1>6. CASE Shutdown
  BY <1>6, <1>w DEF Shutdown, MainType
<1>7. CASE ShutdownAnswer
  BY <1>7 DEF ShutdownAnswer
<1>8. CASE LeaveMain
  BY <1>8, <1>w DEF LeaveMain, MainType
<1>9. CASE Exit
  BY <1>9 DEF Exit
<1>10. CASE Stopped
  BY <1>10 DEF Stopped, vars
<1> QED
  BY <1>1, <1>2, <1>3, <1>4, <1>5, <1>6, <1>7, <1>8, <1>9, <1>10 DEF MainStep

\* Every variable keeps its type, whatever the commands and the sessions do.
THEOREM TypeCorrect == Spec => []TypeOK
<1>1. Init => TypeOK
  <2> SUFFICES ASSUME Init PROVE TypeOK
    OBVIOUS
  <2>1. events \in [Sessions -> Seq({"starting", "running", "stopping",
                                     "stopped", "error"})]
    BY DEF Init
  <2>2. pc \in [Sessions -> Places] /\ owned \in [Sessions -> SUBSET Resources]
        /\ left \in [Sessions -> SUBSET {"tunnel", "stream"}]
    BY DEF Init, Places
  <2>3. started \in 0 .. MaxSessions /\ attempt \in [Sessions -> 0 .. MaxAttempts]
    BY BoundsAssumption DEF Init
  <2> QED
    BY <2>1, <2>2, <2>3 DEF Init, TypeOK
<1>2. TypeOK /\ [Next]_vars => TypeOK'
  <2>1. TypeOK /\ UNCHANGED vars => TypeOK'
    BY DEF TypeOK, vars
  <2> QED
    BY <2>1, SessionStepType, MainStepType DEF Next, SessionStep
<1>3. QED
  BY <1>1, <1>2, PTL DEF Spec

-----------------------------------------------------------------------------
(* The inductive invariant. *)

\* The slot names exactly the live session; sessions are used up in order; a
\* command that waits for a session waits for the one in the slot, or for one
\* that has just left it.
SlotInv ==
  /\ \A s \in Sessions : Live(s) <=> session = s
  /\ \A s \in Sessions : pc[s] = "none" <=> s > started
  /\ main.pc \in {"stopWait", "shutWait", "exitWait"} =>
       main.waitsFor \in Sessions /\ session \in {None, main.waitsFor}
  /\ main.pc = "setup" => session = None
  /\ reply = "stopped" => session = None

\* What a session may still have open, by the place its task is at, ...
MayOwn(place) ==
  CASE place \in {"none", "ended", "select", "tunnel"} -> {}
    [] place \in {"stopping", "closeInput"} -> Resources \ {"tunnel"}
    [] place = "stopStream" -> Resources \ {"tunnel", "hid"}
    [] place = "cancel" -> Resources \ {"tunnel", "hid", "stream"}
    [] place = "closeSink" -> {"transport", "display", "sink"}
    [] place = "closeMedia" -> {"transport", "display"}
    [] OTHER -> Resources

\* ... and what no step of cleanup() closes, by what could not be closed before.
Beyond(kept) == {"orphan"} \cup (IF "tunnel" \in kept THEN {"hid"} ELSE {})

OwnInv ==
  \A s \in Sessions :
    /\ owned[s] \subseteq MayOwn(pc[s]) \cup Beyond(left[s])
    /\ pc[s] \in {"none", "select", "tunnel"} => owned[s] = {} /\ left[s] = {}

\* Terminal events are the last thing a session sends.
EventInv == \A s \in Sessions : Announced(s) => pc[s] = "ended"

\* A session that goes from one place to another keeps its slot.
LEMMA SlotMove ==
  ASSUME TypeOK, SlotInv, NEW s \in Sessions, Live(s),
         NEW place \in Places \ {"none", "ended"}, Goto(s, place),
         UNCHANGED mainVars
  PROVE  SlotInv'
BY DEF TypeOK, SlotInv, Live, Goto, mainVars

\* A session that ends frees it.
LEMMA SlotEnd ==
  ASSUME TypeOK, SlotInv, NEW s \in Sessions, Live(s),
         Goto(s, "ended"), FreeSlot(s), UNCHANGED <<main, reply, started>>
  PROVE  SlotInv'
<1> USE DEF TypeOK, SlotInv, Live, Goto, FreeSlot
<1>1. session = s /\ session' = None
  OBVIOUS
<1>2. \A t \in Sessions : pc'[t] = IF t = s THEN "ended" ELSE pc[t]
  OBVIOUS
<1>3. \A t \in Sessions : Live(t)' <=> session' = t
  BY <1>1, <1>2, NoneAssumption DEF Sessions
<1>4. \A t \in Sessions : pc'[t] = "none" <=> t > started'
  BY <1>2
<1> QED
  BY <1>1, <1>3, <1>4

\* A session frees the slot only when it ends, ...
LEMMA SlotSessionStep ==
  ASSUME TypeOK, SlotInv, NEW s \in Sessions, SessionStep(s)
  PROVE  SlotInv'
<1>r. ASSUME Live(s), Raise(s), UNCHANGED mainVars
      PROVE  SlotInv'
  <2>1. PICK place \in {"leave", "stopping"} : Goto(s, place)
    BY <1>r DEF Raise
  <2>2. place \in Places \ {"none", "ended"}
    BY DEF Places, Cleanup
  <2> QED
    BY <1>r, <2>1, <2>2, SlotMove
<1>o. ASSUME NEW place \in Startup, NEW thing, NEW next \in Startup,
             Open(s, place, thing, next)
      PROVE  SlotInv'
  <2>1. Live(s) /\ next \in Places \ {"none", "ended"}
    BY <1>o DEF Open, Live, Startup, Places
  <2> QED
    BY <1>o, <1>r, <2>1, SlotMove DEF Open
<1>c. ASSUME NEW place \in Cleanup, NEW thing, NEW failing, NEW next \in Cleanup,
             Release(s, place, thing, failing, next)
      PROVE  SlotInv'
  <2>1. Live(s) /\ next \in Places \ {"none", "ended"}
    BY <1>c DEF Release, Live, Cleanup, Places
  <2> QED
    BY <1>c, <2>1, SlotMove DEF Release
<1>u. UNCHANGED <<mainVars, pc>> => SlotInv'
  BY DEF SlotInv, Live, mainVars
<1>1. CASE Select(s)
  <2>1. Live(s) /\ "tunnel" \in Places \ {"none", "ended"}
    BY <1>1 DEF Select, Live, Places, Startup
  <2> QED
    BY <1>1, <2>1, SlotMove, SlotEnd DEF Select, mainVars
<1>2. CASE EnterTunnel(s)
  BY <1>2, <1>o DEF EnterTunnel, Startup
<1>3. CASE ConnectDisplay(s)
  <2>1. Live(s) /\ "media" \in Places \ {"none", "ended"}
    BY <1>3 DEF ConnectDisplay, Live, Places, Startup
  <2> QED
    BY <1>3, <2>1, <1>r, <1>u, SlotMove DEF ConnectDisplay
<1>4. CASE OpenMedia(s)
  BY <1>4, <1>o DEF OpenMedia, Startup
<1>5. CASE StartStream(s)
  <2>1. Live(s) /\ "ready" \in Places \ {"none", "ended"}
    BY <1>5 DEF StartStream, Live, Places, Startup
  <2> QED
    BY <1>5, <2>1, <1>r, SlotMove DEF StartStream
<1>6. CASE AwaitVideo(s)
  <2>1. Live(s) /\ "warm" \in Places \ {"none", "ended"}
    BY <1>6 DEF AwaitVideo, Live, Places, Startup
  <2> QED
    BY <1>6, <2>1, <1>r, SlotMove DEF AwaitVideo
<1>7. CASE WarmInput(s)
  <2>1. Live(s) /\ "loop" \in Places \ {"none", "ended"}
    BY <1>7 DEF WarmInput, Live, Places
  <2> QED
    BY <1>7, <2>1, SlotMove DEF WarmInput
<1>8. CASE EndLoop(s)
  <2>1. Live(s) /\ "leave" \in Places \ {"none", "ended"}
    BY <1>8 DEF EndLoop, Live, Places
  <2> QED
    BY <1>8, <2>1, SlotMove DEF EndLoop
<1>9. CASE LeaveTunnel(s)
  <2>1. Live(s) /\ "stopping" \in Places \ {"none", "ended"}
    BY <1>9 DEF LeaveTunnel, Live, Places, Cleanup
  <2> QED
    BY <1>9, <2>1, SlotMove DEF LeaveTunnel
<1>10. CASE Stopping(s)
  <2>1. Live(s) /\ "closeInput" \in Places \ {"none", "ended"}
    BY <1>10 DEF Stopping, Live, Places, Cleanup
  <2> QED
    BY <1>10, <2>1, SlotMove DEF Stopping
<1>11. CASE CloseInput(s)
  BY <1>11, <1>c DEF CloseInput, Cleanup
<1>12. CASE StopStream(s)
  BY <1>12, <1>c DEF StopStream, Cleanup
<1>13. CASE CancelTasks(s)
  BY <1>13, <1>c DEF CancelTasks, Cleanup
<1>14. CASE CloseSink(s)
  BY <1>14, <1>c DEF CloseSink, Cleanup
<1>15. CASE Finish(s)
  <2>1. Live(s)
    BY <1>15 DEF Finish, Live
  <2> QED
    BY <1>15, <2>1, SlotEnd DEF Finish
<1>16. CASE Mishap(s)
  BY <1>16, <1>u DEF Mishap, SinkReady, StreamFails, LosePlayer, PlayerDisconnected
<1>17. CASE Input(s)
  BY <1>17, <1>u DEF Input, InputConnects, InputFails
<1> QED
  BY <1>1, <1>2, <1>3, <1>4, <1>5, <1>6, <1>7, <1>8, <1>9, <1>10, <1>11,
     <1>12, <1>13, <1>14, <1>15, <1>16, <1>17 DEF SessionStep, RunStep

\* ... and the command loop fills it only when it is free.
LEMMA SlotMainStep == TypeOK /\ SlotInv /\ MainStep => SlotInv'
<1> SUFFICES ASSUME TypeOK, SlotInv, MainStep PROVE SlotInv'
  OBVIOUS
<1> USE DEF TypeOK, SlotInv, Live, sessionVars
<1>w. ASSUME NEW waiting \in {"stopWait", "shutWait", "exitWait"},
             NEW after \in {"idle", "done"}, StopThenWait(waiting, after),
             UNCHANGED <<session, started, pc>>,
             reply' \in {reply, "shutdown"} \/ session = None
      PROVE  SlotInv'
  <2>1. CASE session = None
    BY <1>w, <2>1 DEF StopThenWait
  <2>2. CASE session # None
    BY <1>w, <2>2 DEF StopThenWait
  <2> QED
    BY <2>1, <2>2
<1>1. CASE StartSession
  <2>1. CASE ~SlotFree
    BY <1>1, <2>1 DEF StartSession, SlotFree
  <2>2. CASE SlotFree
    <3>1. /\ session = None /\ started + 1 \in Sessions
          /\ started' = started + 1 /\ session' = started + 1
          /\ pc' = [pc EXCEPT ![started + 1] = "select"]
          /\ reply' = "started" /\ main' = main /\ main.pc = "idle"
      BY <1>1, <2>2, BoundsAssumption
         DEF StartSession, SlotFree, Reading, Sessions
    <3>2. \A t \in Sessions : t # None /\ t \in Nat
      BY NoneAssumption DEF Sessions
    <3>3. \A t \in Sessions :
            pc'[t] = IF t = started + 1 THEN "select" ELSE pc[t]
      BY <3>1
    <3>4. \A t \in Sessions : Live(t)' <=> session' = t
      BY <3>1, <3>2, <3>3
    <3>5. \A t \in Sessions : pc'[t] = "none" <=> t > started'
      BY <3>1, <3>2, <3>3
    <3> QED
      BY <3>1, <3>4, <3>5
  <2> QED
    BY <2>1, <2>2
<1>2. CASE Setup
  BY <1>2 DEF Setup, SlotFree, Reading
<1>3. CASE SetupDone
  BY <1>3 DEF SetupDone
<1>4. CASE StopSession
  BY <1>4, <1>w DEF StopSession
<1>5. CASE StopAnswer
  <2>1. TaskDone(main.waitsFor) => session = None
    BY <1>5 DEF StopAnswer, TaskDone
  <2> QED
    BY <1>5, <2>1 DEF StopAnswer
<1>6. CASE Shutdown
  BY <1>6, <1>w DEF Shutdown
<1>7. CASE ShutdownAnswer
  BY <1>7 DEF ShutdownAnswer
<1>8. CASE LeaveMain
  BY <1>8, <1>w DEF LeaveMain
<1>9. CASE Exit
  BY <1>9 DEF Exit
<1>10. CASE Stopped
  BY <1>10 DEF Stopped, vars
<1> QED
  BY <1>1, <1>2, <1>3, <1>4, <1>5, <1>6, <1>7, <1>8, <1>9, <1>10 DEF MainStep

\* The invariant of the slot
LEMMA SlotInvariant == Spec => [](TypeOK /\ SlotInv)
<1>1. Init => SlotInv
  BY BoundsAssumption, NoneAssumption DEF Init, SlotInv, Live, Sessions
<1>2. TypeOK /\ SlotInv /\ [Next]_vars => SlotInv'
  <2>1. SlotInv /\ UNCHANGED vars => SlotInv'
    BY DEF SlotInv, Live, vars
  <2> QED
    BY <2>1, SlotSessionStep, SlotMainStep DEF Next, SessionStep
<1>3. QED
  BY <1>1, <1>2, TypeCorrect, PTL DEF Spec

\* The phone never has two users: no two sessions are alive together, nor a
\* session and a setup action.
THEOREM OneUser == Spec => []PhoneHasOneUser
<1>1. TypeOK /\ SlotInv => PhoneHasOneUser
  BY NoneAssumption DEF TypeOK, SlotInv, PhoneHasOneUser, Sessions
<1>2. QED
  BY <1>1, SlotInvariant, PTL

\* After a positive answer to stop_session the slot is free.
THEOREM StopIsHonest == Spec => []StoppedMeansFree
<1>1. SlotInv => StoppedMeansFree
  BY DEF SlotInv, StoppedMeansFree
<1>2. QED
  BY <1>1, SlotInvariant, PTL

-----------------------------------------------------------------------------
(* Resources and events. *)

\* A step of session s leaves the other sessions' resources and places alone.
LEMMA OwnStep ==
  ASSUME TypeOK, OwnInv, NEW s \in Sessions,
         NEW place, Goto(s, place),
         NEW things, owned' = [owned EXCEPT ![s] = things],
         NEW kept, left' = [left EXCEPT ![s] = kept],
         things \subseteq MayOwn(place) \cup Beyond(kept),
         place \notin {"none", "select", "tunnel"} \/ (things = {} /\ kept = {})
  PROVE  OwnInv'
<1>1. \A t \in Sessions : /\ pc'[t] = IF t = s THEN place ELSE pc[t]
                          /\ owned'[t] = IF t = s THEN things ELSE owned[t]
                          /\ left'[t] = IF t = s THEN kept ELSE left[t]
  BY DEF TypeOK, Goto
<1>2. \A t \in Sessions :
        /\ owned'[t] \subseteq MayOwn(pc'[t]) \cup Beyond(left'[t])
        /\ pc'[t] \in {"none", "select", "tunnel"} => owned'[t] = {} /\ left'[t] = {}
  BY <1>1 DEF OwnInv
<1> QED
  BY <1>2 DEF OwnInv, MayOwn, Beyond

\* At each place a session owns no more than it may.
LEMMA OwnSessionStep ==
  ASSUME TypeOK, OwnInv, NEW s \in Sessions, SessionStep(s)
  PROVE  OwnInv'
<1>o. /\ owned[s] \subseteq MayOwn(pc[s]) \cup Beyond(left[s])
      /\ owned[s] \subseteq Resources
      /\ pc[s] \in {"none", "select", "tunnel"} => owned[s] = {} /\ left[s] = {}
  BY DEF OwnInv, TypeOK
<1>l. ASSUME UNCHANGED left
      PROVE  left' = [left EXCEPT ![s] = left[s]]
  BY <1>l DEF TypeOK
<1>s. ASSUME NEW place, UNCHANGED <<owned, left>>, Goto(s, place),
             owned[s] \subseteq MayOwn(place) \cup Beyond(left[s]),
             place \notin {"none", "select", "tunnel"} \/ (owned[s] = {} /\ left[s] = {})
      PROVE  OwnInv'
  <2>1. owned' = [owned EXCEPT ![s] = owned[s]]
    BY <1>s DEF TypeOK
  <2> QED
    BY <1>l, <1>s, <2>1, OwnStep
<1>h. ASSUME UNCHANGED pc
      PROVE  Goto(s, pc[s])
  BY <1>h DEF Goto, TypeOK
<1>u. UNCHANGED <<pc, owned, left>> => OwnInv'
  BY DEF OwnInv, MayOwn, Beyond
<1>p. ASSUME NEW place, NEW things \in SUBSET Resources, Goto(s, place),
             Own(s, things), UNCHANGED left, MayOwn(place) = Resources,
             place \notin {"none", "select", "tunnel"}
      PROVE  OwnInv'
  <2>1. owned[s] \cup things \subseteq MayOwn(place) \cup Beyond(left[s])
    BY <1>o, <1>p
  <2>2. owned' = [owned EXCEPT ![s] = owned[s] \cup things]
    BY <1>p DEF Own
  <2> QED
    BY <1>l, <1>p, <2>1, <2>2, OwnStep
<1>r. ASSUME NEW things \in SUBSET (Resources \ {"tunnel"}), Own(s, things),
             Raise(s), UNCHANGED left
      PROVE  OwnInv'
  <2>1. CASE "tunnel" \in owned[s]
    <3>1. Goto(s, "leave") /\ MayOwn("leave") = Resources
      BY <1>r, <2>1 DEF Raise, MayOwn
    <3> QED
      BY <1>p, <1>r, <3>1
  <2>2. CASE "tunnel" \notin owned[s]
    <3>1. owned[s] \cup things \subseteq MayOwn("stopping") \cup Beyond(left[s])
      BY <1>o, <1>r, <2>2 DEF MayOwn
    <3>2. PICK place \in {"stopping"} : Goto(s, place)
      BY <1>r, <2>2 DEF Raise
    <3>3. /\ owned[s] \cup things \subseteq MayOwn(place) \cup Beyond(left[s])
          /\ place \notin {"none", "select", "tunnel"}
      BY <3>1, <3>2
    <3>4. left' = [left EXCEPT ![s] = left[s]]
      BY <1>l, <1>r
    <3>5. owned' = [owned EXCEPT ![s] = owned[s] \cup things]
      BY <1>r DEF Own
    <3>6. Goto(s, place)
      BY <3>2
    <3> QED
      BY <3>3, <3>4, <3>5, <3>6, OwnStep
  <2> QED
    BY <2>1, <2>2
<1>n. ASSUME UNCHANGED owned
      PROVE  Own(s, {})
  <2>1. owned[s] \cup {} = owned[s]
    OBVIOUS
  <2> QED
    BY <1>n, <2>1 DEF TypeOK, Own
<1>q. ASSUME NEW place, Goto(s, place), UNCHANGED <<owned, left>>,
             MayOwn(place) = Resources, place \notin {"none", "select", "tunnel"}
      PROVE  OwnInv'
  <2>1. owned[s] \subseteq MayOwn(place) \cup Beyond(left[s])
    BY <1>o, <1>q
  <2> QED
    BY <1>q, <1>s, <2>1
<1>k. ASSUME Raise(s), UNCHANGED <<owned, left>>
      PROVE  OwnInv'
  <2>1. {} \in SUBSET (Resources \ {"tunnel"}) /\ Own(s, {})
    BY <1>k, <1>n
  <2> QED
    BY <1>k, <1>r, <2>1
<1>c. ASSUME NEW place, NEW things, NEW failing, Close(s, things, failing),
             Goto(s, place),
             MayOwn(pc[s]) \ things \subseteq MayOwn(place) \cup {"orphan"},
             place \notin {"none", "select", "tunnel"}
      PROVE  OwnInv'
  <2> DEFINE kept == left[s] \cup (failing \cap owned[s])
  <2>1. /\ owned' = [owned EXCEPT ![s] = owned[s] \ things]
        /\ left' = [left EXCEPT ![s] = kept]
    BY <1>c DEF Close
  <2>2. {"orphan"} \cup Beyond(left[s]) \subseteq Beyond(kept)
    BY DEF Beyond
  <2>3. owned[s] \ things \subseteq MayOwn(place) \cup Beyond(kept)
    BY <1>c, <1>o, <2>2
  <2> HIDE DEF kept
  <2> QED
    BY <1>c, <2>1, <2>3, OwnStep
<1>d. ASSUME NEW place, NEW thing, NEW failing, NEW next,
             Release(s, place, thing, failing, next),
             MayOwn(place) \ {thing} \subseteq MayOwn(next) \cup {"orphan"},
             next \notin {"none", "select", "tunnel"}
      PROVE  OwnInv'
  BY <1>c, <1>d DEF Release
<1>1. CASE Select(s)
  BY <1>1, <1>o, <1>s DEF Select
<1>2. CASE EnterTunnel(s)
  <2>1. MayOwn("display") = Resources
    BY DEF MayOwn
  <2> QED
    BY <1>2, <1>p, <1>k, <2>1 DEF EnterTunnel, Open, Resources
<1>3. CASE ConnectDisplay(s)
  <2>1. MayOwn("media") = Resources
    BY DEF MayOwn
  <2> QED
    BY <1>3, <1>p, <1>k, <1>u, <2>1 DEF ConnectDisplay, Resources
<1>4. CASE OpenMedia(s)
  <2>1. MayOwn("stream") = Resources
    BY DEF MayOwn
  <2> QED
    BY <1>4, <1>p, <1>k, <2>1 DEF OpenMedia, Open, Resources
<1>5. CASE StartStream(s)
  <2>1. MayOwn("ready") = Resources
    BY DEF MayOwn
  <2>2. CASE Own(s, {"stream", "tasks"}) /\ Goto(s, "ready")
    BY <1>5, <1>p, <2>1, <2>2 DEF StartStream, Resources
  <2>3. CASE \E begun \in {{}, {"orphan"}, {"stream"}} : Own(s, begun) /\ Raise(s)
    BY <1>5, <1>r, <2>3 DEF StartStream, Resources
  <2> QED
    BY <1>5, <2>2, <2>3 DEF StartStream
<1>6. CASE AwaitVideo(s)
  <2>1. MayOwn("warm") = Resources
    BY DEF MayOwn
  <2> QED
    BY <1>6, <1>q, <1>k, <2>1 DEF AwaitVideo
<1>7. CASE WarmInput(s)
  <2>1. MayOwn("loop") = Resources
    BY DEF MayOwn
  <2> QED
    BY <1>7, <1>p, <2>1 DEF WarmInput, Resources
<1>8. CASE EndLoop(s)
  <2>1. MayOwn("leave") = Resources
    BY DEF MayOwn
  <2> QED
    BY <1>8, <1>q, <2>1 DEF EndLoop
<1>9. CASE LeaveTunnel(s)
  <2>1. MayOwn(pc[s]) \ {"tunnel"} \subseteq MayOwn("stopping")
    BY <1>9 DEF LeaveTunnel, MayOwn
  <2>2. PICK failing \in SUBSET {"tunnel"} : Close(s, {"tunnel"}, failing)
    BY <1>9 DEF LeaveTunnel
  <2> QED
    BY <1>9, <1>c, <2>1, <2>2 DEF LeaveTunnel
<1>10. CASE Stopping(s)
  <2>1. MayOwn("stopping") = MayOwn("closeInput")
    BY DEF MayOwn
  <2>2. /\ pc[s] = "stopping" /\ Goto(s, "closeInput")
        /\ UNCHANGED <<owned, left>>
    BY <1>10 DEF Stopping
  <2>3. owned[s] \subseteq MayOwn("closeInput") \cup Beyond(left[s])
    BY <1>o, <2>1, <2>2
  <2> QED
    BY <1>s, <2>2, <2>3
<1>11. CASE CloseInput(s)
  BY <1>11, <1>d DEF CloseInput, MayOwn, Resources
<1>12. CASE StopStream(s)
  BY <1>12, <1>d DEF StopStream, MayOwn, Resources
<1>13. CASE CancelTasks(s)
  BY <1>13, <1>d DEF CancelTasks, MayOwn, Resources
<1>14. CASE CloseSink(s)
  BY <1>14, <1>d DEF CloseSink, MayOwn, Resources
<1>15. CASE Finish(s)
  <2>1. MayOwn(pc[s]) \ LastClosed \subseteq MayOwn("ended")
    BY <1>15 DEF Finish, MayOwn, LastClosed
  <2> QED
    BY <1>15, <1>c, <2>1 DEF Finish
<1>16. CASE SinkReady(s)
  <2>1. Goto(s, pc[s]) /\ left' = [left EXCEPT ![s] = left[s]]
    BY <1>16, <1>h, <1>l DEF SinkReady
  <2>2. owned[s] \cup {"sink"} \subseteq MayOwn(pc[s]) \cup Beyond(left[s])
    <3>1. "tasks" \in MayOwn(pc[s])
      BY <1>16, <1>o DEF SinkReady, Beyond
    <3>2. "sink" \in MayOwn(pc[s])
      BY <3>1 DEF MayOwn, Resources
    <3> QED
      BY <1>o, <3>2
  <2>3. pc[s] \notin {"none", "select", "tunnel"}
    BY <1>16, <1>o DEF SinkReady
  <2>4. owned' = [owned EXCEPT ![s] = owned[s] \cup {"sink"}]
    BY <1>16 DEF SinkReady, Own
  <2> QED
    BY <2>1, <2>2, <2>3, <2>4, OwnStep
<1>17. CASE StreamFails(s) \/ LosePlayer(s) \/ PlayerDisconnected(s)
  BY <1>17, <1>u DEF StreamFails, LosePlayer, PlayerDisconnected
<1>18. CASE InputConnects(s)
  <2>1. Goto(s, pc[s]) /\ left' = [left EXCEPT ![s] = left[s]]
    BY <1>18, <1>h, <1>l DEF InputConnects
  <2>2. owned[s] \cup {"hid"} \subseteq MayOwn(pc[s]) \cup Beyond(left[s])
    <3>1. CASE "tunnel" \in left[s]
      BY <1>o, <3>1 DEF Beyond
    <3>2. CASE "tunnel" \notin left[s]
      <4>1. "tunnel" \in MayOwn(pc[s])
        BY <1>18, <1>o, <3>2 DEF InputConnects, TunnelUp, Beyond
      <4>2. "hid" \in MayOwn(pc[s])
        BY <4>1 DEF MayOwn, Resources
      <4> QED
        BY <1>o, <4>2
    <3> QED
      BY <3>1, <3>2
  <2>3. pc[s] \notin {"none", "select", "tunnel"}
    BY <1>18, <1>o DEF InputConnects, TunnelUp
  <2>4. owned' = [owned EXCEPT ![s] = owned[s] \cup {"hid"}]
    BY <1>18 DEF InputConnects, Own
  <2> QED
    BY <2>1, <2>2, <2>3, <2>4, OwnStep
<1>19. CASE InputFails(s)
  <2>1. Goto(s, pc[s])
    BY <1>19, <1>h DEF InputFails
  <2>2. pc[s] \notin {"none", "select", "tunnel"}
    BY <1>19, <1>o DEF InputFails
  <2> QED
    BY <1>19, <1>c, <2>1, <2>2 DEF InputFails
<1> QED
  BY <1>1, <1>2, <1>3, <1>4, <1>5, <1>6, <1>7, <1>8, <1>9, <1>10, <1>11,
     <1>12, <1>13, <1>14, <1>15, <1>16, <1>17, <1>18, <1>19
     DEF SessionStep, RunStep, Mishap, Input

\* What a command does to the sessions: it may start one that has nothing.
LEMMA MainStepSessions ==
  ASSUME TypeOK, SlotInv, MainStep
  PROVE  /\ UNCHANGED <<owned, left, events, raised>>
         /\ \/ UNCHANGED pc
            \/ \E s \in Sessions : /\ pc[s] = "none"
                                   /\ pc' = [pc EXCEPT ![s] = "select"]
<1>1. CASE StartSession /\ SlotFree
  <2>1. started + 1 \in Sessions /\ started + 1 > started
    BY <1>1, BoundsAssumption DEF StartSession, TypeOK, Sessions
  <2>2. pc[started + 1] = "none"
    BY <2>1 DEF SlotInv
  <2> QED
    BY <1>1, <2>1, <2>2 DEF StartSession
<1>2. CASE MainStep /\ ~(StartSession /\ SlotFree)
  BY <1>2 DEF MainStep, StartSession, Setup, SetupDone, StopSession, StopAnswer,
              Shutdown, ShutdownAnswer, LeaveMain, Exit, Stopped, vars, sessionVars
<1> QED
  BY <1>1, <1>2

\* Some event of the sequence is one of the set.
Has(es, kinds) == \E i \in 1 .. Len(es) : es[i] \in kinds

\* One step of a live session, which goes to a place and appends events.
LEMMA EventStep ==
  ASSUME TypeOK, EventInv, NEW s \in Sessions, Live(s),
         NEW place, pc' = [pc EXCEPT ![s] = place],
         NEW es \in Seq(EventNames), Emit(s, es),
         Has(es, Terminal) => place = "ended"
  PROVE  EventInv'
<1>0. events \in [Sessions -> Seq(EventNames)]
  BY DEF TypeOK, EventNames
<1>1. /\ events'[s] = events[s] \o es
      /\ \A t \in Sessions : t # s => events'[t] = events[t]
  BY <1>0, Emitting
<1>2. \A t \in Sessions : pc'[t] = IF t = s THEN place ELSE pc[t]
  BY DEF TypeOK
<1>3. \A i \in 1 .. Len(events'[s]) :
        \/ i \in 1 .. Len(events[s]) /\ events'[s][i] = events[s][i]
        \/ /\ i - Len(events[s]) \in 1 .. Len(es)
           /\ events'[s][i] = es[i - Len(events[s])]
  BY <1>0, <1>1, Concatenation
<1>4. ~Has(events[s], Terminal)
  BY DEF EventInv, Announced, Has, Terminal, Live
<1>5. Has(events'[s], Terminal) => Has(es, Terminal)
  BY <1>3, <1>4 DEF Has
<1>6. \A t \in Sessions : Has(events'[t], Terminal) => pc'[t] = "ended"
  <2> SUFFICES ASSUME NEW t \in Sessions, Has(events'[t], Terminal)
               PROVE  pc'[t] = "ended"
    OBVIOUS
  <2>1. CASE t = s
    BY <1>2, <1>5, <2>1
  <2>2. CASE t # s
    <3>1. Announced(t)
      BY <1>1, <2>2 DEF Announced, Has, Terminal
    <3> QED
      BY <1>2, <2>2, <3>1 DEF EventInv
  <2> QED
    BY <2>1, <2>2
<1> QED
  BY <1>6 DEF EventInv, Announced, Has, Terminal

\* A step that sends nothing keeps what is said of the events, ...
LEMMA SilentStep ==
  ASSUME TypeOK, EventInv, NEW s \in Sessions, Live(s),
         NEW place, pc' = [pc EXCEPT ![s] = place], UNCHANGED events
  PROVE  EventInv'
<1>1. \A t \in Sessions : pc'[t] = IF t = s THEN place ELSE pc[t]
  BY DEF TypeOK
<1> QED
  BY <1>1 DEF EventInv, Announced, Live

\* ... as does one of the command loop, ...
LEMMA EventUnchanged ==
  ASSUME EventInv, UNCHANGED <<pc, events>>
  PROVE  EventInv'
BY DEF EventInv, Announced

\* ... and a session's last step, which sends its terminal events.
LEMMA EventSessionStep ==
  ASSUME TypeOK, EventInv, NEW s \in Sessions, SessionStep(s)
  PROVE  EventInv'
<1> USE DEF Goto
<1>s. \A e \in EventNames : /\ <<e>> \in Seq(EventNames) /\ Len(<<e>>) = 1
                            /\ \A kinds : Has(<<e>>, kinds) <=> e \in kinds
  BY DEF Has
<1>e. /\ {"starting", "running", "stopping", "error"} \subseteq EventNames
      /\ {"starting", "running", "stopping"} \cap Terminal = {}
  BY DEF EventNames, Terminal
<1>p. ASSUME Live(s), NEW place, Goto(s, place), UNCHANGED events
      PROVE  EventInv'
  BY <1>p, SilentStep
<1>r. Live(s) /\ Raise(s) /\ UNCHANGED events => EventInv'
  BY <1>p DEF Raise
<1>c. ASSUME NEW place \in Cleanup, NEW thing, NEW failing, NEW next,
             Release(s, place, thing, failing, next)
      PROVE  EventInv'
  <2>1. Live(s)
    BY <1>c DEF Release, Live, Cleanup
  <2> QED
    BY <1>c, <1>p, <2>1 DEF Release
<1>1. CASE Select(s)
  <2>1. Live(s)
    BY <1>1 DEF Select, Live
  <2> QED
    BY <1>1, <1>s, <1>e, <2>1, EventStep DEF Select
<1>2. CASE EnterTunnel(s) \/ OpenMedia(s)
  <2>1. Live(s)
    BY <1>2 DEF EnterTunnel, OpenMedia, Open, Live
  <2> QED
    BY <1>2, <1>p, <1>r, <2>1 DEF EnterTunnel, OpenMedia, Open
<1>3. CASE ConnectDisplay(s)
  <2>1. Live(s)
    BY <1>3 DEF ConnectDisplay, Live
  <2> QED
    BY <1>3, <1>p, <1>r, <2>1, EventUnchanged DEF ConnectDisplay
<1>4. CASE StartStream(s)
  <2>1. Live(s)
    BY <1>4 DEF StartStream, Live
  <2> QED
    BY <1>4, <1>p, <1>r, <2>1 DEF StartStream
<1>5. CASE AwaitVideo(s)
  <2>1. Live(s)
    BY <1>5 DEF AwaitVideo, Live
  <2> QED
    BY <1>5, <1>p, <1>r, <2>1 DEF AwaitVideo
<1>6. CASE WarmInput(s)
  <2>1. Live(s)
    BY <1>6 DEF WarmInput, Live
  <2> QED
    BY <1>6, <1>s, <1>e, <2>1, EventStep DEF WarmInput
<1>7. CASE EndLoop(s) \/ LeaveTunnel(s)
  <2>1. Live(s)
    BY <1>7 DEF EndLoop, LeaveTunnel, Live
  <2> QED
    BY <1>7, <1>p, <2>1 DEF EndLoop, LeaveTunnel
<1>8. CASE Stopping(s)
  <2>1. Live(s)
    BY <1>8 DEF Stopping, Live
  <2> QED
    BY <1>8, <1>s, <1>e, <2>1, EventStep DEF Stopping
<1>9. CASE CloseInput(s) \/ StopStream(s) \/ CancelTasks(s) \/ CloseSink(s)
  BY <1>9, <1>c DEF CloseInput, StopStream, CancelTasks, CloseSink, Cleanup
<1>10. CASE Finish(s)
  <2>1. Live(s)
    BY <1>10 DEF Finish, Live
  <2> QED
    BY <1>10, <2>1, FinalEventsType, EventStep DEF Finish
<1>11. CASE Mishap(s) \/ Input(s)
  BY <1>11, EventUnchanged
     DEF Mishap, SinkReady, StreamFails, LosePlayer, PlayerDisconnected, Input,
         InputConnects, InputFails
<1> QED
  BY <1>1, <1>2, <1>3, <1>4, <1>5, <1>6, <1>7, <1>8, <1>9, <1>10, <1>11
     DEF SessionStep, RunStep

\* The invariant of the sessions
LEMMA SessionInvariant ==
  Spec => [](TypeOK /\ SlotInv /\ OwnInv /\ EventInv)
<1>1. Init => OwnInv /\ EventInv
  <2> SUFFICES ASSUME Init PROVE OwnInv /\ EventInv
    OBVIOUS
  <2>1. \A s \in Sessions : owned[s] = {} /\ left[s] = {} /\ Len(events[s]) = 0
    BY DEF Init
  <2> QED
    BY <2>1 DEF OwnInv, EventInv, Announced
<1>2. TypeOK /\ SlotInv /\ OwnInv /\ EventInv /\ [Next]_vars => OwnInv' /\ EventInv'
  <2> SUFFICES ASSUME TypeOK, SlotInv, OwnInv, EventInv, [Next]_vars
               PROVE  OwnInv' /\ EventInv'
    OBVIOUS
  <2>1. CASE MainStep
    <3>1. UNCHANGED <<owned, left, events>>
      BY <2>1, MainStepSessions
    <3>2. CASE UNCHANGED pc
      BY <3>1, <3>2, EventUnchanged DEF OwnInv, MayOwn, Beyond
    <3>3. ASSUME NEW s \in Sessions, pc[s] = "none",
                 pc' = [pc EXCEPT ![s] = "select"]
          PROVE  OwnInv' /\ EventInv'
      <4>1. owned[s] = {} /\ left[s] = {} /\ ~Announced(s)
        BY <3>3 DEF OwnInv, EventInv
      <4>2. \A t \in Sessions : pc'[t] = IF t = s THEN "select" ELSE pc[t]
        BY <3>3 DEF TypeOK
      <4>3. OwnInv'
        <5>1. \A t \in Sessions :
                /\ owned'[t] \subseteq MayOwn(pc'[t]) \cup Beyond(left'[t])
                /\ pc'[t] \in {"none", "select", "tunnel"} =>
                     owned'[t] = {} /\ left'[t] = {}
          BY <3>1, <4>1, <4>2 DEF OwnInv
        <5> QED
          BY <5>1 DEF OwnInv, MayOwn, Beyond
      <4>4. EventInv'
        BY <3>1, <4>1, <4>2 DEF EventInv, Announced
      <4> QED
        BY <4>3, <4>4
    <3> QED
      BY <2>1, <3>2, <3>3, MainStepSessions
  <2>2. CASE \E s \in Sessions : SessionStep(s)
    BY <2>2, OwnSessionStep, EventSessionStep
  <2>3. CASE UNCHANGED vars
    BY <2>3, EventUnchanged DEF vars, OwnInv, MayOwn, Beyond
  <2> QED
    BY <2>1, <2>2, <2>3 DEF Next, SessionStep
<1>3. QED
  BY <1>1, <1>2, SlotInvariant, PTL DEF Spec

\* When the application hears that a session is over, cleanup() has tried to close
\* all that was its to close.
THEOREM CleanedUpFirst == Spec => []TriedBeforeEnd
<1>1. OwnInv /\ EventInv => TriedBeforeEnd
  BY DEF OwnInv, EventInv, TriedBeforeEnd, MayOwn, Beyond, Excused
<1>2. QED
  BY <1>1, SessionInvariant, PTL

-----------------------------------------------------------------------------
(* The worker implements WorkerContract: its initial state maps to the       *)
(* contract's, and every step of the command loop or of a session task is a  *)
(* step of the contract or changes nothing in it.                            *)


\* The phases that the mapping gives to the sessions.
PhaseMap == [s \in Sessions |-> PhaseOf(s)]

\* A session that leaves its supervision loop has been told to.
WindInv ==
  \A s \in Sessions :
    /\ pc[s] \in {"leave", "stopping"} /\ raised[s] # "startup" => stopEvent[s]
    /\ raised[s] # "nothing" => pc[s] \in Cleanup \cup {"leave", "ended"}

\* A session winds down because it was told to, or raised, ...
LEMMA WindSessionStep ==
  ASSUME TypeOK, WindInv, NEW s \in Sessions, SessionStep(s)
  PROVE  WindInv'
<1> USE DEF TypeOK, WindInv, Goto, Startup, Cleanup
<1>1. CASE Select(s)
  BY <1>1 DEF Select
<1>2. CASE EnterTunnel(s) \/ OpenMedia(s) \/ StartStream(s)
  <2>1. /\ pc[s] \in Startup /\ UNCHANGED stopEvent
        /\ \/ Raise(s)
           \/ UNCHANGED raised /\ \E next \in Startup : Goto(s, next)
    BY <1>2 DEF EnterTunnel, OpenMedia, StartStream, Open
  <2> QED
    BY <2>1 DEF Raise
<1>3. CASE ConnectDisplay(s)
  BY <1>3 DEF ConnectDisplay, Raise
<1>4. CASE AwaitVideo(s)
  BY <1>4 DEF AwaitVideo, Raise
<1>5. CASE WarmInput(s) \/ Stopping(s)
  BY <1>5 DEF WarmInput, Stopping
<1>l. CASE LeaveTunnel(s)
  <2>1. /\ pc[s] = "leave" /\ Goto(s, "stopping") /\ UNCHANGED stopEvent
        /\ \/ UNCHANGED raised
           \/ raised' = [raised EXCEPT ![s] = IF @ = "nothing" THEN "exit" ELSE @]
    BY <1>l DEF LeaveTunnel
  <2> QED
    BY <2>1
<1>6. CASE EndLoop(s)
  BY <1>6 DEF EndLoop, LoopDone
<1>7. CASE CloseInput(s) \/ StopStream(s) \/ CancelTasks(s) \/ CloseSink(s)
  BY <1>7 DEF CloseInput, StopStream, CancelTasks, CloseSink, Release
<1>8. CASE Finish(s)
  BY <1>8 DEF Finish
<1>9. CASE Mishap(s)
  BY <1>9 DEF Mishap, SinkReady, StreamFails, LosePlayer, PlayerDisconnected,
              StopWith
<1>10. CASE Input(s)
  BY <1>10 DEF Input, InputConnects, InputFails
<1> QED
  BY <1>1, <1>2, <1>3, <1>4, <1>5, <1>l, <1>6, <1>7, <1>8, <1>9, <1>10
     DEF SessionStep, RunStep

\* ... and is never untold.
LEMMA WindMainStep ==
  ASSUME TypeOK, WindInv, SlotInv, MainStep
  PROVE  WindInv'
<1> USE DEF TypeOK, WindInv, Startup, Cleanup
<1>1. CASE StartSession
  BY <1>1, MainStepSessions DEF StartSession
<1>2. CASE Setup \/ SetupDone \/ StopAnswer \/ ShutdownAnswer \/ Exit \/ Stopped
  BY <1>2 DEF Setup, SetupDone, StopAnswer, ShutdownAnswer, Exit, Stopped, vars,
              sessionVars
<1>3. CASE StopSession \/ Shutdown \/ LeaveMain
  BY <1>3 DEF StopSession, Shutdown, LeaveMain, StopThenWait, StopWith
<1> QED
  BY <1>1, <1>2, <1>3 DEF MainStep

\* The invariant of the winding down
LEMMA WindInvariant == Spec => [](TypeOK /\ SlotInv /\ WindInv)
<1>1. Init => WindInv
  BY DEF Init, WindInv, Cleanup
<1>2. TypeOK /\ SlotInv /\ WindInv /\ [Next]_vars => WindInv'
  <2> SUFFICES ASSUME TypeOK, SlotInv, WindInv, [Next]_vars
               PROVE  WindInv'
    OBVIOUS
  <2>1. CASE UNCHANGED vars
    BY <2>1 DEF WindInv, vars, Cleanup
  <2>2. CASE Next
    BY <2>2, WindSessionStep, WindMainStep DEF Next, SessionStep
  <2> QED
    BY <2>1, <2>2
<1> QED
  BY <1>1, <1>2, SlotInvariant, PTL DEF Spec

-----------------------------------------------------------------------------
(* Steps.                                                                    *)

\* The map changes for the session that moves and for no other.
LEMMA MapMoves ==
  ASSUME NEW s \in Sessions, TypeOK,
         \A t \in Sessions \ {s} : pc'[t] = pc[t] /\ raised'[t] = raised[t]
  PROVE  PhaseMap' = [PhaseMap EXCEPT ![s] = PhaseOf(s)']
<1>1. \A t \in Sessions \ {s} : PhaseOf(t)' = PhaseOf(t)
  BY DEF PhaseOf
<1> QED
  BY <1>1 DEF PhaseMap

\* A step of the startup that fails or goes on is not seen.
StartupStep(s) ==
  /\ pc[s] \in Startup \ {"select"}
  /\ \/ UNCHANGED <<pc, raised>>
     \/ /\ \E place \in Startup \ {"select"} : pc' = [pc EXCEPT ![s] = place]
        /\ UNCHANGED raised
     \/ Raise(s)
  /\ UNCHANGED <<main, started, reply, stopEvent, events>>

\* Nothing of the start-up between its two announcements is the application's to know.
LEMMA StartupMaps ==
  ASSUME TypeOK, NEW s \in Sessions, StartupStep(s)
  PROVE  UNCHANGED Contract!contractVars
<1>1. PhaseOf(s) = "starting" /\ PhaseOf(s)' = "starting"
  BY DEF PhaseOf, Startup, TypeOK, StartupStep, Raise, Goto
<1>2. \A t \in Sessions \ {s} : pc'[t] = pc[t] /\ raised'[t] = raised[t]
  BY DEF TypeOK, StartupStep, Raise, Goto
<1>3. PhaseMap' = PhaseMap
  BY <1>1, <1>2, MapMoves DEF PhaseMap
<1> QED
  BY <1>3 DEF Contract!contractVars, PhaseMap, StartupStep

\* A session step is one of the contract's, or is not seen by it.
LEMMA SessionStepMaps ==
  ASSUME TypeOK, SlotInv, WindInv, NEW s \in Sessions, SessionStep(s)
  PROVE  Contract!Next \/ UNCHANGED Contract!contractVars
<1> USE DEF Goto
<1>0. /\ started \in 0 .. MaxSessions
      /\ pc[s] \in Places
      /\ PhaseMap[s] = PhaseOf(s)
  BY DEF TypeOK, PhaseMap
<1>1. CASE Select(s)
  <2>0. PhaseOf(s) = "accepted"
    BY <1>1 DEF Select, PhaseOf, Startup
  <2>m. PhaseMap' = [PhaseMap EXCEPT ![s] = PhaseOf(s)']
    BY <1>1, MapMoves DEF Select, TypeOK
  <2>1. CASE pc' = [pc EXCEPT ![s] = "tunnel"] /\ Emit(s, <<"starting">>)
    <3>1. PhaseOf(s)' = "starting"
      BY <2>1 DEF PhaseOf, Startup, TypeOK
    <3>2. Contract!Begin(s)
      BY <1>0, <1>1, <2>0, <2>m, <2>1, <3>1
         DEF Select, Emit, PhaseMap, Contract!Begin, Contract!Passes
    <3> QED
      BY <3>2 DEF Contract!Next, Contract!Proceeds, Contract!Sessions, Sessions
  <2>2. CASE pc' = [pc EXCEPT ![s] = "ended"] /\ Emit(s, <<"error">>)
    <3>1. PhaseOf(s)' = "ended"
      BY <2>2 DEF PhaseOf, Startup, TypeOK
    <3>2. Contract!Reject(s)
      BY <1>0, <1>1, <2>0, <2>m, <2>2, <3>1
         DEF Select, Emit, PhaseMap, Contract!Reject, Contract!Passes
    <3> QED
      BY <3>2 DEF Contract!Next, Contract!Proceeds, Contract!Sessions, Sessions
  <2> QED
    BY <1>1, <2>1, <2>2 DEF Select
<1>2. CASE EnterTunnel(s) \/ OpenMedia(s) \/ StartStream(s) \/ ConnectDisplay(s)
             \/ AwaitVideo(s)
  <2>1. StartupStep(s)
    BY <1>2 DEF EnterTunnel, OpenMedia, StartStream, ConnectDisplay, AwaitVideo,
                Open, Startup, StartupStep, mainVars
  <2> QED
    BY <2>1, StartupMaps
<1>3. CASE WarmInput(s)
  <2>1. PhaseOf(s) = "starting" /\ PhaseOf(s)' = "running"
    BY <1>3 DEF WarmInput, PhaseOf, Startup, TypeOK, Goto
  <2>2. Contract!Announce(s)
    BY <1>0, <1>3, <2>1, MapMoves
       DEF WarmInput, Emit, PhaseMap, TypeOK, Goto, mainVars,
           Contract!Announce, Contract!Passes
  <2> QED
    BY <2>2 DEF Contract!Next, Contract!Proceeds, Contract!Sessions, Sessions
<1>4. CASE EndLoop(s) \/ LeaveTunnel(s)
  <2>0. /\ \/ pc[s] = "loop" /\ Goto(s, "leave")
           \/ pc[s] = "leave" /\ Goto(s, "stopping")
        /\ \/ UNCHANGED raised
           \/ /\ pc[s] = "leave"
              /\ raised' = [raised EXCEPT ![s] = IF @ = "nothing" THEN "exit" ELSE @]
        /\ UNCHANGED <<main, started, stopEvent, events, reply>>
    BY <1>4 DEF EndLoop, LeaveTunnel, mainVars
  <2>1. PhaseOf(s)' = PhaseOf(s)
    BY <2>0 DEF PhaseOf, Startup, TypeOK, WindInv, Cleanup
  <2>2. \A t \in Sessions \ {s} : pc'[t] = pc[t] /\ raised'[t] = raised[t]
    BY <2>0 DEF TypeOK
  <2>3. PhaseMap' = PhaseMap
    BY <2>1, <2>2, MapMoves DEF PhaseMap
  <2> QED
    BY <2>0, <2>3 DEF PhaseMap, Contract!contractVars
<1>5. CASE Stopping(s)
  <2>1. /\ PhaseOf(s) = IF raised[s] = "startup" THEN "starting" ELSE "running"
        /\ PhaseOf(s)' = IF raised[s] = "startup" THEN "failing" ELSE "stopping"
    BY <1>5 DEF Stopping, PhaseOf, Startup, TypeOK
  <2>2. CASE raised[s] = "startup"
    <3>1. Contract!Abort(s)
      BY <1>0, <1>5, <2>1, <2>2, MapMoves
         DEF Stopping, Emit, PhaseMap, TypeOK, mainVars, Contract!Abort, Contract!Passes
    <3> QED
      BY <3>1 DEF Contract!Next, Contract!Proceeds, Contract!Sessions, Sessions
  <2>3. CASE raised[s] # "startup"
    <3>1. Contract!Wind(s)
      BY <1>0, <1>5, <2>1, <2>3, MapMoves
         DEF Stopping, Emit, PhaseMap, TypeOK, mainVars, WindInv,
             Contract!Wind, Contract!Passes
    <3> QED
      BY <3>1 DEF Contract!Next, Contract!Proceeds, Contract!Sessions, Sessions
  <2> QED
    BY <2>2, <2>3
<1>6. CASE CloseInput(s) \/ StopStream(s) \/ CancelTasks(s) \/ CloseSink(s)
  <2>1. PhaseOf(s)' = PhaseOf(s)
    BY <1>6 DEF CloseInput, StopStream, CancelTasks, CloseSink, Release, PhaseOf,
                Startup, TypeOK
  <2> QED
    BY <1>0, <1>6, <2>1, MapMoves
       DEF CloseInput, StopStream, CancelTasks, CloseSink, Release, PhaseMap,
           TypeOK, mainVars, Contract!contractVars
<1>7. CASE Finish(s)
  <2>1. /\ PhaseOf(s) = IF raised[s] = "startup" THEN "failing" ELSE "stopping"
        /\ PhaseOf(s)' = "ended"
    BY <1>7 DEF Finish, PhaseOf, Startup, TypeOK
  <2>2. PICK final \in {"stopped", "error"} :
          FinalEvents(s)
            = <<final>> \o (IF raised[s] = "nothing" THEN <<>> ELSE <<"error">>)
    BY DEF FinalEvents
  <2>3. FinalEvents(s) = IF raised[s] = "nothing" THEN <<final>> ELSE <<final, "error">>
    BY <2>2
  <2>4. Contract!End(s)
    <3>1. CASE raised[s] # "nothing"
      <4>1. PICK from \in {"failing", "stopping"} : PhaseOf(s) = from
        BY <2>1
      <4>2. Contract!Passes(s, from, "ended", <<final, "error">>)
        BY <1>0, <1>7, <2>1, <2>3, <3>1, <4>1, MapMoves
           DEF Finish, Emit, PhaseMap, TypeOK, Contract!Passes
      <4> QED
        BY <4>2 DEF Contract!End
    <3>2. CASE raised[s] = "nothing"
      <4>1. Contract!Passes(s, "stopping", "ended", <<final>>)
        BY <1>0, <1>7, <2>1, <2>3, <3>2, MapMoves
           DEF Finish, Emit, PhaseMap, TypeOK, Contract!Passes
      <4> QED
        BY <4>1 DEF Contract!End
    <3> QED
      BY <3>1, <3>2
  <2> QED
    BY <2>4 DEF Contract!Next, Contract!Proceeds, Contract!Sessions, Sessions
<1>8. CASE SinkReady(s) \/ LosePlayer(s)
  BY <1>8 DEF SinkReady, LosePlayer, mainVars, PhaseOf, Contract!contractVars
<1>9. CASE StreamFails(s) \/ PlayerDisconnected(s)
  <2>1. PhaseOf(s) \notin {"none", "ended"}
    BY <1>9 DEF StreamFails, PlayerDisconnected, Live, PhaseOf, Startup
  <2>2. UNCHANGED <<pc, raised, main, started, reply, events>>
    BY <1>9 DEF StreamFails, PlayerDisconnected, mainVars
  <2>3. PhaseMap' = PhaseMap
    BY <2>2 DEF PhaseMap, PhaseOf
  <2>4. Contract!Ending(s)
    BY <1>0, <1>9, <2>1, <2>2, <2>3
       DEF StreamFails, PlayerDisconnected, StopWith, PhaseMap,
           Contract!Ending, Contract!Live
  <2> QED
    BY <2>4 DEF Contract!Next, Contract!Sessions, Sessions
<1>10. CASE Input(s)
  BY <1>10 DEF Input, InputConnects, InputFails, mainVars, PhaseOf,
               Contract!contractVars
<1> QED
  BY <1>1, <1>2, <1>3, <1>4, <1>5, <1>6, <1>7, <1>8, <1>9, <1>10
     DEF SessionStep, RunStep, Mishap

\* A step of the command loop is one of the contract's commands, the end of a
\* session as it is asked for, or is not seen.
LEMMA MainStepMaps ==
  ASSUME TypeOK, SlotInv, WindInv, MainStep
  PROVE  Contract!Next \/ UNCHANGED Contract!contractVars
<1>f. ASSUME session = None, main.pc # "setup"
      PROVE  Contract!Free
  <2>1. \A s \in Sessions : pc[s] \in {"none", "ended"}
    BY <1>f, NoneAssumption DEF SlotInv, Live, Sessions
  <2>2. \A s \in Sessions : PhaseMap[s] \in {"none", "ended"}
    BY <2>1 DEF PhaseMap, PhaseOf, Startup
  <2> QED
    BY <1>f, <2>2 DEF Contract!Free, Contract!Live, Contract!Sessions, Sessions,
                      PhaseMap
<1>n. ASSUME session # None
      PROVE  /\ session \in Sessions /\ ~Contract!Free
             /\ PhaseOf(session) \notin {"none", "ended"}
  <2>1. session \in Sessions /\ pc[session] \notin {"none", "ended"}
    BY <1>n DEF TypeOK, SlotInv, Live
  <2>2. PhaseOf(session) \notin {"none", "ended"}
    BY <2>1 DEF PhaseOf, Startup
  <2> QED
    BY <2>1, <2>2 DEF Contract!Free, Contract!Live, Contract!Sessions, Sessions
<1>m. ASSUME UNCHANGED <<pc, raised>> PROVE PhaseMap' = PhaseMap
  BY <1>m DEF PhaseMap, PhaseOf
<1>1. CASE StartSession
  <2>1. CASE SlotFree
    <3>1. /\ session = None /\ main.pc = "idle"
          /\ started + 1 \in Sessions /\ started \in Nat /\ started < MaxSessions
      BY <1>1, <2>1, BoundsAssumption
         DEF StartSession, SlotFree, Reading, TypeOK, Sessions
    <3>2. /\ pc' = [pc EXCEPT ![started + 1] = "select"]
          /\ started' = started + 1 /\ reply' = "started"
          /\ UNCHANGED <<main, stopEvent, events, raised>>
      BY <1>1, <2>1 DEF StartSession, SlotFree
    <3>3. PICK n \in Sessions : n = started + 1
      BY <3>1
    <3>4. PhaseOf(n)' = "accepted"
      BY <3>2, <3>3 DEF PhaseOf, Startup, TypeOK
    <3>5. PhaseMap' = [PhaseMap EXCEPT ![n] = "accepted"]
      BY <3>2, <3>3, <3>4, MapMoves DEF TypeOK
    <3>6. Contract!Accept
      BY <1>f, <3>1, <3>2, <3>3, <3>5 DEF Contract!Accept, PhaseMap
    <3> QED
      BY <3>6 DEF Contract!Next, Contract!Command
  <2>2. CASE ~SlotFree
    <3>1. session # None /\ main.pc = "idle" /\ reply' = "error"
      BY <1>1, <2>2 DEF StartSession, SlotFree, Reading
    <3>2. UNCHANGED <<main, started, pc, raised, stopEvent, events>>
      BY <1>1, <2>2 DEF StartSession, SlotFree
    <3>3. Contract!Refuse
      BY <1>m, <1>n, <3>1, <3>2 DEF Contract!Refuse, PhaseMap
    <3> QED
      BY <3>3 DEF Contract!Next, Contract!Command
  <2> QED
    BY <2>1, <2>2
<1>2. CASE Setup
  <2>1. /\ session = None /\ main.pc = "idle" /\ main'.pc = "setup"
        /\ UNCHANGED <<started, reply, pc, raised, stopEvent, events>>
    BY <1>2 DEF Setup, SlotFree, Reading, sessionVars, TypeOK
  <2>2. Contract!Setup
    BY <1>f, <1>m, <2>1 DEF Contract!Setup, PhaseMap
  <2> QED
    BY <2>2 DEF Contract!Next, Contract!Command
<1>3. CASE SetupDone
  <2>1. /\ main.pc = "setup" /\ main'.pc = "idle"
        /\ UNCHANGED <<started, reply, pc, raised, stopEvent, events>>
    BY <1>3 DEF SetupDone, sessionVars, TypeOK
  <2>2. Contract!SetupDone
    BY <1>m, <2>1 DEF Contract!SetupDone, PhaseMap
  <2> QED
    BY <2>2 DEF Contract!Next, Contract!Command
<1>4. CASE StopSession \/ Shutdown \/ LeaveMain
  <2>0. /\ main.pc = "idle"
        /\ UNCHANGED <<started, pc, raised, events>>
    BY <1>4 DEF StopSession, Shutdown, LeaveMain, Reading
  <2>1. CASE session = None
    <3>1. /\ main'.pc \in {"idle", "done"} /\ UNCHANGED stopEvent
          /\ \/ reply' \in {"stopped", "shutdown"} /\ main'.pc = "idle"
             \/ reply' = reply /\ main'.pc = "done"
      BY <1>4, <2>1 DEF StopSession, Shutdown, LeaveMain, StopThenWait
    <3>2. CASE main'.pc = "idle"
      <4>1. Contract!Answer
        BY <1>f, <1>m, <2>0, <2>1, <3>1, <3>2 DEF Contract!Answer, PhaseMap
      <4> QED
        BY <4>1 DEF Contract!Next, Contract!Command
    <3>3. CASE main'.pc = "done"
      <4>1. Contract!Exit
        BY <1>f, <1>m, <2>0, <2>1, <3>1, <3>3 DEF Contract!Exit, PhaseMap
      <4> QED
        BY <4>1 DEF Contract!Next, Contract!Command
    <3> QED
      BY <3>1, <3>2, <3>3
  <2>2. CASE session # None
    <3>1. /\ main'.pc \in {"stopWait", "shutWait", "exitWait"} /\ reply' = reply
          /\ stopEvent' = [stopEvent EXCEPT ![session] = TRUE]
      BY <1>4, <2>2 DEF StopSession, Shutdown, LeaveMain, StopThenWait, StopWith
    <3>2. Contract!Ending(session)
      BY <1>m, <1>n, <2>0, <2>2, <3>1
         DEF Contract!Ending, Contract!Live, PhaseMap
    <3> QED
      BY <1>n, <2>2, <3>2 DEF Contract!Next, Contract!Sessions, Sessions
  <2> QED
    BY <2>1, <2>2
<1>5. CASE StopAnswer \/ ShutdownAnswer
  <2>1. /\ main.pc \in {"stopWait", "shutWait"} /\ main'.pc = "idle"
        /\ UNCHANGED <<started, pc, raised, stopEvent, events>>
        /\ \/ reply' \in {"error", "shutdown"}
           \/ reply' = "stopped" /\ TaskDone(main.waitsFor)
    BY <1>5 DEF StopAnswer, ShutdownAnswer, sessionVars
  <2>2. reply' = "stopped" => session = None
    BY <2>1 DEF TaskDone, SlotInv, Live
  <2>3. Contract!Answer
    BY <1>f, <1>m, <2>1, <2>2 DEF Contract!Answer, PhaseMap
  <2> QED
    BY <2>3 DEF Contract!Next, Contract!Command
<1>6. CASE Exit
  <2>1. /\ main.pc = "exitWait" /\ main'.pc = "done" /\ session = None
        /\ UNCHANGED <<started, reply, pc, raised, stopEvent, events>>
    BY <1>6 DEF Exit, TaskDone, SlotInv, Live, sessionVars
  <2>2. Contract!Exit
    BY <1>f, <1>m, <2>1 DEF Contract!Exit, PhaseMap
  <2> QED
    BY <2>2 DEF Contract!Next, Contract!Command
<1>7. CASE Stopped
  BY <1>7 DEF Stopped, vars, PhaseOf, Contract!contractVars
<1> QED
  BY <1>1, <1>2, <1>3, <1>4, <1>5, <1>6, <1>7 DEF MainStep

\* The worker keeps its contract with the application, for any number of
\* sessions and of handshake attempts.
THEOREM WorkerKeepsContract == Spec => KeepsContract
<1>1. Init => Contract!Init
  BY DEF Init, Contract!Init, PhaseOf, Startup, Contract!Sessions, Sessions
<1>2. TypeOK /\ SlotInv /\ WindInv /\ [Next]_vars =>
        [Contract!Next]_(Contract!contractVars)
  <2> SUFFICES ASSUME TypeOK, SlotInv, WindInv, [Next]_vars
               PROVE  Contract!Next \/ UNCHANGED Contract!contractVars
    OBVIOUS
  <2>1. CASE UNCHANGED vars
    BY <2>1 DEF vars, PhaseOf, Contract!contractVars
  <2>2. CASE Next
    BY <2>2, SessionStepMaps, MainStepMaps DEF Next, SessionStep
  <2> QED
    BY <2>1, <2>2
<1> QED
  BY <1>1, <1>2, WindInvariant, PTL DEF Spec, KeepsContract, Contract!Safe

-----------------------------------------------------------------------------
(* What the contract alone promises of the events of a session.              *)

\* What the application may know of each session
Known == [s \in Sessions |-> PhaseOf(s)]

\* The words so far, and the sessions that have not been started
WordInv ==
  /\ started \in 0 .. MaxSessions
  /\ events \in [Sessions -> Seq({"starting", "running", "stopping", "stopped", "error"})]
  /\ \A s \in Sessions : s > started => Known[s] = "none"
  /\ \A s \in Sessions : Contract!Heard(Known[s], events[s])

\* Short sequences, put together
LEMMA Spelled ==
  ASSUME NEW a, NEW b, NEW c
  PROVE  <<a>> \o <<b>> = <<a, b>> /\ <<a, b>> \o <<c>> = <<a, b, c>>
<1> DEFINE E == {a, b, c}
<1>1. /\ <<a>> \in Seq(E) /\ <<b>> \in Seq(E) /\ <<c>> \in Seq(E)
      /\ <<a, b>> \in Seq(E) /\ <<a, b, c>> \in Seq(E)
  OBVIOUS
<1> HIDE DEF E
<1>2. <<a>> \o <<b>> = <<a, b>>
  <2> DEFINE u == <<a>> \o <<b>>
  <2>1. u \in Seq(E) /\ Len(u) = 2 /\ u[1] = a /\ u[2] = b
    BY <1>1
  <2> HIDE DEF u
  <2>2. \A i \in 1 .. 2 : u[i] = <<a, b>>[i]
    BY <2>1
  <2> QED
    BY <1>1, <2>1, <2>2, SeqEqual DEF u
<1>3. <<a, b>> \o <<c>> = <<a, b, c>>
  <2> DEFINE u == <<a, b>> \o <<c>>
  <2>1. u \in Seq(E) /\ Len(u) = 3 /\ u[1] = a /\ u[2] = b /\ u[3] = c
    BY <1>1
  <2> HIDE DEF u
  <2>2. \A i \in 1 .. 3 : u[i] = <<a, b, c>>[i]
    BY <2>1
  <2> QED
    BY <1>1, <2>1, <2>2, SeqEqual DEF u
<1> QED
  BY <1>2, <1>3

\* The three words of a session whose start-up began
LEMMA SpelledOut ==
  ASSUME NEW final
  PROVE  /\ <<"starting", "stopping">> \o <<final, "error">>
              = <<"starting", "stopping", final, "error">>
         /\ <<"starting", "running", "stopping">> \o <<final>>
              = <<"starting", "running", "stopping", final>>
         /\ <<"starting", "running", "stopping">> \o <<final, "error">>
              = <<"starting", "running", "stopping", final, "error">>
<1> DEFINE E == {"starting", "running", "stopping", "error", final}
<1>1. /\ <<"starting", "stopping">> \in Seq(E) /\ <<final, "error">> \in Seq(E)
      /\ <<"starting", "running", "stopping">> \in Seq(E) /\ <<final>> \in Seq(E)
      /\ <<"starting", "stopping", final, "error">> \in Seq(E)
      /\ <<"starting", "running", "stopping", final>> \in Seq(E)
      /\ <<"starting", "running", "stopping", final, "error">> \in Seq(E)
  OBVIOUS
<1> HIDE DEF E
<1>2. <<"starting", "stopping">> \o <<final, "error">>
        = <<"starting", "stopping", final, "error">>
  <2> DEFINE u == <<"starting", "stopping">> \o <<final, "error">>
             w == <<"starting", "stopping", final, "error">>
  <2>1. /\ u \in Seq(E) /\ Len(u) = 4
        /\ u[1] = "starting" /\ u[2] = "stopping" /\ u[3] = final /\ u[4] = "error"
    BY <1>1
  <2>2. /\ w \in Seq(E) /\ Len(w) = 4
        /\ w[1] = "starting" /\ w[2] = "stopping" /\ w[3] = final /\ w[4] = "error"
    BY <1>1
  <2> HIDE DEF u, w
  <2>3. \A i \in 1 .. 4 : u[i] = w[i]
    BY <2>1, <2>2
  <2>4. u = w
    BY <2>1, <2>2, <2>3, SeqEqual
  <2> QED
    BY <2>4 DEF u, w
<1>3. <<"starting", "running", "stopping">> \o <<final>>
        = <<"starting", "running", "stopping", final>>
  <2> DEFINE u == <<"starting", "running", "stopping">> \o <<final>>
             w == <<"starting", "running", "stopping", final>>
  <2>1. /\ u \in Seq(E) /\ Len(u) = 4
        /\ u[1] = "starting" /\ u[2] = "running" /\ u[3] = "stopping" /\ u[4] = final
    BY <1>1
  <2>2. /\ w \in Seq(E) /\ Len(w) = 4
        /\ w[1] = "starting" /\ w[2] = "running" /\ w[3] = "stopping" /\ w[4] = final
    BY <1>1
  <2> HIDE DEF u, w
  <2>3. \A i \in 1 .. 4 : u[i] = w[i]
    BY <2>1, <2>2
  <2>4. u = w
    BY <2>1, <2>2, <2>3, SeqEqual
  <2> QED
    BY <2>4 DEF u, w
<1>4. <<"starting", "running", "stopping">> \o <<final, "error">>
        = <<"starting", "running", "stopping", final, "error">>
  <2> DEFINE u == <<"starting", "running", "stopping">> \o <<final, "error">>
             w == <<"starting", "running", "stopping", final, "error">>
  <2>1. /\ u \in Seq(E) /\ Len(u) = 5
        /\ u[1] = "starting" /\ u[2] = "running" /\ u[3] = "stopping" /\ u[4] = final
        /\ u[5] = "error"
    BY <1>1
  <2>2. /\ w \in Seq(E) /\ Len(w) = 5
        /\ w[1] = "starting" /\ w[2] = "running" /\ w[3] = "stopping" /\ w[4] = final
        /\ w[5] = "error"
    BY <1>1
  <2> HIDE DEF u, w
  <2>3. \A i \in 1 .. 5 : u[i] = w[i]
    BY <2>1, <2>2
  <2>4. u = w
    BY <2>1, <2>2, <2>3, SeqEqual
  <2> QED
    BY <2>4 DEF u, w
<1> QED
  BY <1>2, <1>3, <1>4

\* A session that goes on speaks on: its word is prolonged as its phase says.
LEMMA Prolonged ==
  /\ Contract!Heard("accepted", <<>>)
  /\ \A e : Contract!Heard("none", e) => e = <<>>
  /\ \A e : Contract!Heard("accepted", e) =>
       /\ Contract!Heard("ended", e \o <<"error">>)
       /\ Contract!Heard("starting", e \o <<"starting">>)
  /\ \A e : Contract!Heard("starting", e) =>
       /\ Contract!Heard("running", e \o <<"running">>)
       /\ Contract!Heard("failing", e \o <<"stopping">>)
  /\ \A e : Contract!Heard("running", e) => Contract!Heard("stopping", e \o <<"stopping">>)
  /\ \A e : \A final \in {"stopped", "error"} :
       /\ Contract!Heard("failing", e) => Contract!Heard("ended", e \o <<final, "error">>)
       /\ Contract!Heard("stopping", e) => Contract!Heard("ended", e \o <<final>>)
       /\ Contract!Heard("stopping", e) => Contract!Heard("ended", e \o <<final, "error">>)
<1>1. <<>> \o <<"error">> = <<"error">> /\ <<>> \o <<"starting">> = <<"starting">>
  <2>1. <<"error">> \in Seq({"error"}) /\ <<"starting">> \in Seq({"starting"})
    OBVIOUS
  <2> QED
    BY <2>1, ConcatEmptySeq
<1>2. /\ <<"starting">> \o <<"running">> = <<"starting", "running">>
      /\ <<"starting">> \o <<"stopping">> = <<"starting", "stopping">>
      /\ <<"starting", "running">> \o <<"stopping">> = <<"starting", "running", "stopping">>
  BY Spelled
<1>3. \A final : /\ <<"starting", "stopping">> \o <<final, "error">>
                      = <<"starting", "stopping", final, "error">>
                 /\ <<"starting", "running", "stopping">> \o <<final>>
                      = <<"starting", "running", "stopping", final>>
                 /\ <<"starting", "running", "stopping">> \o <<final, "error">>
                      = <<"starting", "running", "stopping", final, "error">>
  BY SpelledOut
<1>4. /\ Contract!Heard("accepted", <<>>)
      /\ \A e : Contract!Heard("none", e) => e = <<>>
      /\ \A e : Contract!Heard("accepted", e) => e = <<>>
      /\ \A e : Contract!Heard("starting", e) => e = <<"starting">>
      /\ \A e : Contract!Heard("running", e) => e = <<"starting", "running">>
      /\ \A e : Contract!Heard("failing", e) => e = <<"starting", "stopping">>
      /\ \A e : Contract!Heard("stopping", e) => e = <<"starting", "running", "stopping">>
  BY DEF Contract!Heard
<1>5. /\ Contract!Heard("starting", <<"starting">>)
      /\ Contract!Heard("running", <<"starting", "running">>)
      /\ Contract!Heard("failing", <<"starting", "stopping">>)
      /\ Contract!Heard("stopping", <<"starting", "running", "stopping">>)
      /\ Contract!Heard("ended", <<"error">>)
  BY DEF Contract!Heard
<1>6. \A final \in {"stopped", "error"} :
        /\ Contract!Heard("ended", <<"starting", "stopping", final, "error">>)
        /\ Contract!Heard("ended", <<"starting", "running", "stopping", final>>)
        /\ Contract!Heard("ended", <<"starting", "running", "stopping", final, "error">>)
  BY DEF Contract!Heard
<1>7. \A final \in {"stopped", "error"} :
        /\ Contract!Heard("ended", <<"starting", "stopping">> \o <<final, "error">>)
        /\ Contract!Heard("ended", <<"starting", "running", "stopping">> \o <<final>>)
        /\ Contract!Heard("ended",
                          <<"starting", "running", "stopping">> \o <<final, "error">>)
  BY <1>3, <1>6
<1> QED
  BY <1>1, <1>2, <1>4, <1>5, <1>7

\* The session that passes from one phase to the next
LEMMA PassesSpeaks ==
  ASSUME WordInv, NEW s \in Sessions, NEW from, NEW to, NEW es,
         es \in Seq({"starting", "running", "stopping", "stopped", "error"}),
         from # "none", Contract!Passes(s, from, to, es),
         \A e : Contract!Heard(from, e) => Contract!Heard(to, e \o es)
  PROVE  WordInv'
<1>1. /\ Known[s] = from /\ Known' = [Known EXCEPT ![s] = to]
      /\ events' = [events EXCEPT ![s] = @ \o es] /\ started' = started
  BY DEF Contract!Passes, Known
<1>2. DOMAIN Known = Sessions
  BY DEF Known
<1>3. Known'[s] = to /\ \A t \in Sessions \ {s} : Known'[t] = Known[t]
  BY <1>1, <1>2
<1>4. /\ events'[s] = events[s] \o es /\ \A t \in Sessions \ {s} : events'[t] = events[t]
      /\ events' \in [Sessions -> Seq({"starting", "running", "stopping", "stopped", "error"})]
  BY <1>1 DEF WordInv
<1>5. Contract!Heard(to, events'[s])
  BY <1>1, <1>4 DEF WordInv
<1>6. \A t \in Sessions : Contract!Heard(Known'[t], events'[t])
  BY <1>3, <1>4, <1>5 DEF WordInv
<1>7. \A t \in Sessions : t > started => Known'[t] = "none"
  BY <1>1, <1>3 DEF WordInv
<1> QED
  BY <1>1, <1>4, <1>6, <1>7 DEF WordInv, Contract!Heard

\* The contract alone says in which words a session speaks.
THEOREM ContractSpeaks == KeepsContract => []HeardInWords
<1>1. Contract!Init => WordInv
  <2> SUFFICES ASSUME Contract!Init PROVE WordInv
    OBVIOUS
  <2>1. started = 0 /\ Known = [s \in Sessions |-> "none"] /\ events = [s \in Sessions |-> <<>>]
    BY DEF Contract!Init, Contract!Sessions, Sessions, Known
  <2>2. <<>> \in Seq({"starting", "running", "stopping", "stopped", "error"})
    OBVIOUS
  <2> QED
    BY <2>1, <2>2, BoundsAssumption DEF WordInv, Contract!Heard
<1>2. WordInv /\ [Contract!Next]_(Contract!contractVars) => WordInv'
  <2> SUFFICES ASSUME WordInv, [Contract!Next]_(Contract!contractVars) PROVE WordInv'
    OBVIOUS
  <2>1. CASE UNCHANGED <<started, Known, events>>
    BY <2>1 DEF WordInv, Contract!Heard
  <2>2. CASE Contract!Accept
    <3>1. /\ started < MaxSessions /\ started' = started + 1 /\ events' = events
          /\ Known' = [Known EXCEPT ![started + 1] = "accepted"]
      BY <2>2 DEF Contract!Accept, Known
    <3>2. started \in Nat /\ started + 1 \in Sessions /\ DOMAIN Known = Sessions
      BY <3>1, BoundsAssumption DEF WordInv, Sessions, Known
    <3>3. Known[started + 1] = "none" /\ events[started + 1] = <<>>
      BY <3>2, Prolonged DEF WordInv
    <3>4. /\ Known'[started + 1] = "accepted"
          /\ \A t \in Sessions \ {started + 1} : Known'[t] = Known[t]
      BY <3>1, <3>2
    <3>5. \A t \in Sessions : Contract!Heard(Known'[t], events'[t])
      BY <3>1, <3>3, <3>4, Prolonged DEF WordInv
    <3>6. \A t \in Sessions : t > started + 1 => Known'[t] = "none"
      BY <3>2, <3>4 DEF WordInv, Sessions
    <3> QED
      BY <3>1, <3>2, <3>5, <3>6, BoundsAssumption DEF WordInv, Contract!Heard
  <2>3. CASE Contract!Command /\ ~Contract!Accept
    <3>1. UNCHANGED <<started, Known, events>>
      BY <2>3 DEF Contract!Command, Contract!Refuse, Contract!Setup, Contract!SetupDone,
                  Contract!Answer, Contract!Exit, Known
    <3> QED
      BY <2>1, <3>1
  <2>4. ASSUME NEW s \in Sessions, Contract!Ending(s)
        PROVE  WordInv'
    BY <2>1, <2>4 DEF Contract!Ending, Known
  <2>5. ASSUME NEW s \in Sessions, Contract!Proceeds(s)
        PROVE  WordInv'
    <3> DEFINE E == {"starting", "running", "stopping", "stopped", "error"}
    <3>1. /\ <<"error">> \in Seq(E) /\ <<"starting">> \in Seq(E) /\ <<"running">> \in Seq(E)
          /\ <<"stopping">> \in Seq(E)
          /\ \A final \in {"stopped", "error"} :
               <<final>> \in Seq(E) /\ <<final, "error">> \in Seq(E)
      OBVIOUS
    <3>2. CASE Contract!Reject(s)
      BY <3>1, <3>2, PassesSpeaks, Prolonged DEF Contract!Reject
    <3>3. CASE Contract!Begin(s)
      BY <3>1, <3>3, PassesSpeaks, Prolonged DEF Contract!Begin
    <3>4. CASE Contract!Announce(s)
      BY <3>1, <3>4, PassesSpeaks, Prolonged DEF Contract!Announce
    <3>5. CASE Contract!Abort(s)
      BY <3>1, <3>5, PassesSpeaks, Prolonged DEF Contract!Abort
    <3>6. CASE Contract!Wind(s)
      BY <3>1, <3>6, PassesSpeaks, Prolonged DEF Contract!Wind
    <3>7. CASE Contract!End(s)
      <4>1. PICK final \in {"stopped", "error"} :
              \/ Contract!Passes(s, "failing", "ended", <<final, "error">>)
              \/ Contract!Passes(s, "stopping", "ended", <<final, "error">>)
              \/ Contract!Passes(s, "stopping", "ended", <<final>>)
        BY <3>7 DEF Contract!End
      <4> QED
        BY <3>1, <4>1, PassesSpeaks, Prolonged
    <3> QED
      BY <2>5, <3>2, <3>3, <3>4, <3>5, <3>6, <3>7 DEF Contract!Proceeds
  <2>6. CASE UNCHANGED Contract!contractVars
    BY <2>1, <2>6 DEF Contract!contractVars, Known
  <2> QED
    BY <2>2, <2>3, <2>4, <2>5, <2>6 DEF Contract!Next, Contract!Sessions, Sessions
<1>3. WordInv => HeardInWords
  BY DEF WordInv, HeardInWords, Contract!EventsInWords, Contract!Sessions, Sessions, Known
<1> QED
  BY <1>1, <1>2, <1>3, PTL DEF KeepsContract, Contract!Safe

\* So does the worker, which keeps it.
THEOREM WorkerSpeaks == Spec => []HeardInWords
BY WorkerKeepsContract, ContractSpeaks, PTL

=============================================================================
