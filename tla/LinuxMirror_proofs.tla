--------------------------- MODULE LinuxMirror_proofs ---------------------------
(***************************************************************************)
(* For any number of handshake attempts: the types of the Linux viewer's   *)
(* session, that nothing stays open unreported, and that what it blames    *)
(* has happened.                                                           *)
(***************************************************************************)
EXTENDS LinuxMirror, TLAPS

USE TriesAssumption DEF TriesAssumption

-----------------------------------------------------------------------------
(* The inductive invariant.                                                  *)

\* Where capture() and run() can be together: only a startup is cancelled, and a
\* cleanup is on exactly from its beginning.
PlaceInv ==
  /\ cancelled => pc \in Startup /\ run # "wait"
  /\ pc = "cleanup" => cleaningUp
  /\ pc \in Startup \cup {"loop"} => ~cleaningUp
  /\ pc \in {"bridge", "loop"} => player # "none"
  /\ run = "done" => pc = "done"
  /\ pc \in {"cleanup", "done"} <=> result # "none"
  /\ result = "cancelled" => run # "wait"

Late == IF late THEN {"player"} ELSE {}

\* A tunnel whose exit raised
Stayed == IF "tunnel" \in causes THEN {"tunnel"} ELSE {}

\* The state could not be written, and so nothing was closed.
Skipped == "record" \in causes

\* What may be open at each place: the cleanup still has to close it, has a label
\* for it, or does not know of it.
OpenInv ==
  /\ pc \in {"select", "tunnel"} => open = {}
  /\ pc = "service" => open \subseteq {"tunnel"}
  /\ pc \in {"start", "player", "bridge", "loop"} => "service" \in open
  /\ ~cleaningUp => labels = {}
  /\ labels \cap (todo \cup {"receivers", "tunnel"}) = {}
  /\ pc = "cleanup" => Skipped \/ open \subseteq todo \cup labels \cup {"tunnel"} \cup Late
  /\ pc = "done" => Skipped \/ open \subseteq labels \cup Late \cup Stayed
  /\ labels # {} => "cleanup" \in causes
  /\ pc = "done" /\ labels # {} => error # "none"

\* The user, or what became of the player, asks for a clean stop.
Asked == "user" \in causes \/ player \notin {"none", "alive"}

\* What each sign that the code looks at was caused by
CauseInv ==
  /\ input = "failed" => "input" \in causes
  /\ input = "eof" => player \in {"closed", "crashed"}
  /\ silent => "phone" \in causes
  /\ pc \in {"player", "bridge", "loop"} => "receivers" \in open \/ "phone" \in causes
  /\ player = "crashed" /\ ~cleaningUp => "crash" \in causes
  /\ result = "raised" => causes \cap {"startup", "record", "tunnel"} # {}

\* A stop, however it came about, was asked for or has an error.
StopInv ==
  posted \/ stopEvent \/ result = "ok" \/ run # "wait" => error # "none" \/ Asked

\* The parts of TypeOK
Flags == /\ cancelled \in BOOLEAN /\ posted \in BOOLEAN /\ stopEvent \in BOOLEAN
         /\ cleaningUp \in BOOLEAN /\ told \in BOOLEAN /\ silent \in BOOLEAN
         /\ late \in BOOLEAN /\ stuck \in BOOLEAN
Sets == /\ todo \subseteq Steps /\ open \subseteq Resources /\ labels \subseteq open
        /\ causes \subseteq Causes

IInv == TypeOK /\ PlaceInv /\ OpenInv /\ CauseInv /\ StopInv /\ BlameIsTrue

-----------------------------------------------------------------------------
(* The steps.                                                                *)

\* Every step keeps the types.
LEMMA Types ==
  ASSUME TypeOK, PlaceInv, OpenInv, Next
  PROVE  TypeOK'
<1> USE DEF TypeOK, PlaceInv, OpenInv, Steps, Resources, Failures, Causes, Flags, Sets,
       stopVars, captureVars, playerVars, Startup
<1>1. CASE SelectConnection  BY <1>1 DEF SelectConnection, Opened, At
<1>2. CASE EnterTunnel  BY <1>2 DEF EnterTunnel, Opened, At
<1>3. CASE ConnectService  BY <1>3 DEF ConnectService, Opened, At
<1>4. CASE RetryService  BY <1>4 DEF RetryService, Opened, At, MayRetry
<1>5. CASE StartStream  BY <1>5 DEF StartStream, Opened, At
<1>6. CASE StartBridge  BY <1>6 DEF StartBridge, Opened, At
<1>7. CASE Runs  BY <1>7 DEF Runs, Opened, At
<1>8. CASE StartupFails
  <2> USE <1>8 DEF StartupFails, At, Leave, Cause, Needed
  <2>1. Flags'  OBVIOUS
  <2>2. Sets'  OBVIOUS
  <2> QED  BY <2>1, <2>2
<1>9. CASE Poll
  <2> USE <1>9 DEF Poll, At, Leave, Stop, Records, Verdict, Needed
  <2>1. Flags'  OBVIOUS
  <2>2. Sets'  OBVIOUS
  <2> QED  BY <2>1, <2>2
<1>10. CASE CleanupStep
  <2> USE <1>10 DEF CleanupStep, At, NextStep
  <2>1. Flags'  OBVIOUS
  <2>2. Sets'  OBVIOUS
  <2> QED  BY <2>1, <2>2
<1>11. CASE InputSurvives  BY <1>11 DEF InputSurvives, At, NextStep
<1>12. CASE LeaveTunnel
  <2> USE <1>12 DEF LeaveTunnel, At
  <2>1. Flags'  OBVIOUS
  <2>2. Sets'  OBVIOUS
  <2>3. result' \in {"none", "ok", "raised", "cancelled"} /\ error' \in Failures \cup {"none"}
    OBVIOUS
  <2> QED  BY <2>1, <2>2, <2>3
<1>13. CASE TakeCancel
  <2> USE <1>13 DEF TakeCancel, Leave, Needed
  <2>1. Flags'  OBVIOUS
  <2>2. Sets'  OBVIOUS
  <2> QED  BY <2>1, <2>2
<1>14. CASE RunWakes  BY <1>14 DEF RunWakes, Cancels
<1>15. CASE RunEnds  BY <1>15 DEF RunEnds, Final
<1>16. CASE DeliverStop
  <2> USE <1>16 DEF DeliverStop
  <2>1. Flags'  OBVIOUS
  <2>2. Sets'  OBVIOUS
  <2> QED  BY <2>1, <2>2
<1>17. CASE UserStop  BY <1>17 DEF UserStop, Stop, Records
<1>18. CASE MakePlayer  BY <1>18 DEF MakePlayer
<1>19. CASE PlayerChanges
  <2> USE <1>19 DEF PlayerChanges, Cause
  <2>1. Flags'  OBVIOUS
  <2>2. Sets'  OBVIOUS
  <2> QED  BY <2>1, <2>2
<1>20. CASE ReportPlayer
  <2> USE <1>20 DEF ReportPlayer, Stop, Records
  <2>1. Flags'  OBVIOUS
  <2>2. Sets'  OBVIOUS
  <2> QED  BY <2>1, <2>2
<1>21. CASE Backlog  BY <1>21 DEF Backlog, Stop, Records, Cause
<1>22. CASE PhoneLost
  <2> USE <1>22 DEF PhoneLost, Cause
  <2>1. Flags'  OBVIOUS
  <2>2. Sets'  OBVIOUS
  <2> QED  BY <2>1, <2>2
<1>23. CASE InputChanges
  <2> USE <1>23 DEF InputChanges, Cause
  <2>1. Flags'  OBVIOUS
  <2>2. Sets'  OBVIOUS
  <2> QED  BY <2>1, <2>2
<1>24. CASE Over  BY <1>24 DEF Over, vars
<1> QED
  BY <1>1, <1>2, <1>3, <1>4, <1>5, <1>6, <1>7, <1>8, <1>9, <1>10, <1>11, <1>12,
     <1>13, <1>14, <1>15, <1>16, <1>17, <1>18, <1>19, <1>20, <1>21, <1>22, <1>23, <1>24
     DEF Next, StartupEnds

\* Who may be cancelled, and when the cleanup is on
LEMMA Places ==
  ASSUME TypeOK, PlaceInv, Next
  PROVE  PlaceInv'
<1> USE DEF TypeOK, PlaceInv,
       stopVars, captureVars, playerVars, Startup
<1>1. CASE SelectConnection  BY <1>1 DEF SelectConnection, Opened, At
<1>2. CASE EnterTunnel  BY <1>2 DEF EnterTunnel, Opened, At
<1>3. CASE ConnectService  BY <1>3 DEF ConnectService, Opened, At
<1>4. CASE RetryService  BY <1>4 DEF RetryService, Opened, At, MayRetry
<1>5. CASE StartStream  BY <1>5 DEF StartStream, Opened, At
<1>6. CASE StartBridge  BY <1>6 DEF StartBridge, Opened, At
<1>7. CASE Runs  BY <1>7 DEF Runs, Opened, At
<1>8. CASE StartupFails  BY <1>8 DEF StartupFails, At, Leave, Cause, Needed
<1>9. CASE Poll  BY <1>9 DEF Poll, At, Leave, Stop, Records, Verdict, Needed
<1>10. CASE CleanupStep  BY <1>10 DEF CleanupStep, At, NextStep
<1>11. CASE InputSurvives  BY <1>11 DEF InputSurvives, At, NextStep
<1>12. CASE LeaveTunnel  BY <1>12 DEF LeaveTunnel, At
<1>13. CASE TakeCancel  BY <1>13 DEF TakeCancel, Leave, Needed
<1>14. CASE RunWakes  BY <1>14 DEF RunWakes, Cancels
<1>15. CASE RunEnds  BY <1>15 DEF RunEnds, Final
<1>16. CASE DeliverStop  BY <1>16 DEF DeliverStop
<1>17. CASE UserStop  BY <1>17 DEF UserStop, Stop, Records
<1>18. CASE MakePlayer  BY <1>18 DEF MakePlayer
<1>19. CASE PlayerChanges  BY <1>19 DEF PlayerChanges, Cause
<1>20. CASE ReportPlayer  BY <1>20 DEF ReportPlayer, Stop, Records
<1>21. CASE Backlog  BY <1>21 DEF Backlog, Stop, Records, Cause
<1>22. CASE PhoneLost  BY <1>22 DEF PhoneLost, Cause
<1>23. CASE InputChanges  BY <1>23 DEF InputChanges, Cause
<1>24. CASE Over  BY <1>24 DEF Over, vars
<1> QED
  BY <1>1, <1>2, <1>3, <1>4, <1>5, <1>6, <1>7, <1>8, <1>9, <1>10, <1>11, <1>12,
     <1>13, <1>14, <1>15, <1>16, <1>17, <1>18, <1>19, <1>20, <1>21, <1>22, <1>23, <1>24
     DEF Next, StartupEnds

\* What is open is still to be closed, labelled or late.
LEMMA Opens ==
  ASSUME TypeOK, PlaceInv, OpenInv, Next
  PROVE  OpenInv'
<1> USE DEF TypeOK, PlaceInv, OpenInv, Late, Stayed, Skipped, Steps, Resources,
       stopVars, captureVars, playerVars, Startup
<1>1. CASE SelectConnection  BY <1>1 DEF SelectConnection, Opened, At
<1>2. CASE EnterTunnel  BY <1>2 DEF EnterTunnel, Opened, At
<1>3. CASE ConnectService  BY <1>3 DEF ConnectService, Opened, At
<1>4. CASE RetryService  BY <1>4 DEF RetryService, Opened, At, MayRetry
<1>5. CASE StartStream  BY <1>5 DEF StartStream, Opened, At
<1>6. CASE StartBridge  BY <1>6 DEF StartBridge, Opened, At
<1>7. CASE Runs  BY <1>7 DEF Runs, Opened, At
<1>8. CASE StartupFails  BY <1>8 DEF StartupFails, At, Leave, Cause, Needed
<1>9. CASE Poll  BY <1>9 DEF Poll, At, Leave, Stop, Records, Verdict, Needed
<1>10. CASE CleanupStep  BY <1>10 DEF CleanupStep, At, NextStep
<1>11. CASE InputSurvives  BY <1>11 DEF InputSurvives, At, NextStep
<1>12. CASE LeaveTunnel  BY <1>12 DEF LeaveTunnel, At
<1>13. CASE TakeCancel  BY <1>13 DEF TakeCancel, Leave, Needed
<1>14. CASE RunWakes  BY <1>14 DEF RunWakes, Cancels
<1>15. CASE RunEnds  BY <1>15 DEF RunEnds, Final
<1>16. CASE DeliverStop  BY <1>16 DEF DeliverStop
<1>17. CASE UserStop  BY <1>17 DEF UserStop, Stop, Records
<1>18. CASE MakePlayer  BY <1>18 DEF MakePlayer
<1>19. CASE PlayerChanges  BY <1>19 DEF PlayerChanges, Cause
<1>20. CASE ReportPlayer  BY <1>20 DEF ReportPlayer, Stop, Records
<1>21. CASE Backlog  BY <1>21 DEF Backlog, Stop, Records, Cause
<1>22. CASE PhoneLost  BY <1>22 DEF PhoneLost, Cause
<1>23. CASE InputChanges  BY <1>23 DEF InputChanges, Cause
<1>24. CASE Over  BY <1>24 DEF Over, vars
<1> QED
  BY <1>1, <1>2, <1>3, <1>4, <1>5, <1>6, <1>7, <1>8, <1>9, <1>10, <1>11, <1>12,
     <1>13, <1>14, <1>15, <1>16, <1>17, <1>18, <1>19, <1>20, <1>21, <1>22, <1>23, <1>24
     DEF Next, StartupEnds

\* What the code looks at has the cause that is recorded.
LEMMA Caused ==
  ASSUME TypeOK, PlaceInv, OpenInv, CauseInv, Next
  PROVE  CauseInv'
<1> USE DEF TypeOK, PlaceInv, OpenInv, CauseInv, Steps, Resources,
       stopVars, captureVars, playerVars, Startup
<1>1. CASE SelectConnection  BY <1>1 DEF SelectConnection, Opened, At
<1>2. CASE EnterTunnel  BY <1>2 DEF EnterTunnel, Opened, At
<1>3. CASE ConnectService  BY <1>3 DEF ConnectService, Opened, At
<1>4. CASE RetryService  BY <1>4 DEF RetryService, Opened, At, MayRetry
<1>5. CASE StartStream  BY <1>5 DEF StartStream, Opened, At
<1>6. CASE StartBridge  BY <1>6 DEF StartBridge, Opened, At
<1>7. CASE Runs  BY <1>7 DEF Runs, Opened, At
<1>8. CASE StartupFails  BY <1>8 DEF StartupFails, At, Leave, Cause, Needed
<1>9. CASE Poll  BY <1>9 DEF Poll, At, Leave, Stop, Records, Verdict, Needed
<1>10. CASE CleanupStep  BY <1>10 DEF CleanupStep, At, NextStep
<1>11. CASE InputSurvives  BY <1>11 DEF InputSurvives, At, NextStep
<1>12. CASE LeaveTunnel  BY <1>12 DEF LeaveTunnel, At
<1>13. CASE TakeCancel  BY <1>13 DEF TakeCancel, Leave, Needed
<1>14. CASE RunWakes  BY <1>14 DEF RunWakes, Cancels
<1>15. CASE RunEnds  BY <1>15 DEF RunEnds, Final
<1>16. CASE DeliverStop  BY <1>16 DEF DeliverStop
<1>17. CASE UserStop  BY <1>17 DEF UserStop, Stop, Records
<1>18. CASE MakePlayer  BY <1>18 DEF MakePlayer
<1>19. CASE PlayerChanges  BY <1>19 DEF PlayerChanges, Cause
<1>20. CASE ReportPlayer  BY <1>20 DEF ReportPlayer, Stop, Records
<1>21. CASE Backlog  BY <1>21 DEF Backlog, Stop, Records, Cause
<1>22. CASE PhoneLost  BY <1>22 DEF PhoneLost, Cause
<1>23. CASE InputChanges  BY <1>23 DEF InputChanges, Cause
<1>24. CASE Over  BY <1>24 DEF Over, vars
<1> QED
  BY <1>1, <1>2, <1>3, <1>4, <1>5, <1>6, <1>7, <1>8, <1>9, <1>10, <1>11, <1>12,
     <1>13, <1>14, <1>15, <1>16, <1>17, <1>18, <1>19, <1>20, <1>21, <1>22, <1>23, <1>24
     DEF Next, StartupEnds

\* A stop without an error was asked for.
LEMMA Asks ==
  ASSUME TypeOK, PlaceInv, CauseInv, StopInv, Next
  PROVE  StopInv'
<1> USE DEF TypeOK, PlaceInv, CauseInv, StopInv, Asked,
       stopVars, captureVars, playerVars, Startup
<1>1. CASE SelectConnection  BY <1>1 DEF SelectConnection, Opened, At
<1>2. CASE EnterTunnel  BY <1>2 DEF EnterTunnel, Opened, At
<1>3. CASE ConnectService  BY <1>3 DEF ConnectService, Opened, At
<1>4. CASE RetryService  BY <1>4 DEF RetryService, Opened, At, MayRetry
<1>5. CASE StartStream  BY <1>5 DEF StartStream, Opened, At
<1>6. CASE StartBridge  BY <1>6 DEF StartBridge, Opened, At
<1>7. CASE Runs  BY <1>7 DEF Runs, Opened, At
<1>8. CASE StartupFails  BY <1>8 DEF StartupFails, At, Leave, Cause, Needed
<1>9. CASE Poll  BY <1>9 DEF Poll, At, Leave, Stop, Records, Verdict, Needed
<1>10. CASE CleanupStep  BY <1>10 DEF CleanupStep, At, NextStep
<1>11. CASE InputSurvives  BY <1>11 DEF InputSurvives, At, NextStep
<1>12. CASE LeaveTunnel  BY <1>12 DEF LeaveTunnel, At
<1>13. CASE TakeCancel  BY <1>13 DEF TakeCancel, Leave, Needed
<1>14. CASE RunWakes  BY <1>14 DEF RunWakes, Cancels
<1>15. CASE RunEnds  BY <1>15 DEF RunEnds, Final
<1>16. CASE DeliverStop  BY <1>16 DEF DeliverStop
<1>17. CASE UserStop  BY <1>17 DEF UserStop, Stop, Records
<1>18. CASE MakePlayer  BY <1>18 DEF MakePlayer
<1>19. CASE PlayerChanges  BY <1>19 DEF PlayerChanges, Cause
<1>20. CASE ReportPlayer  BY <1>20 DEF ReportPlayer, Stop, Records
<1>21. CASE Backlog  BY <1>21 DEF Backlog, Stop, Records, Cause
<1>22. CASE PhoneLost  BY <1>22 DEF PhoneLost, Cause
<1>23. CASE InputChanges  BY <1>23 DEF InputChanges, Cause
<1>24. CASE Over  BY <1>24 DEF Over, vars
<1> QED
  BY <1>1, <1>2, <1>3, <1>4, <1>5, <1>6, <1>7, <1>8, <1>9, <1>10, <1>11, <1>12,
     <1>13, <1>14, <1>15, <1>16, <1>17, <1>18, <1>19, <1>20, <1>21, <1>22, <1>23, <1>24
     DEF Next, StartupEnds

\* What is blamed has happened.
LEMMA Blames ==
  ASSUME TypeOK, PlaceInv, CauseInv, StopInv, BlameIsTrue, Next
  PROVE  BlameIsTrue'
<1> USE DEF TypeOK, PlaceInv, CauseInv, StopInv, Asked, BlameIsTrue, Blamed,
       stopVars, captureVars, playerVars, Startup
<1>1. CASE SelectConnection  BY <1>1 DEF SelectConnection, Opened, At
<1>2. CASE EnterTunnel  BY <1>2 DEF EnterTunnel, Opened, At
<1>3. CASE ConnectService  BY <1>3 DEF ConnectService, Opened, At
<1>4. CASE RetryService  BY <1>4 DEF RetryService, Opened, At, MayRetry
<1>5. CASE StartStream  BY <1>5 DEF StartStream, Opened, At
<1>6. CASE StartBridge  BY <1>6 DEF StartBridge, Opened, At
<1>7. CASE Runs  BY <1>7 DEF Runs, Opened, At
<1>8. CASE StartupFails  BY <1>8 DEF StartupFails, At, Leave, Cause, Needed
<1>9. CASE Poll  BY <1>9 DEF Poll, At, Leave, Stop, Records, Verdict, Needed
<1>10. CASE CleanupStep  BY <1>10 DEF CleanupStep, At, NextStep
<1>11. CASE InputSurvives  BY <1>11 DEF InputSurvives, At, NextStep
<1>12. CASE LeaveTunnel  BY <1>12 DEF LeaveTunnel, At
<1>13. CASE TakeCancel  BY <1>13 DEF TakeCancel, Leave, Needed
<1>14. CASE RunWakes  BY <1>14 DEF RunWakes, Cancels
<1>15. CASE RunEnds  BY <1>15 DEF RunEnds, Final
<1>16. CASE DeliverStop  BY <1>16 DEF DeliverStop
<1>17. CASE UserStop  BY <1>17 DEF UserStop, Stop, Records
<1>18. CASE MakePlayer  BY <1>18 DEF MakePlayer
<1>19. CASE PlayerChanges  BY <1>19 DEF PlayerChanges, Cause
<1>20. CASE ReportPlayer  BY <1>20 DEF ReportPlayer, Stop, Records
<1>21. CASE Backlog  BY <1>21 DEF Backlog, Stop, Records, Cause
<1>22. CASE PhoneLost  BY <1>22 DEF PhoneLost, Cause
<1>23. CASE InputChanges  BY <1>23 DEF InputChanges, Cause
<1>24. CASE Over  BY <1>24 DEF Over, vars
<1> QED
  BY <1>1, <1>2, <1>3, <1>4, <1>5, <1>6, <1>7, <1>8, <1>9, <1>10, <1>11, <1>12,
     <1>13, <1>14, <1>15, <1>16, <1>17, <1>18, <1>19, <1>20, <1>21, <1>22, <1>23, <1>24
     DEF Next, StartupEnds

-----------------------------------------------------------------------------
(* The theorems.                                                             *)

\* Every reachable state, whatever fails, stops or is lost at whatever await
LEMMA Invariance == Spec => []IInv
<1>1. Init => IInv
  <2> SUFFICES ASSUME Init PROVE IInv  OBVIOUS
  <2> USE DEF Init
  <2>1. Flags  BY DEF Flags
  <2>2. Sets  BY DEF Sets
  <2>3. TypeOK  BY <2>1, <2>2 DEF TypeOK, Flags, Sets, Startup
  <2>4. PlaceInv /\ OpenInv  BY DEF PlaceInv, OpenInv, Startup
  <2>5. CauseInv /\ StopInv /\ BlameIsTrue  BY DEF CauseInv, StopInv, BlameIsTrue
  <2> QED  BY <2>3, <2>4, <2>5 DEF IInv
<1>2. IInv /\ [Next]_vars => IInv'
  <2> SUFFICES ASSUME IInv, [Next]_vars PROVE IInv'  OBVIOUS
  <2> TypeOK /\ PlaceInv /\ OpenInv /\ CauseInv /\ StopInv /\ BlameIsTrue  BY DEF IInv
  <2>1. ASSUME Next PROVE IInv'
    BY <2>1, Types, Places, Opens, Caused, Asks, Blames DEF IInv
  <2>2. CASE UNCHANGED vars
    BY <2>2 DEF IInv, vars, stopVars, captureVars, playerVars, TypeOK, PlaceInv, OpenInv,
       CauseInv, StopInv, BlameIsTrue, Late, Stayed, Skipped, Asked
  <2> QED  BY <2>1, <2>2
<1> QED  BY <1>1, <1>2, PTL DEF Spec

\* Every variable of the session keeps its type, for any number of attempts.
THEOREM TypeCorrect == Spec => []TypeOK
<1>1. IInv => TypeOK  BY DEF IInv
<1> QED  BY <1>1, Invariance, PTL

\* The ordered shutdown: when the viewer has ended nothing is open but what the
\* cleanup reported, the player that came too late for it, and a tunnel that could not
\* be left, provided that the cleanup began.
THEOREM EverythingClosed == Spec => []AllClosed
<1>1. IInv => AllClosed
  BY DEF IInv, PlaceInv, OpenInv, AllClosed, Late, Stayed, Skipped
<1> QED  BY <1>1, Invariance, PTL

\* The error that is shown names what happened, and a clean end was asked for.
THEOREM TrueBlame == Spec => []BlameIsTrue
<1>1. IInv => BlameIsTrue  BY DEF IInv
<1> QED  BY <1>1, Invariance, PTL

================================================================================
