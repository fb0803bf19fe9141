---------------------------- MODULE WorkerContract ----------------------------
(***************************************************************************)
(* What the worker process (src/worker/worker.py) promises to the Windows  *)
(* application, said without its tasks, awaits and resources: the state    *)
(* events of each session and the answers to the commands that start and   *)
(* stop sessions.  WorkerSession implements it, and the application        *)
(* is modelled against it.                                                 *)
(***************************************************************************)
EXTENDS Naturals, Sequences

CONSTANT MaxSessions   \* bound: sessions started over the life of the worker

VARIABLES
  started,   \* number of sessions started
  phase,     \* of each session, what the application may know of it
  ending,    \* of each session: it has been told to stop, or has failed
  events,    \* of each session: the state events it has sent, in order
  setting,   \* a setup action has the phone
  reply,     \* the last answer to a lifecycle command
  alive      \* the process has not ended

contractVars == <<started, phase, ending, events, setting, reply, alive>>

Sessions == 1 .. MaxSessions
Phases == {"none", "accepted", "starting", "running", "failing", "stopping", "ended"}
StateEvents == {"starting", "running", "stopping", "stopped", "error"}

Live(s) == phase[s] \notin {"none", "ended"}
Free == ~setting /\ \A s \in Sessions : ~Live(s)

TypeOK ==
  /\ started \in 0 .. MaxSessions
  /\ phase \in [Sessions -> Phases]
  /\ ending \in [Sessions -> BOOLEAN]
  /\ events \in [Sessions -> Seq(StateEvents)]
  /\ setting \in BOOLEAN /\ alive \in BOOLEAN
  /\ reply \in {"none", "started", "stopped", "error", "shutdown"}

Init ==
  /\ started = 0
  /\ phase = [s \in Sessions |-> "none"]
  /\ ending = [s \in Sessions |-> FALSE]
  /\ events = [s \in Sessions |-> <<>>]
  /\ setting = FALSE /\ reply = "none" /\ alive = TRUE

-----------------------------------------------------------------------------
(* Commands.                                                                 *)

\* start_session is accepted exactly when the phone is free.
Accept ==
  /\ alive /\ Free /\ started < MaxSessions
  /\ started' = started + 1
  /\ phase' = [phase EXCEPT ![started + 1] = "accepted"]
  /\ reply' = "started"
  /\ UNCHANGED <<ending, events, setting, alive>>

Refuse ==
  /\ alive /\ ~Free
  /\ reply' = "error"
  /\ UNCHANGED <<started, phase, ending, events, setting, alive>>

Setup ==
  /\ alive /\ Free
  /\ setting' = TRUE
  /\ UNCHANGED <<started, phase, ending, events, reply, alive>>

SetupDone ==
  /\ setting /\ setting' = FALSE
  /\ UNCHANGED <<started, phase, ending, events, reply, alive>>

\* stop_session is answered when the phone is free, or with an error.
Answer ==
  /\ alive
  /\ reply' \in {"error", "shutdown"} \cup (IF Free THEN {"stopped"} ELSE {})
  /\ UNCHANGED <<started, phase, ending, events, setting, alive>>

\* The process does not end under a session.
Exit ==
  /\ alive /\ Free /\ alive' = FALSE
  /\ UNCHANGED <<started, phase, ending, events, setting, reply>>

-----------------------------------------------------------------------------
(* Sessions.                                                                 *)

\* A session is told to stop, or finds that it has failed.
Ending(s) ==
  /\ Live(s)
  /\ ending' = [ending EXCEPT ![s] = TRUE]
  /\ UNCHANGED <<started, phase, events, setting, reply, alive>>

Passes(s, from, to, es) ==
  /\ phase[s] = from
  /\ phase' = [phase EXCEPT ![s] = to]
  /\ events' = [events EXCEPT ![s] = @ \o es]
  /\ UNCHANGED <<started, ending, setting, reply, alive>>

Reject(s) == Passes(s, "accepted", "ended", <<"error">>)
Begin(s) == Passes(s, "accepted", "starting", <<"starting">>)
Announce(s) == Passes(s, "starting", "running", <<"running">>)
Abort(s) == Passes(s, "starting", "failing", <<"stopping">>)
Wind(s) == ending[s] /\ Passes(s, "running", "stopping", <<"stopping">>)

\* The end is announced once if nothing was raised.  It is announced twice if the
\* session never ran, or if the exit of its tunnel raised.
End(s) ==
  \E final \in {"stopped", "error"} :
    \/ \E from \in {"failing", "stopping"} : Passes(s, from, "ended", <<final, "error">>)
    \/ Passes(s, "stopping", "ended", <<final>>)

Proceeds(s) ==
  Reject(s) \/ Begin(s) \/ Announce(s) \/ Abort(s) \/ Wind(s) \/ End(s)

Command == Accept \/ Refuse \/ Setup \/ SetupDone \/ Answer \/ Exit

Next == Command \/ \E s \in Sessions : Ending(s) \/ Proceeds(s)

Safe == Init /\ [][Next]_contractVars

\* Nothing lasts for ever, except a session that runs and is not told to stop.
Fairness == \A s \in Sessions : WF_contractVars(Proceeds(s))

Spec == Safe /\ Fairness

-----------------------------------------------------------------------------

\* All that the application hears of a session, at each of its phases: that it never
\* began, that its start-up failed, or that it ran and ended.
Heard(of, es) ==
  \/ of \in {"none", "accepted"} /\ es = <<>>
  \/ of = "starting" /\ es = <<"starting">>
  \/ of = "running" /\ es = <<"starting", "running">>
  \/ of = "failing" /\ es = <<"starting", "stopping">>
  \/ of = "stopping" /\ es = <<"starting", "running", "stopping">>
  \/ /\ of = "ended"
     /\ \E final \in {"stopped", "error"} :
          es \in {<<"error">>, <<"starting", "stopping", final, "error">>,
                 <<"starting", "running", "stopping", final>>,
                 <<"starting", "running", "stopping", final, "error">>}

\* The events of a session are one of these words, and as far along as the session is.
EventsInWords == \A s \in Sessions : Heard(phase[s], events[s])

=============================================================================
