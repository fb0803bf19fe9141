------------------------------- MODULE VideoSink -------------------------------
(***************************************************************************)
(* The video path of the Windows worker (src/worker/session.py):           *)
(* HevcPipeSink, the bounded queue between the receiver task and the       *)
(* thread that writes mpv's named pipe, and the supervision loop of        *)
(* MirrorSession.run, which polls the sink and the transport and decides   *)
(* when the session has failed.                                            *)
(*                                                                         *)
(* Two threads run here.  The event loop feeds access units and polls; the *)
(* writer thread takes them off the queue and writes them.  queue.Queue is *)
(* atomic per call, so every call is one step and the threads interleave   *)
(* between calls.  An access unit is its position in the feed; 0 is the    *)
(* codec header that the constructor feeds first.                          *)
(*                                                                         *)
(* Monotonic times are kept as ages in whole units that saturate one above *)
(* the largest threshold.  The loop polls every 0.25 s, several times in a *)
(* unit: a unit does not pass without a poll (`polled`).                   *)
(***************************************************************************)
EXTENDS Naturals, Sequences

CONSTANTS
  Capacity,      \* maxsize of the queue (30 in the code)
  MaxFrames,     \* bound: number of the last access unit fed
  PacketFresh,   \* 3 s: a packet younger than this says the transport is live
  StallAfter,    \* 4 s: is_stalled's timeout
  WriteIdle,     \* 8 s: longest gap between writes while packets arrive
  StreamTimeout, \* 15 s: longest silence of the transport
  None           \* no access unit, no age, no error code

ASSUME CapacityAssumption == Capacity \in Nat /\ Capacity >= 2
ASSUME MaxFramesAssumption == MaxFrames \in Nat
ASSUME TimeAssumption ==
  /\ {PacketFresh, StallAfter, WriteIdle, StreamTimeout} \subseteq Nat
  /\ 2 <= PacketFresh /\ PacketFresh < StallAfter /\ StallAfter < WriteIdle
  /\ WriteIdle < StreamTimeout
ErrorCodes == {"stream_ended", "stream_timeout", "video_stall",
               "player_disconnected"}

ASSUME NoneAssumption == None \notin Nat /\ None \notin ErrorCodes

VARIABLES
  queue,         \* _queue
  headerPending, \* _header_pending
  sinkStop,      \* _stop
  nextFrame,     \* number of the next access unit the receiver will feed
  feeder,        \* where feed() is: [pc, frame, keep]
  writer,        \* where the writer thread is: [pc, frame]
  written,       \* history: access units written whole to the pipe, in order
  pipe,          \* the player's end of the pipe: it reads, hangs or is gone
  notice,        \* on_stop posted by call_soon_threadsafe, not yet run
  mediaAlive,    \* neither media task has ended
  writeAge,      \* age of _write_started, None while no write is in flight
  lastWriteAge,  \* age of _last_write
  packetAge,     \* age of transport.last_packet
  polled,        \* the loop has polled since time last advanced
  stopEvent,     \* session.stop_event
  errorCode      \* session.error_code

feedVars == <<queue, nextFrame, feeder>>
writeVars == <<headerPending, writer, written, writeAge, lastWriteAge>>
sessionVars == <<stopEvent, errorCode>>
vars == <<queue, headerPending, sinkStop, nextFrame, feeder, writer, written,
          pipe, notice, mediaAlive, writeAge, lastWriteAge, packetAge, polled,
          stopEvent, errorCode>>

Header == 0
Frames == 0 .. MaxFrames
AgeCap == StreamTimeout + 1
Ages == 0 .. AgeCap
FeederIdle == [pc |-> "idle", frame |-> None, keep |-> 0]
FeederState == {FeederIdle} \cup
  [pc : {"full", "drain", "drop", "put"}, frame : Frames, keep : 0 .. 1]
WriterIdle == [pc |-> "get", frame |-> None]
WriterState == [pc : {"get", "done"}, frame : {None}] \cup
  [pc : {"took", "write", "done"}, frame : Frames]
PipeState == {"open", "hung", "broken"}

TypeOK ==
  /\ queue \in Seq(Frames) /\ Len(queue) <= Capacity
  /\ headerPending \in BOOLEAN /\ sinkStop \in BOOLEAN
  /\ nextFrame \in 0 .. MaxFrames + 1
  /\ feeder \in FeederState /\ writer \in WriterState
  /\ written \in Seq(Frames)
  /\ pipe \in PipeState
  /\ notice \in BOOLEAN /\ mediaAlive \in BOOLEAN
  /\ writeAge \in Ages \cup {None}
  /\ lastWriteAge \in Ages /\ packetAge \in Ages
  /\ polled \in BOOLEAN /\ stopEvent \in BOOLEAN
  /\ errorCode \in ErrorCodes \cup {None}

Init ==
  /\ queue = <<>> /\ headerPending = TRUE /\ sinkStop = FALSE
  /\ nextFrame = Header
  /\ feeder = FeederIdle
  /\ writer = WriterIdle
  /\ written = <<>>
  /\ pipe = "open" /\ notice = FALSE /\ mediaAlive = TRUE
  /\ writeAge = None /\ lastWriteAge = 0 /\ packetAge = 0
  /\ polled = TRUE /\ stopEvent = FALSE /\ errorCode = None

-----------------------------------------------------------------------------
(* The event loop: feeding.  feed() never awaits, so no other callback of   *)
(* the loop runs until it returns; the writer thread does run meanwhile.    *)

\* The constructor feeds the header before it returns to the loop.
LoopFree == feeder.pc = "idle" /\ nextFrame > Header

\* Mutated: the queue is a stack.
EnqueueMutant(q, frame) == <<frame>> \o q

Enqueue(q, frame) == Append(q, frame)

\* Mutated: the queue has no maxsize.
HasRoomMutant == TRUE

\* put_nowait() does not raise queue.Full.
HasRoom == Len(queue) < Capacity

\* Mutated: the drain leaves the queue full.
KeepMutant == Capacity

\* How much of a full queue the drain leaves: it means to spare the header.
Keep == IF headerPending THEN 1 ELSE 0

\* Mutated: the drain stops as soon as there is room.
DrainedMutant == Len(queue) < Capacity

Drained == Len(queue) <= feeder.keep

\* recv() returns a datagram.
Packet ==
  /\ LoopFree /\ mediaAlive
  /\ packetAge' = 0
  /\ UNCHANGED <<feedVars, writeVars, sessionVars, sinkStop, pipe, notice,
                 mediaAlive, polled>>

\* feed(data): the first put_nowait, of an access unit completed by the
\* packet just received.
Feed ==
  /\ feeder.pc = "idle" /\ mediaAlive /\ ~sinkStop
  /\ packetAge = 0 /\ nextFrame <= MaxFrames
  /\ nextFrame' = nextFrame + 1
  /\ \/ /\ HasRoom
        /\ queue' = Enqueue(queue, nextFrame)
        /\ UNCHANGED feeder
     \/ /\ ~HasRoom
        /\ feeder' = [pc |-> "full", frame |-> nextFrame, keep |-> 0]
        /\ UNCHANGED queue
  /\ UNCHANGED <<writeVars, sessionVars, sinkStop, pipe, notice, mediaAlive,
                 packetAge, polled>>

\* except queue.Full: how much of the backlog to leave.
FeedKeep ==
  /\ feeder.pc = "full"
  /\ feeder' = [feeder EXCEPT !.pc = "drain", !.keep = Keep]
  /\ UNCHANGED <<queue, nextFrame, writeVars, sessionVars, sinkStop, pipe,
                 notice, mediaAlive, packetAge, polled>>

\* The test of the drain loop, on a qsize() the writer may lower at once.
FeedDrain ==
  /\ feeder.pc = "drain"
  /\ feeder' = [feeder EXCEPT !.pc = IF Drained THEN "put" ELSE "drop"]
  /\ UNCHANGED <<queue, nextFrame, writeVars, sessionVars, sinkStop, pipe,
                 notice, mediaAlive, packetAge, polled>>

\* get_nowait() discards the oldest entry; queue.Empty leaves the loop.
FeedDrop ==
  /\ feeder.pc = "drop"
  /\ \/ /\ queue # <<>>
        /\ queue' = Tail(queue)
        /\ feeder' = [feeder EXCEPT !.pc = "drain"]
     \/ /\ queue = <<>>
        /\ feeder' = [feeder EXCEPT !.pc = "put"]
        /\ UNCHANGED queue
  /\ UNCHANGED <<nextFrame, writeVars, sessionVars, sinkStop, pipe, notice,
                 mediaAlive, packetAge, polled>>

\* The second put_nowait, whose queue.Full is suppressed.
FeedRetry ==
  /\ feeder.pc = "put"
  /\ queue' = IF HasRoom THEN Enqueue(queue, feeder.frame) ELSE queue
  /\ feeder' = FeederIdle
  /\ UNCHANGED <<nextFrame, writeVars, sessionVars, sinkStop, pipe, notice,
                 mediaAlive, packetAge, polled>>

-----------------------------------------------------------------------------
(* The writer thread.                                                        *)

\* get(timeout=0.2) returns.  The stop flag was tested before the call, so a
\* thread waiting here may still take an entry after close().
WriterGet ==
  /\ writer.pc = "get" /\ queue # <<>>
  /\ writer' = [pc |-> "took", frame |-> Head(queue)]
  /\ queue' = Tail(queue)
  /\ UNCHANGED <<headerPending, written, writeAge, lastWriteAge, nextFrame,
                 feeder, sessionVars, sinkStop, pipe, notice, mediaAlive,
                 packetAge, polled>>

\* _header_pending and _write_started are set before the write.
WriterStart ==
  /\ writer.pc = "took"
  /\ headerPending' = FALSE
  /\ writeAge' = 0
  /\ writer' = [writer EXCEPT !.pc = "write"]
  /\ UNCHANGED <<feedVars, written, lastWriteAge, sessionVars, sinkStop, pipe,
                 notice, mediaAlive, packetAge, polled>>

\* _write_all returns.  Once the sink is stopped it may return early, with
\* part of the access unit unwritten.
WriterWrite ==
  /\ writer.pc = "write"
  /\ \/ /\ pipe = "open"
        /\ written' = Append(written, writer.frame)
     \/ sinkStop /\ UNCHANGED written
  /\ writeAge' = None /\ lastWriteAge' = 0
  /\ writer' = WriterIdle
  /\ UNCHANGED <<feedVars, headerPending, sessionVars, sinkStop, pipe, notice,
                 mediaAlive, packetAge, polled>>

\* Mutated: every failed write is reported.
ReportedMutant == TRUE

\* A failure is reported only before close(): tearing the sink down is not one.
Reported == ~sinkStop

\* The write raises: the player is gone, or close() closed the stream under
\* it.  _write_started is left set.
WriterFail ==
  /\ writer.pc = "write"
  /\ pipe = "broken" \/ sinkStop
  /\ notice' = (notice \/ Reported)
  /\ writer' = [writer EXCEPT !.pc = "done"]
  /\ UNCHANGED <<feedVars, headerPending, written, writeAge, lastWriteAge,
                 sessionVars, sinkStop, pipe, mediaAlive, packetAge, polled>>

\* The thread sees the stop flag at the top of its loop.
WriterExit ==
  /\ writer.pc = "get" /\ sinkStop
  /\ writer' = [writer EXCEPT !.pc = "done"]
  /\ UNCHANGED <<feedVars, headerPending, written, writeAge, lastWriteAge,
                 sessionVars, sinkStop, pipe, notice, mediaAlive, packetAge,
                 polled>>

-----------------------------------------------------------------------------
(* The event loop: the session.                                              *)

\* MirrorSession.stop(code): the first code is kept.
Stop(code) ==
  /\ errorCode' = IF code # None /\ errorCode = None THEN code ELSE errorCode
  /\ stopEvent' = TRUE

\* The callback the writer thread posted.
DeliverNotice ==
  /\ LoopFree /\ notice
  /\ notice' = FALSE
  /\ Stop("player_disconnected")
  /\ UNCHANGED <<feedVars, writeVars, sinkStop, pipe, mediaAlive, packetAge,
                 polled>>

\* HevcPipeSink.is_stalled(4.0)
IsStalled ==
  /\ ~sinkStop
  /\ \/ writeAge # None /\ writeAge > StallAfter
     \/ queue # <<>> /\ lastWriteAge > StallAfter

\* Mutated: an idle writer is never suspected.
PipeIdleMutant == FALSE

\* Packets arrive and nothing reaches the pipe.
PipeIdle == lastWriteAge > WriteIdle /\ packetAge < PacketFresh

\* What one pass of the supervision loop concludes, in the order of its tests.
Verdict ==
  IF ~mediaAlive THEN "stream_ended"
  ELSE IF packetAge > StreamTimeout THEN "stream_timeout"
  ELSE IF IsStalled \/ PipeIdle THEN "video_stall" ELSE None

\* One pass of the loop.
Poll ==
  /\ LoopFree /\ ~stopEvent
  /\ polled' = TRUE
  /\ IF Verdict # None THEN Stop(Verdict) ELSE UNCHANGED sessionVars
  /\ UNCHANGED <<feedVars, writeVars, sinkStop, pipe, notice, mediaAlive,
                 packetAge>>

\* stop_session: the user's stop carries no code.
UserStop ==
  /\ LoopFree
  /\ Stop(None)
  /\ UNCHANGED <<feedVars, writeVars, sinkStop, pipe, notice, mediaAlive,
                 packetAge, polled>>

\* cleanup(): the media tasks are cancelled, then sink.close() runs.
Close ==
  /\ LoopFree /\ stopEvent /\ ~sinkStop
  /\ mediaAlive' = FALSE
  /\ sinkStop' = TRUE
  /\ UNCHANGED <<feedVars, writeVars, sessionVars, pipe, notice, packetAge,
                 polled>>

-----------------------------------------------------------------------------
(* The environment.                                                          *)

PlayerHangs ==
  /\ pipe = "open" /\ pipe' = "hung"
  /\ UNCHANGED <<feedVars, writeVars, sessionVars, sinkStop, notice,
                 mediaAlive, packetAge, polled>>

PlayerDies ==
  /\ pipe # "broken" /\ pipe' = "broken"
  /\ UNCHANGED <<feedVars, writeVars, sessionVars, sinkStop, notice,
                 mediaAlive, packetAge, polled>>

MediaTaskEnds ==
  /\ LoopFree /\ mediaAlive /\ mediaAlive' = FALSE
  /\ UNCHANGED <<feedVars, writeVars, sessionVars, sinkStop, pipe, notice,
                 packetAge, polled>>

Older(age) == IF age < AgeCap THEN age + 1 ELSE age

Tick ==
  /\ LoopFree /\ polled /\ ~stopEvent
  /\ polled' = FALSE
  /\ writeAge' = IF writeAge = None THEN None ELSE Older(writeAge)
  /\ lastWriteAge' = Older(lastWriteAge)
  /\ packetAge' = Older(packetAge)
  /\ UNCHANGED <<feedVars, headerPending, writer, written, sessionVars,
                 sinkStop, pipe, notice, mediaAlive>>

FeederStep == FeedKeep \/ FeedDrain \/ FeedDrop \/ FeedRetry
WriterStep == \/ WriterGet \/ WriterStart \/ WriterWrite \/ WriterFail
              \/ WriterExit
Environment == Packet \/ PlayerHangs \/ PlayerDies \/ MediaTaskEnds

Next ==
  \/ Feed \/ FeederStep \/ WriterStep
  \/ DeliverNotice \/ Poll \/ UserStop \/ Close
  \/ Environment \/ Tick

\* The loop and the writer thread are scheduled and time passes; nothing
\* obliges packets to arrive, the user to stop or the player to fail.
Fairness ==
  /\ WF_vars(FeederStep) /\ WF_vars(WriterStep)
  /\ WF_vars(Feed /\ nextFrame = Header)
  /\ WF_vars(DeliverNotice) /\ WF_vars(Poll) /\ WF_vars(Tick)
  /\ WF_vars(Close)

Spec == Init /\ [][Next]_vars /\ Fairness

-----------------------------------------------------------------------------
(* Properties.                                                               *)

Increasing(s) == \A i, j \in 1 .. Len(s) : i < j => s[i] < s[j]

\* The player sees access units in the order the receiver fed them, none of
\* them twice, however the drain of feed() and the writer's get() interleave.
WritesInOrder == Increasing(written)

\* feed() never sacrifices the newest access unit: when it has returned, the
\* unit it was given is queued, in the writer's hands or written, unless the
\* sink is being torn down.  This is what bounds the latency of the mirror.
NewestSurvives ==
  (feeder.pc = "idle" /\ nextFrame > Header /\ ~sinkStop) =>
     \/ \E i \in 1 .. Len(queue) : queue[i] = nextFrame - 1
     \/ writer.frame = nextFrame - 1
     \/ \E i \in 1 .. Len(written) : written[i] = nextFrame - 1

\* A feed() that overflowed leaves at most one stale access unit ahead of the
\* fresh one: a burst never turns into a backlog of visible latency.
OverflowDropsBacklog ==
  [][feeder.pc = "put" /\ feeder'.pc = "idle" => Len(queue') <= 2]_vars

\* The session blames the player only when the player is really gone: a
\* sink that is closed under a write in flight reports nothing.
CloseIsSilent == errorCode = "player_disconnected" => pipe = "broken"

\* A player that hangs or dies ends the session, whether a write is in flight
\* or the writer is idle, and whether packets keep arriving or not.
PlayerLossEndsSession == pipe # "open" ~> stopEvent

\* The comments of feed() and TODO.md: overflow preserves the codec header, so
\* it is the first thing the player reads.
HeaderFirst == written # <<>> => written[1] = Header

=============================================================================
