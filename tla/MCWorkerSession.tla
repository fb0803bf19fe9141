---------------------------- MODULE MCWorkerSession ----------------------------
(* Two sessions in a row, each with two tries at the display handshake: a    *)
(* second start can meet every state of the first session.                   *)
EXTENDS WorkerSession
=============================================================================
