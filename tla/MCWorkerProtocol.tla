---------------------------- MODULE MCWorkerProtocol ----------------------------
(* Three commands, the shutdown included, over a pipe that holds one: a      *)
(* command can be in the pipe, the next one blocked and the last one behind  *)
(* it at the lock.                                                           *)
EXTENDS WorkerProtocol
=============================================================================
