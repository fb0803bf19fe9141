------------------------------ MODULE MCVideoSink ------------------------------
(* A queue of three, five access units and the supervision thresholds scaled   *)
(* down to one unit apart, in the order they have in the code.               *)
EXTENDS VideoSink
=============================================================================
