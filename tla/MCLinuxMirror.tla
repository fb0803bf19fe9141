----------------------------- MODULE MCLinuxMirror -----------------------------
(* Two attempts of the handshake, of the code's four: one retry, and the last. *)
EXTENDS LinuxMirror
=============================================================================
