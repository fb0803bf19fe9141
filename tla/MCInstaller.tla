------------------------------ MODULE MCInstaller ------------------------------
(* Two processes, an app directory, a file that is made again and one that is not. *)
EXTENDS Installer, TLC
CONSTANTS p, q, nobody, installer
MCPids == {p, q}
Symmetry == Permutations(MCPids)
=============================================================================
