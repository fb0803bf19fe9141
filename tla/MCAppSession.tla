----------------------------- MODULE MCAppSession -----------------------------
(* A method of the user and the handler of an event, or two of either; a player *)
(* for each of them, and the one that is there.                                 *)
EXTENDS AppSession, TLC
CONSTANTS f, g, p, q, r, none
MCFlows == {f, g}
MCPlayers == {p, q, r}
Symmetry == Permutations(MCFlows) \cup Permutations(MCPlayers)
=============================================================================
