----------------------------- MODULE MCSessionInput -----------------------------
(* One modifier and two letters: a modifier can change while a letter is kept, *)
(* dropped or added.                                                           *)
EXTENDS SessionInput
CONSTANTS cmd, a, b
MCMods == {cmd}
MCLetters == {a, b}
MCOneLetter == {a}
=============================================================================
