------------------------------ MODULE MCLinuxInput ------------------------------
(* One letter, with the shortcuts' modifier and without, beside their own letter. *)
EXTENDS LinuxInput
CONSTANTS cmd, a, v
MCMods == {cmd}
MCChords == {{a}, {a, cmd}}
MCOneChord == {{a}}
=============================================================================
