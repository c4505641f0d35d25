--------------------------- MODULE MCSpeechQueue ---------------------------
(* Instances of SpeechQueue for TLC. *)
EXTENDS SpeechQueue

\* The tasks of one kind do the same things; sound for the safety runs, which
\* choose no task by name.
Symmetry == Permutations(Workers) \cup Permutations(Controls)
            \cup Permutations(Adapters)
=============================================================================
