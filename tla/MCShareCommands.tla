--------------------------- MODULE MCShareCommands ---------------------------
(* Instances of ShareCommands for TLC: an operator may type any prefix, so *)
(* any set of keys may be the ones that start with it.                     *)
EXTENDS ShareCommands, TLC

AllPrefixes == SUBSET Keys \ {{}}

\* Processes are alike, and so are the keys that may become shares; sound for
\* the safety properties only.
Symmetry == Permutations(Procs) \cup Permutations(Keys \ EternalKeys)
==============================================================================
