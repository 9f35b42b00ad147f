---------------------------- MODULE MCJobDispatch ----------------------------
(* JobDispatch for TLC. *)
EXTENDS JobDispatch, TLC

\* The lists of workers that requests name.
ExactlyOne == {<<w>> : w \in Workers}
AtMostOne == {<<>>} \cup ExactlyOne

AllShell == [w \in Workers |-> ShellType]

Perms == Permutations(Requests) \cup Permutations(Jobs) \cup Permutations(Workers)
=============================================================================
