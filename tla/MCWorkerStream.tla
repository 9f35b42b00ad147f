--------------------------- MODULE MCWorkerStream ---------------------------
(* WorkerStream for TLC. *)
EXTENDS WorkerStream, TLC

Perms == Permutations(Streams) \cup Permutations(Msgs) \cup Permutations(Workers)
=============================================================================
