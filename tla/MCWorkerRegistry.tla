-------------------------- MODULE MCWorkerRegistry --------------------------
(* WorkerRegistry for TLC: one agent, and the key of another worker. *)
EXTENDS WorkerRegistry

CONSTANTS a1, k1
MCKeyOf == [a \in {a1} |-> k1]
=============================================================================
