----------------------------- MODULE WorkerTypes -----------------------------
(***************************************************************************)
(* Which worker may run which job (domain/model/worker_type.go).  Types    *)
(* are compared after NormalizeWorkerType: trimmed and lower-cased, which  *)
(* is folded into the constants here (two spellings of a type are one      *)
(* element).                                                               *)
(***************************************************************************)
CONSTANTS
    Types,      \* normalized type names
    ShellType,  \* "shell", the type that runs everything
    BlankType   \* the empty name

\* WorkerCanRunType: a shell worker runs every type, another worker only jobs
\* of its own type, a worker without a type nothing.
WorkerCanRunType(workerType, jobType) ==
    \/ workerType = ShellType
    \/ workerType # BlankType /\ workerType = jobType
=============================================================================
