---------------------------- MODULE JobDispatch ----------------------------
(***************************************************************************)
(* From a job request to the job's result: the HTTP handlers and the agent *)
(* tool that create, approve, dispatch and delete jobs, the jobs table of  *)
(* the Postgres repository, the push to a worker, its execution there and  *)
(* the result that comes back.                                             *)
(*                                                                         *)
(* Every request is served by a goroutine of its own.  The repository      *)
(* offers single SQL statements and no transaction, so a handler is a      *)
(* sequence of steps, one per statement, with any other step in between;   *)
(* what a handler has read may be stale when it writes.  The push goes     *)
(* over Link, which may drop and lose it and gives no acknowledgement.     *)
(***************************************************************************)
EXTENDS Naturals, Sequences, WorkerTypes

CONSTANTS
    Jobs,           \* job IDs that genID can hand out
    Workers,        \* worker IDs
    WorkerType,     \* type a worker registered with
    Requests,       \* the requests and agent tool calls of a behaviour
    Kinds,          \* the kinds of request that arrive
    Targets,        \* the lists of worker IDs that requests name
    Calls,          \* agent tool calls, as run ID and tool call ID
    Decisions,      \* what an execution of a call may find: approval needed or not
    Faults,         \* whether streams break, the server crashes, statements fail
    NoWorker, NoJob, NoCall, NoKey

RequestKinds == {"create", "agent", "dispatch", "approve", "reject", "delete"}

ASSUME ConstantsAssumption ==
    /\ Kinds \subseteq RequestKinds
    /\ Targets \subseteq Seq(Workers)
    /\ WorkerType \in [Workers -> Types]
    /\ Decisions \subseteq BOOLEAN
    /\ Faults \in BOOLEAN
    /\ NoWorker \notin Workers
    /\ NoJob \notin Jobs
    /\ NoCall \notin Calls
    /\ NoKey \notin Calls \X Workers

VARIABLES
    jobs,       \* the jobs table; a row that is not there keeps its last
                \* contents under status "unborn" or "deleted"
    registered, \* the rows of the workers table
    req,        \* the goroutine of each request: its next step and its locals
    up, inflight, received,     \* the link to the workers
    executing,  \* pushes a worker executes on behalf of its current stream
    results     \* results sent on the current stream, not yet handled

lnkVars == <<up, inflight, received>>
workVars == <<executing, results>>
vars == <<jobs, registered, req, up, inflight, received, executing, results>>

\* One push of a job to a worker: the nth one of a request.  Only properties
\* read waived: it tells that the sender has decided that no approval is needed.
Pushes == [req : Requests, nth : Nat, job : Jobs, waived : BOOLEAN]

L == INSTANCE Link WITH Msgs <- Pushes

Absent == {"unborn", "deleted"}
Dispatchable == {"pending", "queued"}
Deletable == {"pending", "queued", "waiting_approval"}
Statuses == Absent \cup Deletable \cup {"running", "success", "failed", "cancelled"}

\* The idempotency key of an agent job is its call and its worker.
Rows == [status : Statuses, type : Types \cup {BlankType}, required : BOOLEAN,
         approval : {"not_required", "pending", "approved", "rejected"},
         assigned : Workers \cup {NoWorker}, key : (Calls \X Workers) \cup {NoKey}]

NoRow == [status |-> "unborn", type |-> BlankType, required |-> FALSE,
          approval |-> "not_required", assigned |-> NoWorker, key |-> NoKey]

PCs == {"idle", "check", "select", "insert", "read", "update", "reload", "push",
        "base", "approve", "approved", "reject", "doomed", "delete", "done"}

\* todo: worker IDs still to be served, the current one first; nth: how many
\* have been served; job: the job the handler works on; row: the job value in
\* the handler's memory, of which it inserts copies.
Goroutines == [pc : PCs, kind : RequestKinds, todo : Seq(Workers), nth : Nat,
               job : Jobs \cup {NoJob}, row : Rows, call : Calls \cup {NoCall}]

TypeOK ==
    /\ jobs \in [Jobs -> Rows]
    /\ registered \in SUBSET Workers
    /\ req \in [Requests -> Goroutines]
    /\ L!LinkTypeOK
    /\ executing \in [Workers -> SUBSET Pushes]
    /\ results \in [Workers -> SUBSET Pushes]

At(step) == [pc |-> step, kind |-> "create", todo |-> <<>>, nth |-> 0,
             job |-> NoJob, row |-> NoRow, call |-> NoCall]

Init ==
    /\ jobs = [j \in Jobs |-> NoRow]
    /\ registered = Workers
    /\ req = [r \in Requests |-> At("idle")]
    /\ L!Init
    /\ executing = [w \in Workers |-> {}]
    /\ results = [w \in Workers |-> {}]

-----------------------------------------------------------------------------
(* Helpers.                                                                *)

InTable(j) == j \in Jobs /\ jobs[j].status \notin Absent

Wid(r) == Head(req[r].todo)

CanRun(w, type) == w \in registered /\ WorkerCanRunType(WorkerType[w], type)

\* Where a handler begins the work for the next worker of its list.
FirstStep(k) ==
    CASE k \in {"create", "dispatch"} -> "check"
      [] k = "agent" -> "select"
      [] OTHER -> "read"

\* The handler is done with the current worker: on to the next, or return.
NextTarget(r) ==
    req' = IF Len(req[r].todo) <= 1
           THEN [req EXCEPT ![r] = At("done")]
           ELSE [req EXCEPT ![r].pc = FirstStep(req[r].kind),
                            ![r].todo = Tail(req[r].todo),
                            ![r].nth = req[r].nth + 1]

\* An error for the current worker: the agent tool and the approval handler go
\* on with the next one, the others return with the rest of the list undone.
Fail(r) ==
    IF req[r].kind \in {"agent", "approve"} THEN NextTarget(r)
    ELSE req' = [req EXCEPT ![r] = At("done")]

Goto(r, step) == req' = [req EXCEPT ![r].pc = step]

Return(r) == req' = [req EXCEPT ![r] = At("done")]

\* A handler step that touches neither the workers nor the link.
Quiet == UNCHANGED <<registered, lnkVars, workVars>>

-----------------------------------------------------------------------------
(* Requests arrive.                                                        *)

Arrive(r, k, g) ==
    /\ req[r].pc = "idle"
    /\ k \in Kinds
    /\ req' = [req EXCEPT ![r] = [g EXCEPT !.kind = k]]
    /\ UNCHANGED jobs
    /\ Quiet

\* The job values that handleCreateJob and createModuleOperation build.  (A YAML
\* batch builds none: it renders its templates with an engine that NewServer
\* fills before any template is registered, so each request is refused.)
ManualRow(type) == [NoRow EXCEPT !.status = "pending", !.type = type]

AgentRow(approval, type) ==
    IF approval
    THEN [NoRow EXCEPT !.status = "waiting_approval", !.type = type,
                       !.required = TRUE, !.approval = "pending"]
    ELSE [NoRow EXCEPT !.status = "pending", !.type = type]

\* POST /jobs: without worker IDs one pending job is created for nobody.
ArriveCreate(r, ws, type) ==
    Arrive(r, "create", [At(IF ws = <<>> THEN "insert" ELSE "check")
        EXCEPT !.todo = ws, !.row = ManualRow(type)])

\* The agent calls its module operation tool.  ws is what remains of the IDs it
\* names once duplicates are removed and workers are skipped that do not exist
\* or cannot run the module; if nothing remains the call fails.  The same call
\* may arrive twice, and each execution decides anew, from the registry and the
\* policy of the moment, which type the module has and whether it needs approval.
ArriveAgent(r, c, ws, type, approval) ==
    /\ ws # <<>>
    /\ \A i \in DOMAIN ws : CanRun(ws[i], type)
    /\ \A i, k \in DOMAIN ws : ws[i] = ws[k] => i = k
    /\ Arrive(r, "agent", [At("select")
        EXCEPT !.todo = ws, !.row = AgentRow(approval, type), !.call = c])

\* POST /jobs/{id}/dispatch
ArriveDispatch(r, j, ws) ==
    /\ InTable(j)
    /\ ws # <<>>
    /\ Arrive(r, "dispatch", [At("base") EXCEPT !.job = j, !.todo = ws])

\* POST /approvals/jobs/{id} and DELETE /jobs/{id}
ArriveOnJob(r, k, step, j) ==
    /\ InTable(j)
    /\ Arrive(r, k, [At(step) EXCEPT !.job = j])

-----------------------------------------------------------------------------
(* The prologue of the handlers that work on an existing job.              *)

\* Mutant: the status of the base job is not checked.
MutGetBaseAnyStatus(r) ==
    LET j == req[r].job IN
    /\ req[r].pc = "base"
    /\ IF InTable(j)
       THEN req' = [req EXCEPT ![r].pc = "check",
                               ![r].row = [jobs[j] EXCEPT !.status = "pending",
                                              !.assigned = NoWorker, !.key = NoKey]]
       ELSE Return(r)
    /\ UNCHANGED jobs
    /\ Quiet

\* handleDispatchJob: GetJob and the status check.  The copy it keeps is what
\* later clones are made from; GetJob does not read the idempotency key.
GetBase(r) ==
    LET j == req[r].job IN
    /\ req[r].pc = "base"
    /\ IF InTable(j) /\ jobs[j].status \in Dispatchable
       THEN req' = [req EXCEPT ![r].pc = "check",
                               ![r].row = [jobs[j] EXCEPT !.status = "pending",
                                              !.assigned = NoWorker, !.key = NoKey]]
       ELSE Return(r)
    /\ UNCHANGED jobs
    /\ Quiet

\* Mutant: the approval status is written to the status column.
MutApproveWrongColumn(r) ==
    LET j == req[r].job IN
    /\ req[r].pc = "approve"
    /\ jobs[j].status = "waiting_approval"
    /\ jobs' = [jobs EXCEPT ![j].status = "approved"]
    /\ Goto(r, "approved")
    /\ Quiet

\* ApproveJob: one UPDATE guarded by the status.
ApproveJob(r) ==
    LET j == req[r].job IN
    /\ req[r].pc = "approve"
    /\ IF jobs[j].status = "waiting_approval"
       THEN /\ jobs' = [jobs EXCEPT ![j].status = "pending", ![j].approval = "approved"]
            /\ Goto(r, "approved")
       ELSE /\ Return(r)
            /\ UNCHANGED jobs
    /\ Quiet

\* The GetJob after it.  If the agent already assigned a worker, the handler
\* dispatches the job to it, and then, in a second copy of the same block, once
\* more: the list of workers to serve holds it twice.
GetApproved(r) ==
    LET j == req[r].job
        w == jobs[j].assigned
    IN
    /\ req[r].pc = "approved"
    /\ IF InTable(j) /\ w # NoWorker
       THEN req' = [req EXCEPT ![r].pc = "read", ![r].todo = <<w, w>>]
       ELSE Return(r)
    /\ UNCHANGED jobs
    /\ Quiet

\* RejectJob: one UPDATE guarded by the status.
RejectJob(r) ==
    LET j == req[r].job IN
    /\ req[r].pc = "reject"
    /\ jobs' = IF jobs[j].status = "waiting_approval"
               THEN [jobs EXCEPT ![j].status = "cancelled", ![j].approval = "rejected"]
               ELSE jobs
    /\ Return(r)
    /\ Quiet

\* DeleteJob: GetJob and the status check, then a DELETE that repeats neither.
GetDoomed(r) ==
    /\ req[r].pc = "doomed"
    /\ IF jobs[req[r].job].status \in Deletable
       THEN Goto(r, "delete")
       ELSE Return(r)
    /\ UNCHANGED jobs
    /\ Quiet

DeleteRow(r) ==
    LET j == req[r].job IN
    /\ req[r].pc = "delete"
    /\ jobs' = IF InTable(j) THEN [jobs EXCEPT ![j].status = "deleted"] ELSE jobs
    /\ Return(r)
    /\ Quiet

-----------------------------------------------------------------------------
(* Create the job for the current worker.                                  *)

\* GetWorker and the type check.  handleDispatchJob sends the job itself to
\* the first worker and a fresh copy to every other one.
CheckWorker(r) ==
    /\ req[r].pc = "check"
    /\ IF CanRun(Wid(r), req[r].row.type)
       THEN Goto(r, IF req[r].kind = "dispatch" /\ req[r].nth = 0 THEN "read" ELSE "insert")
       ELSE Return(r)
    /\ UNCHANGED jobs
    /\ Quiet

\* Mutant: the agent tool dispatches whatever the decision on approval was.
MutCreatedUndecided(r, j) ==
    IF req[r].todo = <<>>
    THEN NextTarget(r)
    ELSE req' = [req EXCEPT ![r].pc = "read", ![r].job = j]

\* After CreateJob: a job that needs approval by the decision of this execution,
\* or is for nobody, is not dispatched.  The job may be one that was found by
\* its key; what its row says about approval is not looked at.
Created(r, j) ==
    IF req[r].todo = <<>> \/ (req[r].kind = "agent" /\ req[r].row.required)
    THEN NextTarget(r)
    ELSE req' = [req EXCEPT ![r].pc = "read", ![r].job = j]

KeyOf(r) == IF req[r].kind = "agent" THEN <<req[r].call, Wid(r)>> ELSE NoKey

Holder(k) == {j \in Jobs : InTable(j) /\ jobs[j].key = k}

\* CreateJob with an idempotency key: look for the job that has it.
SelectByKey(r) ==
    /\ req[r].pc = "select"
    /\ \/ /\ Holder(KeyOf(r)) = {}
          /\ Goto(r, "insert")
       \/ \E j \in Holder(KeyOf(r)) : Created(r, j)
    /\ UNCHANGED jobs
    /\ Quiet

\* Mutant: no unique index on the idempotency key.
MutInsertNoIndex(r) ==
    /\ req[r].pc = "insert"
    /\ \E j \in Jobs :
        /\ jobs[j] = NoRow
        /\ jobs' = [jobs EXCEPT ![j] = [req[r].row EXCEPT
                        !.assigned = IF req[r].kind = "agent" THEN Wid(r) ELSE NoWorker,
                        !.key = KeyOf(r)]]
        /\ Created(r, j)
    /\ Quiet

\* CreateJob, the INSERT.  A unique index on the key refuses a second row with
\* the same key; the row that is there is returned instead.
InsertJob(r) ==
    /\ req[r].pc = "insert"
    /\ \/ /\ KeyOf(r) # NoKey
          /\ \E j \in Holder(KeyOf(r)) : Created(r, j)
          /\ UNCHANGED jobs
       \/ /\ KeyOf(r) = NoKey \/ Holder(KeyOf(r)) = {}
          /\ \E j \in Jobs :
              /\ jobs[j] = NoRow
              /\ jobs' = [jobs EXCEPT ![j] = [req[r].row EXCEPT
                              !.assigned = IF req[r].kind = "agent" THEN Wid(r) ELSE NoWorker,
                              !.key = KeyOf(r)]]
              /\ Created(r, j)
    /\ Quiet

-----------------------------------------------------------------------------
(* dispatchJobToWorker and the push.                                       *)

\* AssignJobToWorkers: GetJob, GetWorker and the type check ...
AssignRead(r) ==
    LET j == req[r].job IN
    /\ req[r].pc = "read"
    /\ IF InTable(j) /\ CanRun(Wid(r), jobs[j].type)
       THEN Goto(r, "update")
       ELSE Fail(r)
    /\ UNCHANGED jobs
    /\ Quiet

\* ... and the UPDATE, which has no condition on the status.
AssignUpdate(r) ==
    LET j == req[r].job IN
    /\ req[r].pc = "update"
    /\ jobs' = IF InTable(j)
               THEN [jobs EXCEPT ![j].status = "running", ![j].assigned = Wid(r)]
               ELSE jobs
    /\ Goto(r, "reload")
    /\ Quiet

\* The GetJob that returns the dispatched job.  The approval handler takes the
\* worker of its second dispatch from it.
Reload(r) ==
    LET j == req[r].job IN
    /\ req[r].pc = "reload"
    /\ IF InTable(j)
       THEN req' = [req EXCEPT ![r].pc = "push",
                      ![r].todo = IF req[r].kind = "approve" /\ Len(req[r].todo) = 2
                                  THEN <<Wid(r), jobs[j].assigned>> ELSE req[r].todo]
       ELSE Fail(r)
    /\ UNCHANGED jobs
    /\ Quiet

\* A goroutine executes a tool call and has decided that it needs no approval.
Waives(g) == g.kind = "agent" /\ ~g.row.required

\* workerHub.PushJob: the answer is only logged.
PushJob(r) ==
    /\ req[r].pc = "push"
    /\ \/ L!Accept(Wid(r), [req |-> r, nth |-> req[r].nth, job |-> req[r].job,
                            waived |-> Waives(req[r])])
       \/ /\ Faults \/ ~up[Wid(r)]
          /\ UNCHANGED lnkVars
    /\ NextTarget(r)
    /\ UNCHANGED <<jobs, registered, workVars>>

\* A statement fails and changes nothing.
StatementFails(r) ==
    /\ Faults
    /\ req[r].pc \notin {"idle", "push", "done"}
    /\ IF req[r].pc \in {"select", "insert", "read", "update", "reload"}
       THEN Fail(r) ELSE Return(r)
    /\ UNCHANGED jobs
    /\ Quiet

-----------------------------------------------------------------------------
(* The workers.                                                            *)

\* The worker receives a pushed job and starts executing it in a goroutine of
\* its own; it does not look whether it has seen the job before.
ReceiveJob(w, m) ==
    /\ L!Deliver(w, m)
    /\ executing' = [executing EXCEPT ![w] = @ \cup {m}]
    /\ UNCHANGED <<jobs, registered, req, results>>

\* The execution ends and its result is sent on the stream it came from.
SendResult(w, m) ==
    /\ m \in executing[w]
    /\ executing' = [executing EXCEPT ![w] = @ \ {m}]
    /\ results' = [results EXCEPT ![w] = @ \cup {m}]
    /\ UNCHANGED <<jobs, registered, req, lnkVars>>

\* The stream of w ends.  What was in flight on it is lost in both directions;
\* executions go on, but can no longer report.
StreamEnds(w) ==
    /\ L!Disconnect(w, inflight[w])
    /\ executing' = [executing EXCEPT ![w] = {}]
    /\ results' = [results EXCEPT ![w] = {}]

\* Mutant: the worker is not compared.
MutCompleteAnyWorker(w, j) == jobs[j].status = "running"

\* CompleteJob's condition: one UPDATE, guarded by worker and status.
MayComplete(w, j) == jobs[j].status = "running" /\ jobs[j].assigned = w

\* Mutant: the report of a failed execution is not stored.
MutHandleFailedIgnored(w, m) ==
    /\ m \in results[w]
    /\ IF MayComplete(w, m.job)
       THEN /\ jobs' \in {jobs, [jobs EXCEPT ![m.job].status = "success"]}
            /\ results' = [results EXCEPT ![w] = @ \ {m}]
            /\ UNCHANGED <<lnkVars, executing>>
       ELSE /\ StreamEnds(w)
            /\ UNCHANGED jobs
    /\ UNCHANGED <<registered, req>>

\* handleJobResult: a refused result is an error of receiveLoop, which ends
\* the whole stream.
HandleResult(w, m) ==
    /\ m \in results[w]
    /\ IF MayComplete(w, m.job)
       THEN /\ \E outcome \in {"success", "failed"} :
                  jobs' = [jobs EXCEPT ![m.job].status = outcome]
            /\ results' = [results EXCEPT ![w] = @ \ {m}]
            /\ UNCHANGED <<lnkVars, executing>>
       ELSE /\ StreamEnds(w)
            /\ UNCHANGED jobs
    /\ UNCHANGED <<registered, req>>

\* A registered worker connects, or reconnects after its stream ended.
WorkerConnects(w) ==
    /\ w \in registered
    /\ ~up[w]
    /\ L!Connect(w)
    /\ UNCHANGED <<jobs, registered, req, workVars>>

WorkerDisconnects(w) ==
    /\ Faults
    /\ up[w]
    /\ StreamEnds(w)
    /\ UNCHANGED <<jobs, registered, req>>

\* handleDeleteWorker: force_stop is pushed and the row deleted.  The worker
\* process exits when the command arrives, or its stream ends at the next
\* heartbeat; both are a later WorkerDisconnects.
DeleteWorker(w) ==
    /\ Faults
    /\ w \in registered
    /\ registered' = registered \ {w}
    /\ UNCHANGED <<jobs, req, lnkVars, workVars>>

\* The server process dies and starts again: handlers and streams are gone,
\* the tables are not.
ServerCrash ==
    /\ Faults
    /\ req' = [r \in Requests |-> IF req[r].pc = "idle" THEN req[r] ELSE At("done")]
    /\ up' = [w \in Workers |-> FALSE]
    /\ inflight' = [w \in Workers |-> {}]
    /\ executing' = [w \in Workers |-> {}]
    /\ results' = [w \in Workers |-> {}]
    /\ UNCHANGED <<jobs, registered, received>>

-----------------------------------------------------------------------------

Arrivals(r) ==
    \/ \E ws \in Targets, type \in Types :
        \/ ArriveCreate(r, ws, type)
        \/ \E c \in Calls, approval \in Decisions : ArriveAgent(r, c, ws, type, approval)
    \/ \E j \in Jobs :
        \/ \E ws \in Targets : ArriveDispatch(r, j, ws)
        \/ ArriveOnJob(r, "approve", "approve", j)
        \/ ArriveOnJob(r, "reject", "reject", j)
        \/ ArriveOnJob(r, "delete", "doomed", j)

Handler(r) ==
    \/ GetBase(r)
    \/ ApproveJob(r)
    \/ GetApproved(r)
    \/ RejectJob(r)
    \/ GetDoomed(r)
    \/ DeleteRow(r)
    \/ CheckWorker(r)
    \/ SelectByKey(r)
    \/ InsertJob(r)
    \/ AssignRead(r)
    \/ AssignUpdate(r)
    \/ Reload(r)
    \/ PushJob(r)

WorkerSide(w) ==
    \/ \E m \in inflight[w] : ReceiveJob(w, m)
    \/ \E m \in executing[w] : SendResult(w, m)
    \/ \E m \in results[w] : HandleResult(w, m)

Next ==
    \/ \E r \in Requests : Arrivals(r) \/ Handler(r) \/ StatementFails(r)
    \/ \E w \in Workers :
        \/ WorkerSide(w)
        \/ WorkerConnects(w)
        \/ WorkerDisconnects(w)
        \/ DeleteWorker(w)
    \/ ServerCrash

Spec == Init /\ [][Next]_vars

\* Goroutines of the server and of the workers run, executions end (the runner
\* enforces a timeout), results arrive.  Users owe no request.
FairSpec ==
    /\ Spec
    /\ \A r \in Requests : WF_vars(Handler(r))
    /\ \A w \in Workers :
        /\ WF_vars(\E m \in inflight[w] : ReceiveJob(w, m))
        /\ WF_vars(\E m \in executing[w] : SendResult(w, m))
        /\ WF_vars(\E m \in results[w] : HandleResult(w, m))

-----------------------------------------------------------------------------
(* Properties.                                                             *)

Cleared(j) == jobs[j].required => jobs[j].approval = "approved"

Issued(w) == inflight[w] \cup received[w]

\* A job that was created to wait for approval reaches a worker only if somebody
\* approved it, or by an execution of the same tool call that found no approval
\* to be needed any more.  No dispatch, copy, crash or race of approval and
\* rejection is another way round the gate.
ApprovalGate ==
    \A w \in Workers : \A m \in Issued(w) : Cleared(m.job) \/ m.waived

\* A rejected job stays cancelled until it is deleted: no approval, no dispatch
\* that was under way and no late result revives it.  The one thing that does is
\* an execution of its tool call that finds no approval to be needed.
RejectionStands ==
    [][\A j \in Jobs : jobs[j].status = "cancelled" =>
            \/ jobs'[j].status \in {"cancelled", "deleted"}
            \/ \E r \in Requests :
                Waives(req[r]) /\ req[r].pc = "update" /\ req[r].job = j]_vars

\* A finished job was executed by the worker its row names: the outcome shown
\* to the user is one that worker really reported, also when the job had been
\* sent to several workers.
ResultFromAssignee ==
    \A j \in Jobs : jobs[j].status \in {"success", "failed"} =>
        /\ jobs[j].assigned \in Workers
        /\ \E m \in received[jobs[j].assigned] : m.job = j

\* However often and however concurrently a tool call is repeated, it has at
\* most one job per worker.
OneJobPerKey ==
    \A i, j \in Jobs :
        InTable(i) /\ InTable(j) /\ jobs[i].key = jobs[j].key /\ jobs[i].key # NoKey => i = j

\* While nothing fails, a job whose push the hub accepted gets an outcome, unless
\* its stream ends, which is what a refused result on the same stream does: that
\* of a job dispatched twice, taken over or deleted.  No job is left running on a
\* stream that stays up.
AcceptedFinishes ==
    \A j \in Jobs, w \in Workers :
        (\E m \in inflight[w] : m.job = j)
            ~> (jobs[j].status \in {"success", "failed"} \/ ~up[w])

\* What the repository and the design say, and the code does not do.

\* "Only allow deleting jobs that haven't been dispatched": a row disappears
\* only from a status in which the job has not been sent to a worker.
DeleteOnlyUndispatched ==
    [][\A j \in Jobs : jobs'[j].status = "deleted" /\ jobs[j].status # "deleted" =>
            jobs[j].status \in Deletable]_vars

\* No duplicate dispatch: a job is pushed at most once.
DispatchedOnce ==
    \A v, w \in Workers : \A m \in Issued(v), n \in Issued(w) : m.job = n.job => m = n
=============================================================================
