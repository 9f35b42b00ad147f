-------------------------- MODULE JobDispatchProofs --------------------------
(***************************************************************************)
(* Invariants of JobDispatch for any sets of jobs, workers and requests.   *)
(***************************************************************************)
EXTENDS JobDispatch, TLAPS

\* The row that a request carries when it arrives is a row.
LEMMA ArrivalRows ==
    ASSUME NEW type \in Types
    PROVE  /\ NoRow \in Rows
           /\ ManualRow(type) \in Rows
           /\ \A approval \in BOOLEAN : AgentRow(approval, type) \in Rows
<1>1. NoRow \in Rows
  BY DEF NoRow, Rows, Statuses, Absent
<1>2. ManualRow(type) \in Rows
  BY DEF ManualRow, NoRow, Rows, Statuses, Deletable
<1>3. ASSUME NEW approval \in BOOLEAN PROVE AgentRow(approval, type) \in Rows
  BY DEF AgentRow, NoRow, Rows, Statuses, Deletable
<1> QED BY <1>1, <1>2, <1>3

\* At(step) is a goroutine.
LEMMA AtTyped == \A step \in PCs : At(step) \in Goroutines
  <1>1. NoRow \in Rows
    BY DEF NoRow, Rows, Statuses, Absent
  <1> QED BY <1>1 DEF At, Goroutines, RequestKinds, PCs

\* The helpers that move a goroutine on keep its type.
LEMMA ReturnTyped ==
    ASSUME NEW r \in Requests, req \in [Requests -> Goroutines], Return(r)
    PROVE  req' \in [Requests -> Goroutines]
<1>1. At("done") \in Goroutines
  BY AtTyped DEF PCs
<1> QED BY <1>1 DEF Return

\* A handler that only moves to another step keeps its type.
LEMMA GotoTyped ==
    ASSUME NEW r \in Requests, req \in [Requests -> Goroutines],
           NEW step \in PCs, Goto(r, step)
    PROVE  req' \in [Requests -> Goroutines]
  BY DEF Goto, Goroutines

\* So does one that goes on to the next worker of its list, or returns.
LEMMA NextTargetTyped ==
    ASSUME NEW r \in Requests, req \in [Requests -> Goroutines], NextTarget(r)
    PROVE  req' \in [Requests -> Goroutines]
<1>1. CASE Len(req[r].todo) <= 1
  <2>1. At("done") \in Goroutines
    BY AtTyped DEF PCs
  <2> QED BY <1>1, <2>1 DEF NextTarget
<1>2. CASE ~(Len(req[r].todo) <= 1)
  <2>1. FirstStep(req[r].kind) \in PCs
    BY DEF FirstStep, PCs
  <2>2. Tail(req[r].todo) \in Seq(Workers)
    BY <1>2 DEF Goroutines
  <2>3. req[r].nth + 1 \in Nat
    BY DEF Goroutines
  <2> QED BY <1>2, <2>1, <2>2, <2>3 DEF NextTarget, Goroutines
<1> QED BY <1>1, <1>2

\* An error for the current worker leaves the goroutine well typed, whether the
\* handler returns or goes on.
LEMMA FailTyped ==
    ASSUME NEW r \in Requests, req \in [Requests -> Goroutines], Fail(r)
    PROVE  req' \in [Requests -> Goroutines]
  BY ReturnTyped, NextTargetTyped DEF Fail, Return

-----------------------------------------------------------------------------
(* The inductive invariant.                                                *)

RowCleared(row) == row.required => row.approval = "approved"

\* A row that may be dispatched by hand is cleared; one that waits for a decision,
\* or was refused, is not.  A row that runs or has ended may be either: a repeated
\* tool call can have sent it without approval.
RowConsistent(row) ==
    /\ row.status \in {"pending", "queued"} => RowCleared(row)
    /\ row.status = "waiting_approval" => row.required /\ row.approval = "pending"
    /\ row.status = "cancelled" => row.required /\ row.approval = "rejected"

TableInv == \A j \in Jobs : RowConsistent(jobs[j])

\* A job that is in the table, or once was.
Known(j) == j \in Jobs /\ jobs[j].status # "unborn"

\* Such a job that may be sent to workers by anybody.
Sendable(j) == j \in Jobs /\ jobs[j].status # "unborn" /\ RowCleared(jobs[j])

Inserting == {"check", "select", "insert", "read", "update", "reload", "push"}
Sending == {"read", "update", "reload", "push"}

\* Which handlers take which steps.
StepsInv(g) ==
    /\ g.pc \in {"select"} => g.kind = "agent"
    /\ g.pc \in {"check", "select", "insert"} => g.kind \in {"create", "agent", "dispatch"}
    /\ g.pc \in Sending => g.kind \in {"create", "agent", "dispatch", "approve"}
    /\ g.pc \in {"approve", "approved"} => g.kind = "approve"
    /\ g.pc = "base" => g.kind = "dispatch"

\* The list of workers is not empty where its head is used.
TodoInv(g) ==
    /\ g.pc \in {"check", "select", "base"} \cup Sending => g.todo # <<>>
    /\ g.kind \in {"agent", "dispatch"} /\ g.pc \in Inserting => g.todo # <<>>

\* The job value in memory is one that may be inserted.
MemoryInv(g) ==
    /\ g.kind = "agent" /\ g.pc \in Inserting =>
            /\ g.call \in Calls
            /\ g.row.status = IF g.row.required THEN "waiting_approval" ELSE "pending"
            /\ g.row.required => g.row.approval = "pending"
    /\ g.kind \in {"create", "dispatch"} /\ g.pc \in Inserting =>
            g.row.status = "pending" /\ RowCleared(g.row)

\* The job in hand exists, and is sendable once it is about to be sent, unless the
\* sender has waived the approval.
JobInv(g) ==
    /\ g.pc \in Sending \cup {"approved"} => Known(g.job) /\ (~Waives(g) => Sendable(g.job))
    /\ g.kind = "dispatch" /\ g.pc \in Inserting => Sendable(g.job)
    /\ g.kind = "approve" /\ g.pc \in Sending => jobs[g.job].assigned # NoWorker
    /\ g.pc \in {"base", "approve", "reject", "doomed", "delete"} =>
            g.job \in Jobs /\ jobs[g.job].status # "unborn"

GoroutineInv(g) == StepsInv(g) /\ TodoInv(g) /\ MemoryInv(g) /\ JobInv(g)

GoroutinesInv == \A r \in Requests : GoroutineInv(req[r])

\* Pushes are of sendable jobs unless approval was waived, and only what a worker received is executed.
PushInv ==
    \A w \in Workers :
        /\ \A m \in Issued(w) : Known(m.job) /\ (~m.waived => Sendable(m.job))
        /\ executing[w] \subseteq received[w]
        /\ results[w] \subseteq received[w]

IInv == TypeOK /\ TableInv /\ GoroutinesInv /\ PushInv /\ ResultFromAssignee /\ OneJobPerKey

-----------------------------------------------------------------------------
(* What the steps of one goroutine leave to the others.                    *)

\* What no step undoes: a job that exists has existed, a job that may be sent
\* may be sent for good, a job that was assigned stays assigned.
Grows ==
    \A j \in Jobs :
        /\ jobs[j].status # "unborn" => jobs'[j].status # "unborn"
        /\ Sendable(j) => Sendable(j)'
        /\ jobs[j].assigned # NoWorker => jobs'[j].assigned # NoWorker

\* The part of the invariant that speaks of the jobs table alone.
JobsInv == jobs \in [Jobs -> Rows] /\ TableInv /\ OneJobPerKey

\* Goroutine r takes a step to a good state and the others stay where they are.
MovesOnly(r) ==
    /\ req' \in [Requests -> Goroutines]
    /\ \A q \in Requests \ {r} : req'[q] = req[q]
    /\ GoroutineInv(req[r])'

\* A goroutine that stays where it is keeps its invariant when the table grows.
LEMMA Bystander ==
    ASSUME NEW g \in Goroutines, GoroutineInv(g), Grows
    PROVE  StepsInv(g) /\ TodoInv(g) /\ MemoryInv(g)
           /\ (g.pc \in Sending \cup {"approved"} => Known(g.job)' /\ (~Waives(g) => Sendable(g.job)'))
           /\ (g.kind = "dispatch" /\ g.pc \in Inserting => Sendable(g.job)')
           /\ (g.kind = "approve" /\ g.pc \in Sending => jobs'[g.job].assigned # NoWorker)
           /\ (g.pc \in {"base", "approve", "reject", "doomed", "delete"} =>
                    g.job \in Jobs /\ jobs'[g.job].status # "unborn")
  BY DEF GoroutineInv, JobInv, Grows, Sendable, Known, Waives, Sending

\* If goroutine r moves to a good state and the table only grows, all
\* goroutines are in good states.
LEMMA GoroutinesFrame ==
    ASSUME NEW r \in Requests, req \in [Requests -> Goroutines], GoroutinesInv, Grows, MovesOnly(r)
    PROVE  GoroutinesInv'
<1> SUFFICES ASSUME NEW q \in Requests PROVE GoroutineInv(req[q])'
  BY DEF GoroutinesInv
<1>1. CASE q = r
  BY <1>1 DEF MovesOnly
<1>2. CASE q # r
  <2>1. req'[q] = req[q]
    BY <1>2 DEF MovesOnly
  <2>2. req[q] \in Goroutines /\ GoroutineInv(req[q])
    BY DEF GoroutinesInv
  <2> QED BY <2>1, <2>2, Bystander DEF GoroutineInv, StepsInv, TodoInv, MemoryInv, JobInv, Sendable, Known, Waives, RowCleared
<1> QED BY <1>1, <1>2

\* A step of a handler that touches neither workers nor link keeps the
\* invariant if it is good for the table and for the goroutine, and turns no
\* job into a finished one.
LEMMA QuietFrame ==
    ASSUME IInv, NEW r \in Requests, Quiet, Grows, MovesOnly(r), JobsInv',
           \A j \in Jobs : jobs'[j].status \in {"success", "failed"} => jobs'[j] = jobs[j]
    PROVE  IInv'
<1>1. TypeOK'
  BY DEF IInv, TypeOK, Quiet, JobsInv, MovesOnly, lnkVars, workVars, L!LinkTypeOK
<1>2. GoroutinesInv'
  BY GoroutinesFrame DEF IInv, TypeOK
<1>3. PushInv'
  BY DEF IInv, TypeOK, PushInv, Issued, Quiet, lnkVars, workVars, Grows, Pushes, Sendable, Known, Waives, RowCleared
<1>4. ResultFromAssignee'
  BY DEF IInv, ResultFromAssignee, Quiet, lnkVars
<1> QED BY <1>1, <1>2, <1>3, <1>4 DEF IInv, JobsInv

\* The same for a step that only reads the table.
LEMMA ReadFrame ==
    ASSUME IInv, NEW r \in Requests, Quiet, UNCHANGED jobs, MovesOnly(r)
    PROVE  IInv'
<1>1. Grows
  BY DEF Grows, Sendable, Known, Waives, RowCleared
<1>2. JobsInv'
  BY DEF IInv, TypeOK, JobsInv, TableInv, RowConsistent, RowCleared, OneJobPerKey, InTable
<1> QED BY <1>1, <1>2, QuietFrame

\* Returning is always good.
LEMMA ReturnMoves ==
    ASSUME NEW r \in Requests, req \in [Requests -> Goroutines], Return(r)
    PROVE  MovesOnly(r)
<1>1. req' \in [Requests -> Goroutines]
  BY ReturnTyped
<1>2. req'[r] = At("done") /\ \A q \in Requests \ {r} : req'[q] = req[q]
  BY DEF Return
<1>3. GoroutineInv(req[r])'
  BY <1>2 DEF At, GoroutineInv, StepsInv, TodoInv, MemoryInv, JobInv, Sending, Inserting
<1> QED BY <1>1, <1>2, <1>3 DEF MovesOnly

\* So is going on with the next worker, from any step of the work for one.
LEMMA NextTargetMoves ==
    ASSUME NEW r \in Requests, req \in [Requests -> Goroutines], GoroutineInv(req[r]), Grows,
           req[r].pc \in Inserting, NextTarget(r)
    PROVE  MovesOnly(r)
<1>1. CASE Len(req[r].todo) <= 1
  BY <1>1, ReturnMoves DEF NextTarget, Return
<1>2. CASE ~(Len(req[r].todo) <= 1)
  <2> DEFINE g == req[r]
  <2>1. req' \in [Requests -> Goroutines]
    BY NextTargetTyped
  <2>2. /\ req'[r] = [g EXCEPT !.pc = FirstStep(g.kind), !.todo = Tail(g.todo), !.nth = g.nth + 1]
        /\ \A q \in Requests \ {r} : req'[q] = req[q]
    BY <1>2 DEF NextTarget, Goroutines
  <2>3. g \in Goroutines
    OBVIOUS
  <2>4. /\ req'[r].pc = FirstStep(g.kind)
        /\ req'[r].todo = Tail(g.todo)
        /\ req'[r].kind = g.kind /\ req'[r].job = g.job
        /\ req'[r].row = g.row /\ req'[r].call = g.call
    BY <2>2, <2>3 DEF Goroutines
  <2>5. Tail(g.todo) # <<>>
    <3>1. g.todo \in Seq(Workers)
      BY <2>3 DEF Goroutines
    <3>2. Len(Tail(g.todo)) = Len(g.todo) - 1 /\ Len(g.todo) > 1
      BY <1>2, <3>1
    <3> QED BY <3>2
  <2>6. g.kind \in {"create", "agent", "dispatch", "approve"}
        /\ (g.kind = "approve" => g.pc \in Sending)
    BY DEF GoroutineInv, StepsInv, Inserting, Sending
  <2>7. FirstStep(g.kind) \in Inserting
        /\ (FirstStep(g.kind) \in Sending => g.kind = "approve")
    BY <2>6 DEF FirstStep, Inserting, Sending
  <2>8. StepsInv(req[r])'
    BY <2>4, <2>6, <2>7 DEF StepsInv, FirstStep, Sending
  <2>9. TodoInv(req[r])'
    BY <2>4, <2>5 DEF TodoInv
  <2>10. MemoryInv(req[r])'
    BY <2>4, <2>7 DEF MemoryInv, GoroutineInv, RowCleared
  <2>11. JobInv(req[r])'
    <3>0. g.kind \in {"approve", "dispatch"} =>
              /\ Sendable(g.job)
              /\ g.kind = "approve" => jobs[g.job].assigned # NoWorker
      BY <2>6 DEF GoroutineInv, JobInv, Waives
    <3>1. g.kind \in {"approve", "dispatch"} =>
              /\ jobs'[g.job].status # "unborn" /\ RowCleared(jobs'[g.job]) /\ g.job \in Jobs
              /\ g.kind = "approve" => jobs'[g.job].assigned # NoWorker
      BY <3>0 DEF Grows, Sendable, Known, Waives, RowCleared
    <3>2. FirstStep(g.kind) \notin {"approved", "base", "approve", "reject", "doomed", "delete"}
      BY <2>7 DEF Inserting
    <3> QED BY <2>4, <2>7, <3>1, <3>2 DEF JobInv, Sendable, Known, Waives, RowCleared
  <2> QED BY <2>1, <2>2, <2>8, <2>9, <2>10, <2>11 DEF MovesOnly, GoroutineInv
<1> QED BY <1>1, <1>2

\* A failing step moves the handler to its next worker or to its end.
LEMMA FailMoves ==
    ASSUME NEW r \in Requests, req \in [Requests -> Goroutines], GoroutineInv(req[r]), Grows,
           req[r].pc \in Inserting, Fail(r)
    PROVE  MovesOnly(r)
  BY ReturnMoves, NextTargetMoves DEF Fail, Return

-----------------------------------------------------------------------------
(* Every action preserves the invariant.                                   *)

\* A request arrives with everything its first step needs.
LEMMA ArrivalsPreserve ==
    ASSUME IInv, NEW r \in Requests, Arrivals(r)
    PROVE  IInv'
<1>0. req \in [Requests -> Goroutines]
  BY DEF IInv, TypeOK
<1>b. NoRow \in Rows
  BY DEF NoRow, Rows, Statuses, Absent
<1>a. ASSUME NEW g \in Goroutines, NEW k \in RequestKinds, Arrive(r, k, g),
             GoroutineInv([g EXCEPT !.kind = k])
      PROVE  IInv'
  <2>1. [g EXCEPT !.kind = k] \in Goroutines
    BY DEF Goroutines
  <2>2. req'[r] = [g EXCEPT !.kind = k] /\ \A q \in Requests \ {r} : req'[q] = req[q]
    BY <1>0, <1>a DEF Arrive
  <2>3. req' \in [Requests -> Goroutines]
    BY <1>0, <1>a, <2>1 DEF Arrive
  <2>4. GoroutineInv(req[r])'
    BY <1>a, <2>2 DEF Arrive, GoroutineInv, StepsInv, TodoInv, MemoryInv, JobInv, Sendable, Known, Waives, RowCleared
  <2> QED BY <1>a, <2>2, <2>3, <2>4, ReadFrame DEF Arrive, MovesOnly
<1>1. ASSUME NEW ws \in Targets, NEW type \in Types, ArriveCreate(r, ws, type) PROVE IInv'
  <2> DEFINE g == [At(IF ws = <<>> THEN "insert" ELSE "check") EXCEPT !.todo = ws, !.row = ManualRow(type)]
  <2>1. g \in Goroutines
    <3>1. ws \in Seq(Workers) /\ ManualRow(type) \in Rows
      BY ArrivalRows, ConstantsAssumption
    <3> QED BY <3>1 DEF Goroutines, At, PCs, RequestKinds
  <2>2. GoroutineInv([g EXCEPT !.kind = "create"])
    BY DEF GoroutineInv, StepsInv, TodoInv, MemoryInv, JobInv, Sending, Inserting, At, ManualRow, NoRow, RowCleared
  <2> QED BY <1>a, <1>1, <2>1, <2>2 DEF ArriveCreate, RequestKinds
<1>3. ASSUME NEW ws \in Targets, NEW type \in Types, NEW c \in Calls, NEW approval \in Decisions,
             ArriveAgent(r, c, ws, type, approval)
      PROVE  IInv'
  <2> DEFINE g == [At("select") EXCEPT !.todo = ws, !.row = AgentRow(approval, type), !.call = c]
  <2>1. g \in Goroutines
    <3>1. ws \in Seq(Workers) /\ AgentRow(approval, type) \in Rows
      BY ArrivalRows, ConstantsAssumption
    <3> QED BY <3>1 DEF Goroutines, At, PCs, RequestKinds
  <2>2. GoroutineInv([g EXCEPT !.kind = "agent"])
    BY <1>3, ConstantsAssumption DEF ArriveAgent, GoroutineInv, StepsInv, TodoInv, MemoryInv, JobInv,
        Sending, Inserting, At, AgentRow, NoRow
  <2> QED BY <1>a, <1>3, <2>1, <2>2 DEF ArriveAgent, RequestKinds
<1>4. ASSUME NEW ws \in Targets, NEW j \in Jobs, ArriveDispatch(r, j, ws) PROVE IInv'
  <2> DEFINE g == [At("base") EXCEPT !.job = j, !.todo = ws]
  <2>1. g \in Goroutines
    <3>1. ws \in Seq(Workers)
      BY ConstantsAssumption
    <3> QED BY <1>b, <3>1 DEF Goroutines, At, PCs, RequestKinds
  <2>2. GoroutineInv([g EXCEPT !.kind = "dispatch"])
    BY <1>4 DEF ArriveDispatch, InTable, Absent, GoroutineInv, StepsInv, TodoInv, MemoryInv, JobInv,
        Sending, Inserting, At
  <2> QED BY <1>a, <1>4, <2>1, <2>2 DEF ArriveDispatch, RequestKinds
<1>5. ASSUME NEW j \in Jobs, NEW k \in {"approve", "reject", "delete"},
             NEW step \in {"approve", "reject", "doomed"}, step = "approve" => k = "approve",
             ArriveOnJob(r, k, step, j)
      PROVE  IInv'
  <2> DEFINE g == [At(step) EXCEPT !.job = j]
  <2>1. g \in Goroutines
    <3>1. At(step) \in Goroutines
      BY AtTyped DEF PCs
    <3> QED BY <3>1 DEF Goroutines
  <2>2. GoroutineInv([g EXCEPT !.kind = k])
    BY <1>5 DEF ArriveOnJob, InTable, Absent, GoroutineInv, StepsInv, TodoInv, MemoryInv, JobInv,
        Sending, Inserting, At
  <2> QED BY <1>a, <1>5, <2>1, <2>2 DEF ArriveOnJob, RequestKinds
<1> QED BY <1>1, <1>3, <1>4, <1>5 DEF Arrivals

\* A Goto keeps everything but the step.
LEMMA GotoFields ==
    ASSUME NEW r \in Requests, req \in [Requests -> Goroutines], NEW step \in PCs, Goto(r, step)
    PROVE  /\ req' \in [Requests -> Goroutines]
           /\ \A q \in Requests \ {r} : req'[q] = req[q]
           /\ req'[r].pc = step
           /\ req'[r].kind = req[r].kind /\ req'[r].todo = req[r].todo
           /\ req'[r].job = req[r].job /\ req'[r].row = req[r].row
           /\ req'[r].call = req[r].call
<1>1. req' \in [Requests -> Goroutines]
  BY GotoTyped
<1>2. req'[r] = [req[r] EXCEPT !.pc = step] /\ \A q \in Requests \ {r} : req'[q] = req[q]
  BY DEF Goto
<1>3. req[r] \in Goroutines
  OBVIOUS
<1> QED BY <1>1, <1>2, <1>3 DEF Goroutines

\* A table that does not change grows.
LEMMA GrowsUnchanged == UNCHANGED jobs => Grows
  BY DEF Grows, Sendable, Known, Waives, RowCleared

\* The steps that only read the table.
LEMMA GetBasePreserves ==
    ASSUME IInv, NEW r \in Requests, GetBase(r)
    PROVE  IInv'
<1> DEFINE g == req[r]
           j == g.job
           base == [jobs[j] EXCEPT !.status = "pending", !.assigned = NoWorker, !.key = NoKey]
<1>0. req \in [Requests -> Goroutines] /\ g \in Goroutines /\ GoroutineInv(g) /\ jobs \in [Jobs -> Rows] /\ TableInv
  BY DEF IInv, TypeOK, GoroutinesInv
<1>1. CASE InTable(j) /\ jobs[j].status \in Dispatchable
  <2>1. jobs[j] \in Rows /\ RowCleared(jobs[j]) /\ Sendable(j)
    BY <1>0, <1>1 DEF InTable, TableInv, RowConsistent, Dispatchable, Sendable, Known, Waives, Absent
  <2>2. base \in Rows /\ base.status = "pending" /\ RowCleared(base)
    BY <2>1 DEF Rows, RowCleared, Statuses, Deletable
  <2> HIDE DEF base
  <2>3. req' = [req EXCEPT ![r].pc = "check", ![r].row = base]
    BY <1>1 DEF GetBase, base
  <2>4. req' \in [Requests -> Goroutines] /\ \A q \in Requests \ {r} : req'[q] = req[q]
    BY <1>0, <2>2, <2>3 DEF Goroutines, PCs
  <2>5. req'[r].pc = "check" /\ req'[r].row = base /\ req'[r].kind = g.kind /\ req'[r].todo = g.todo
        /\ req'[r].job = j
    BY <1>0, <2>3 DEF Goroutines
  <2>6. g.kind = "dispatch" /\ g.todo # <<>>
    BY <1>0 DEF GetBase, GoroutineInv, StepsInv, TodoInv
  <2>7. Sendable(j)'
    BY <2>1, <2>5 DEF GetBase, Sendable, Known, Waives, RowCleared
  <2>8. GoroutineInv(req[r])'
    BY <2>2, <2>5, <2>6, <2>7 DEF GoroutineInv, StepsInv, TodoInv, MemoryInv, JobInv, Sending, Sendable, Known, Waives, RowCleared
  <2> QED BY <2>4, <2>8, ReadFrame DEF GetBase, MovesOnly
<1>2. CASE ~(InTable(j) /\ jobs[j].status \in Dispatchable)
  BY <1>0, <1>2, ReturnMoves, ReadFrame DEF GetBase
<1> QED BY <1>1, <1>2

\* The reload in handleApproveJob, which takes over the assigned worker.
LEMMA GetApprovedPreserves ==
    ASSUME IInv, NEW r \in Requests, GetApproved(r)
    PROVE  IInv'
<1> DEFINE g == req[r]
           j == g.job
           w == jobs[j].assigned
<1>0. req \in [Requests -> Goroutines] /\ g \in Goroutines /\ GoroutineInv(g) /\ jobs \in [Jobs -> Rows]
  BY DEF IInv, TypeOK, GoroutinesInv
<1>1. CASE InTable(j) /\ w # NoWorker
  <2>1. w \in Workers /\ Sendable(j)
    BY <1>0, <1>1 DEF GetApproved, InTable, Rows, GoroutineInv, JobInv, StepsInv, Waives
  <2>2. <<w, w>> \in Seq(Workers) /\ <<w, w>> # <<>>
    BY <2>1
  <2>3. req' = [req EXCEPT ![r].pc = "read", ![r].todo = <<w, w>>]
    BY <1>1 DEF GetApproved
  <2>4. req' \in [Requests -> Goroutines] /\ \A q \in Requests \ {r} : req'[q] = req[q]
    BY <1>0, <2>2, <2>3 DEF Goroutines, PCs
  <2>5. req'[r].pc = "read" /\ req'[r].kind = g.kind /\ req'[r].todo = <<w, w>> /\ req'[r].job = j
    BY <1>0, <2>3 DEF Goroutines
  <2>6. g.kind = "approve"
    BY <1>0 DEF GetApproved, GoroutineInv, StepsInv
  <2>7. Sendable(j)' /\ jobs'[j].assigned # NoWorker
    BY <1>1, <2>1, <2>5 DEF GetApproved, Sendable, Known, Waives, RowCleared
  <2>8. GoroutineInv(req[r])'
    BY <2>2, <2>5, <2>6, <2>7 DEF GoroutineInv, StepsInv, TodoInv, MemoryInv, JobInv, Sending, Sendable, Known, Waives, RowCleared
  <2> QED BY <2>4, <2>8, ReadFrame DEF GetApproved, MovesOnly
<1>2. CASE ~(InTable(j) /\ w # NoWorker)
  BY <1>0, <1>2, ReturnMoves, ReadFrame DEF GetApproved
<1> QED BY <1>1, <1>2

\* The read and check of DeleteJob.
LEMMA GetDoomedPreserves ==
    ASSUME IInv, NEW r \in Requests, GetDoomed(r)
    PROVE  IInv'
<1>0. req \in [Requests -> Goroutines] /\ GoroutineInv(req[r])
  BY DEF IInv, TypeOK, GoroutinesInv
<1>1. CASE Goto(r, "delete")
  <2>1. req[r].job \in Jobs /\ jobs[req[r].job].status # "unborn"
    BY <1>0 DEF GetDoomed, GoroutineInv, JobInv
  <2> QED BY <1>0, <1>1, <2>1, GotoFields, ReadFrame DEF GetDoomed, MovesOnly, PCs,
        GoroutineInv, StepsInv, TodoInv, MemoryInv, JobInv, Sending, Inserting
<1>2. CASE Return(r)
  BY <1>0, <1>2, ReturnMoves, ReadFrame DEF GetDoomed
<1> QED BY <1>1, <1>2 DEF GetDoomed

\* GetWorker and the type check of the create and dispatch handlers.
LEMMA CheckWorkerPreserves ==
    ASSUME IInv, NEW r \in Requests, CheckWorker(r)
    PROVE  IInv'
<1> DEFINE next == IF req[r].kind = "dispatch" /\ req[r].nth = 0 THEN "read" ELSE "insert"
<1>0. req \in [Requests -> Goroutines] /\ GoroutineInv(req[r])
  BY DEF IInv, TypeOK, GoroutinesInv
<1>1. CASE Goto(r, next)
  <2>1. next \in {"read", "insert"} /\ next \in PCs /\ (next = "read" => req[r].kind = "dispatch")
    BY DEF PCs
  <2> HIDE DEF next
  <2>2. req[r].kind = "dispatch" => Sendable(req[r].job)'
    <3>1. req'[r].job = req[r].job /\ (req[r].kind = "dispatch" => Sendable(req[r].job))
      BY <1>0, <1>1, <2>1, GotoFields DEF CheckWorker, GoroutineInv, JobInv, Inserting
    <3> QED BY <3>1 DEF CheckWorker, Sendable, Known, Waives, RowCleared
  <2>3. MovesOnly(r)
    BY <1>0, <1>1, <2>1, <2>2, GotoFields DEF CheckWorker, MovesOnly,
        GoroutineInv, StepsInv, TodoInv, MemoryInv, JobInv, Sending, Inserting, Sendable, Known, Waives, RowCleared
  <2> QED BY <2>3, ReadFrame DEF CheckWorker
<1>2. CASE Return(r)
  BY <1>0, <1>2, ReturnMoves, ReadFrame DEF CheckWorker
<1> QED BY <1>1, <1>2 DEF CheckWorker

\* The reads of AssignJobToWorkers.
LEMMA AssignReadPreserves ==
    ASSUME IInv, NEW r \in Requests, AssignRead(r)
    PROVE  IInv'
<1>0. req \in [Requests -> Goroutines] /\ GoroutineInv(req[r]) /\ req[r].pc = "read"
  BY DEF IInv, TypeOK, GoroutinesInv, AssignRead
<1>1. CASE Goto(r, "update")
  <2>1. /\ Known(req[r].job)' /\ (~Waives(req[r]) => Sendable(req[r].job)')
        /\ req[r].kind = "approve" => jobs'[req[r].job].assigned # NoWorker
        /\ req[r].kind = "dispatch" => Sendable(req[r].job)'
    <3>1. req'[r].job = req[r].job
      BY <1>0, <1>1, GotoFields DEF PCs
    <3> QED BY <1>0, <3>1 DEF AssignRead, GoroutineInv, JobInv, Sending, Sendable, Known, Waives, RowCleared
  <2>2. MovesOnly(r)
    BY <1>0, <1>1, <2>1, GotoFields DEF MovesOnly, PCs,
        GoroutineInv, StepsInv, TodoInv, MemoryInv, JobInv, Sending, Inserting, Sendable, Known, Waives, RowCleared
  <2> QED BY <2>2, ReadFrame DEF AssignRead
<1>2. CASE Fail(r)
  <2>1. Grows /\ req[r].pc \in Inserting
    BY <1>0, GrowsUnchanged DEF AssignRead, Inserting
  <2> QED BY <1>0, <1>2, <2>1, FailMoves, ReadFrame DEF AssignRead
<1> QED BY <1>1, <1>2 DEF AssignRead

\* The GetJob at the end of dispatchJobToWorker.
LEMMA ReloadPreserves ==
    ASSUME IInv, NEW r \in Requests, Reload(r)
    PROVE  IInv'
<1> DEFINE g == req[r]
           j == g.job
           rest == IF g.kind = "approve" /\ Len(g.todo) = 2 THEN <<Wid(r), jobs[j].assigned>> ELSE g.todo
<1>0. req \in [Requests -> Goroutines] /\ g \in Goroutines /\ GoroutineInv(g) /\ jobs \in [Jobs -> Rows]
      /\ g.pc = "reload"
  BY DEF IInv, TypeOK, GoroutinesInv, Reload
<1>1. CASE InTable(j)
  <2>1. /\ Known(j) /\ (~Waives(g) => Sendable(j)) /\ g.todo # <<>>
        /\ g.kind = "approve" => jobs[j].assigned # NoWorker
    BY <1>0 DEF GoroutineInv, JobInv, TodoInv, Sending
  <2>2. jobs[j].assigned \in Workers \cup {NoWorker}
    BY <1>0, <2>1 DEF Sendable, Known, Waives, Rows
  <2>3. g.todo \in Seq(Workers) /\ Wid(r) \in Workers
    BY <1>0, <2>1 DEF Goroutines, Wid
  <2>4. rest \in Seq(Workers) /\ rest # <<>>
    BY <2>1, <2>2, <2>3
  <2>5. req' = [req EXCEPT ![r].pc = "push", ![r].todo = rest]
    BY <1>1 DEF Reload
  <2> HIDE DEF rest
  <2>6. req' \in [Requests -> Goroutines] /\ \A q \in Requests \ {r} : req'[q] = req[q]
    BY <1>0, <2>4, <2>5 DEF Goroutines, PCs
  <2>7. req'[r].pc = "push" /\ req'[r].kind = g.kind /\ req'[r].todo = rest /\ req'[r].job = j
        /\ req'[r].row = g.row /\ req'[r].call = g.call
    BY <1>0, <2>5 DEF Goroutines
  <2>8. /\ Known(j)' /\ (~Waives(g) => Sendable(j)')
        /\ g.kind = "approve" => jobs'[j].assigned # NoWorker
    BY <2>1, <2>7 DEF Reload, Sendable, Known, Waives, RowCleared
  <2>9. GoroutineInv(req[r])'
    BY <1>0, <2>4, <2>7, <2>8 DEF GoroutineInv, StepsInv, TodoInv, MemoryInv, JobInv, Sending, Inserting,
        Sendable, Known, Waives, RowCleared
  <2> QED BY <2>6, <2>9, ReadFrame DEF Reload, MovesOnly
<1>2. CASE ~InTable(j)
  <2>1. Grows /\ g.pc \in Inserting
    BY <1>0, GrowsUnchanged DEF Reload, Inserting
  <2> QED BY <1>0, <1>2, <2>1, FailMoves, ReadFrame DEF Reload
<1> QED BY <1>1, <1>2

\* A failing statement, at any step of any handler.
LEMMA StatementFailsPreserves ==
    ASSUME IInv, NEW r \in Requests, StatementFails(r)
    PROVE  IInv'
<1>0. req \in [Requests -> Goroutines] /\ GoroutineInv(req[r]) /\ Grows
  BY GrowsUnchanged DEF IInv, TypeOK, GoroutinesInv, StatementFails
<1>1. CASE req[r].pc \in {"select", "insert", "read", "update", "reload"}
  <2>1. req[r].pc \in Inserting /\ Fail(r)
    BY <1>1 DEF StatementFails, Inserting
  <2> QED BY <1>0, <2>1, FailMoves, ReadFrame DEF StatementFails
<1>2. CASE Return(r)
  BY <1>0, <1>2, ReturnMoves, ReadFrame DEF StatementFails
<1> QED BY <1>1, <1>2 DEF StatementFails

\* The steps that write to the table.  An UPDATE of a row in the table is good
\* if it leaves the row consistent and does not withdraw a clearance.
LEMMA UpdateRow ==
    ASSUME JobsInv, NEW j \in Jobs, InTable(j), NEW row \in Rows,
           jobs' = [jobs EXCEPT ![j] = row],
           row.status # "unborn", RowConsistent(row),
           row.key = jobs[j].key, row.required = jobs[j].required,
           RowCleared(jobs[j]) => RowCleared(row),
           jobs[j].assigned # NoWorker => row.assigned # NoWorker
    PROVE  Grows /\ JobsInv'
<1>1. jobs' \in [Jobs -> Rows] /\ jobs'[j] = row /\ \A i \in Jobs : i # j => jobs'[i] = jobs[i]
  BY DEF JobsInv
<1>2. Grows
  BY <1>1 DEF Grows, Sendable, Known, Waives, RowCleared
<1>3. TableInv'
  <2> SUFFICES ASSUME NEW i \in Jobs PROVE RowConsistent(jobs'[i])
    BY DEF TableInv, RowConsistent, RowCleared
  <2>1. CASE i = j
    BY <1>1, <2>1 DEF JobsInv, TableInv
  <2>2. CASE i # j
    BY <1>1, <2>2 DEF JobsInv, TableInv
  <2> QED BY <2>1, <2>2
<1>4. OneJobPerKey'
  BY <1>1 DEF JobsInv, OneJobPerKey, InTable, Absent
<1> QED BY <1>1, <1>2, <1>3, <1>4 DEF JobsInv

\* The guarded UPDATE of ApproveJob: the only way to "approved".
LEMMA ApproveJobPreserves ==
    ASSUME IInv, NEW r \in Requests, ApproveJob(r)
    PROVE  IInv'
<1> DEFINE g == req[r]
           j == g.job
           row == [jobs[j] EXCEPT !.status = "pending", !.approval = "approved"]
<1>0. req \in [Requests -> Goroutines] /\ g \in Goroutines /\ GoroutineInv(g) /\ JobsInv
      /\ j \in Jobs /\ jobs[j] \in Rows /\ g.kind = "approve" /\ g.pc = "approve"
  BY DEF IInv, TypeOK, GoroutinesInv, JobsInv, ApproveJob, GoroutineInv, JobInv, StepsInv
<1>1. CASE jobs[j].status = "waiting_approval"
  <2>1. row \in Rows /\ row.status = "pending" /\ row.approval = "approved" /\ row.key = jobs[j].key
        /\ row.required = jobs[j].required /\ row.assigned = jobs[j].assigned
    BY <1>0 DEF Rows, Statuses, Deletable
  <2>2. jobs' = [jobs EXCEPT ![j] = row] /\ Goto(r, "approved") /\ Quiet
    BY <1>0, <1>1 DEF ApproveJob, JobsInv
  <2> HIDE DEF row
  <2>3. InTable(j) /\ RowConsistent(row) /\ RowCleared(row)
    BY <1>0, <1>1, <2>1 DEF InTable, Absent, RowConsistent, RowCleared
  <2>4. Grows /\ JobsInv'
    BY <1>0, <2>1, <2>2, <2>3, UpdateRow
  <2>5. req'[r].job = j /\ jobs'[j] = row
    BY <1>0, <2>2, GotoFields DEF PCs, JobsInv
  <2>6. Sendable(j)'
    BY <1>0, <2>1, <2>3, <2>5 DEF Sendable, Known, Waives, RowCleared
  <2>7. MovesOnly(r)
    BY <1>0, <2>2, <2>6, GotoFields DEF MovesOnly, PCs, GoroutineInv, StepsInv, TodoInv, MemoryInv, JobInv,
        Sending, Inserting, Known, Sendable
  <2> QED BY <2>1, <2>2, <2>4, <2>5, <2>7, QuietFrame, <1>0 DEF JobsInv
<1>2. CASE jobs[j].status # "waiting_approval"
  BY <1>0, <1>2, ReturnMoves, ReadFrame DEF ApproveJob
<1> QED BY <1>1, <1>2

\* The guarded UPDATE of RejectJob.
LEMMA RejectJobPreserves ==
    ASSUME IInv, NEW r \in Requests, RejectJob(r)
    PROVE  IInv'
<1> DEFINE j == req[r].job
           row == [jobs[j] EXCEPT !.status = "cancelled", !.approval = "rejected"]
<1>0. req \in [Requests -> Goroutines] /\ JobsInv /\ j \in Jobs /\ jobs[j] \in Rows /\ MovesOnly(r) /\ Quiet
  BY ReturnMoves DEF IInv, TypeOK, GoroutinesInv, JobsInv, RejectJob, GoroutineInv, JobInv
<1>1. CASE jobs[j].status = "waiting_approval"
  <2>1. row \in Rows /\ row.status = "cancelled" /\ row.approval = "rejected" /\ row.key = jobs[j].key
        /\ row.required = jobs[j].required /\ row.assigned = jobs[j].assigned
    BY <1>0 DEF Rows, Statuses
  <2>2. jobs' = [jobs EXCEPT ![j] = row]
    BY <1>0, <1>1 DEF RejectJob, JobsInv
  <2> HIDE DEF row
  <2>3. InTable(j) /\ RowConsistent(row) /\ ~RowCleared(jobs[j])
    BY <1>0, <1>1, <2>1 DEF InTable, Absent, RowConsistent, RowCleared, JobsInv, TableInv
  <2>4. Grows /\ JobsInv'
    BY <1>0, <2>1, <2>2, <2>3, UpdateRow
  <2> QED BY <1>0, <2>1, <2>2, <2>4, QuietFrame DEF JobsInv
<1>2. CASE jobs[j].status # "waiting_approval"
  BY <1>0, <1>2, ReadFrame DEF RejectJob
<1> QED BY <1>1, <1>2

\* The unguarded DELETE of DeleteJob.
LEMMA DeleteRowPreserves ==
    ASSUME IInv, NEW r \in Requests, DeleteRow(r)
    PROVE  IInv'
<1> DEFINE j == req[r].job
           row == [jobs[j] EXCEPT !.status = "deleted"]
<1>0. req \in [Requests -> Goroutines] /\ JobsInv /\ MovesOnly(r) /\ Quiet
  BY ReturnMoves DEF IInv, TypeOK, JobsInv, DeleteRow
<1>1. CASE InTable(j)
  <2>0. j \in Jobs /\ jobs[j] \in Rows
    BY <1>0, <1>1 DEF InTable, JobsInv
  <2>1. row \in Rows /\ row.status = "deleted" /\ row.approval = jobs[j].approval /\ row.key = jobs[j].key
        /\ row.required = jobs[j].required /\ row.assigned = jobs[j].assigned
    BY <2>0 DEF Rows, Statuses, Absent
  <2>2. jobs' = [jobs EXCEPT ![j] = row]
    BY <1>0, <1>1 DEF DeleteRow, JobsInv
  <2> HIDE DEF row
  <2>3. RowConsistent(row) /\ (RowCleared(jobs[j]) => RowCleared(row))
    BY <2>1 DEF RowConsistent, RowCleared
  <2>4. Grows /\ JobsInv'
    BY <1>0, <1>1, <2>0, <2>1, <2>2, <2>3, UpdateRow
  <2> QED BY <1>0, <2>0, <2>1, <2>2, <2>4, QuietFrame DEF JobsInv
<1>2. CASE ~InTable(j)
  BY <1>0, <1>2, ReadFrame DEF DeleteRow
<1> QED BY <1>1, <1>2

\* The unguarded UPDATE of AssignJobToWorkers: the handler's own history
\* (JobInv) shows that the row was cleared when it got here, or the approval waived.
LEMMA AssignUpdatePreserves ==
    ASSUME IInv, NEW r \in Requests, AssignUpdate(r)
    PROVE  IInv'
<1> DEFINE g == req[r]
           j == g.job
           w == Wid(r)
           row == [jobs[j] EXCEPT !.status = "running", !.assigned = w]
<1>0. req \in [Requests -> Goroutines] /\ g \in Goroutines /\ GoroutineInv(g) /\ JobsInv
      /\ g.pc = "update" /\ Goto(r, "reload") /\ Quiet
  BY DEF IInv, TypeOK, GoroutinesInv, JobsInv, AssignUpdate
<1>1. /\ Known(j) /\ (~Waives(g) => Sendable(j)) /\ jobs[j] \in Rows /\ g.todo # <<>>
      /\ g.kind = "approve" => jobs[j].assigned # NoWorker
  BY <1>0 DEF GoroutineInv, JobInv, TodoInv, Sending, Sendable, Known, Waives, JobsInv
<1>2. w \in Workers /\ w # NoWorker
  BY <1>0, <1>1, ConstantsAssumption DEF Goroutines, Wid
<1>3. Grows /\ JobsInv' /\ \A i \in Jobs : jobs'[i] = jobs[i] \/ jobs'[i].status = "running"
  <2>1. CASE InTable(j)
    <3>1. row \in Rows /\ row.status = "running" /\ row.approval = jobs[j].approval /\ row.key = jobs[j].key
          /\ row.required = jobs[j].required /\ row.assigned = w
      BY <1>1, <1>2 DEF Rows, Statuses
    <3>2. jobs' = [jobs EXCEPT ![j] = row]
      BY <1>0, <1>1, <2>1 DEF AssignUpdate, JobsInv, Sendable, Known, Waives
    <3> HIDE DEF row
    <3>3. RowConsistent(row) /\ (RowCleared(jobs[j]) => RowCleared(row))
      BY <1>1, <3>1 DEF RowConsistent, RowCleared, Sendable, Known, Waives
    <3>4. Grows /\ JobsInv'
      BY <1>0, <1>1, <1>2, <2>1, <3>1, <3>2, <3>3, UpdateRow DEF Sendable, Known, Waives
    <3> QED BY <1>0, <3>1, <3>2, <3>4 DEF JobsInv
  <2>2. CASE ~InTable(j)
    BY <1>0, <2>2, GrowsUnchanged DEF AssignUpdate, JobsInv, TableInv, RowConsistent, RowCleared,
        OneJobPerKey, InTable
  <2> QED BY <2>1, <2>2
<1>4. req'[r].job = j
  BY <1>0, GotoFields DEF PCs
<1>5. /\ Known(j)' /\ (~Waives(g) => Sendable(j)')
      /\ g.kind = "approve" => jobs'[j].assigned # NoWorker
  BY <1>1, <1>3, <1>4 DEF Grows, Sendable, Known, Waives, RowCleared
<1>6. MovesOnly(r)
  BY <1>0, <1>5, GotoFields DEF MovesOnly, PCs, GoroutineInv, StepsInv, TodoInv, MemoryInv, JobInv,
      Sending, Inserting, Waives, Known, Sendable, RowCleared
<1> QED BY <1>0, <1>3, <1>6, QuietFrame

\* After CreateJob the goroutine goes on with a job that it may send, unless the
\* call needs approval or there is nobody to send it to.
LEMMA CreatedMoves ==
    ASSUME NEW r \in Requests, NEW j \in Jobs, req \in [Requests -> Goroutines], GoroutineInv(req[r]),
           Grows, req[r].pc \in {"select", "insert"}, Created(r, j),
           jobs'[j].status # "unborn",
           req[r].kind # "agent" => RowCleared(jobs'[j])
    PROVE  MovesOnly(r)
<1> DEFINE g == req[r]
<1>1. CASE NextTarget(r)
  BY <1>1, NextTargetMoves DEF Inserting
<1>2. CASE ~NextTarget(r)
  <2>1. /\ g.todo # <<>> /\ ~(g.kind = "agent" /\ g.row.required)
        /\ req' = [req EXCEPT ![r].pc = "read", ![r].job = j]
    BY <1>2 DEF Created
  <2>2. g \in Goroutines
    OBVIOUS
  <2>3. req' \in [Requests -> Goroutines] /\ \A q \in Requests \ {r} : req'[q] = req[q]
    BY <2>1, <2>2 DEF Goroutines, PCs
  <2>4. req'[r].pc = "read" /\ req'[r].job = j /\ req'[r].kind = g.kind /\ req'[r].todo = g.todo
        /\ req'[r].row = g.row /\ req'[r].call = g.call
    BY <2>1, <2>2 DEF Goroutines
  <2>5. g.kind \in {"create", "agent", "dispatch"} /\ g.pc \in Inserting
    BY DEF GoroutineInv, StepsInv, Inserting
  <2>6. Known(req[r].job)' /\ (~Waives(req[r])' => Sendable(req[r].job)')
    BY <2>1, <2>4, <2>5 DEF Sendable, Known, Waives, RowCleared
  <2>7. GoroutineInv(req[r])'
    BY <2>1, <2>4, <2>5, <2>6 DEF GoroutineInv, StepsInv, TodoInv, MemoryInv, JobInv, Sending, Inserting,
        Waives, Known, Sendable, RowCleared
  <2> QED BY <2>3, <2>7 DEF MovesOnly
<1> QED BY <1>1, <1>2

\* The SELECT by idempotency key in CreateJob.
LEMMA SelectByKeyPreserves ==
    ASSUME IInv, NEW r \in Requests, SelectByKey(r)
    PROVE  IInv'
<1>0. req \in [Requests -> Goroutines] /\ GoroutineInv(req[r]) /\ Grows /\ req[r].pc = "select"
      /\ req[r].kind = "agent" /\ Quiet /\ UNCHANGED jobs
  BY GrowsUnchanged DEF IInv, TypeOK, GoroutinesInv, SelectByKey, GoroutineInv, StepsInv
<1>1. CASE Goto(r, "insert")
  <2>1. MovesOnly(r)
    BY <1>0, <1>1, GotoFields DEF MovesOnly, PCs, GoroutineInv, StepsInv, TodoInv, MemoryInv, JobInv,
        Sending, Inserting, RowCleared
  <2> QED BY <1>0, <2>1, ReadFrame
<1>2. CASE \E j \in Holder(KeyOf(r)) : Created(r, j)
  <2>1. PICK j \in Holder(KeyOf(r)) : Created(r, j)
    BY <1>2
  <2>2. KeyOf(r) # NoKey /\ j \in Jobs /\ jobs[j].status # "unborn"
    <3>1. req[r].call \in Calls /\ req[r].todo # <<>> /\ req[r] \in Goroutines
      BY <1>0 DEF GoroutineInv, MemoryInv, TodoInv, Inserting
    <3>2. Wid(r) \in Workers
      BY <3>1 DEF Goroutines, Wid
    <3>3. KeyOf(r) \in Calls \X Workers
      BY <1>0, <3>1, <3>2 DEF KeyOf
    <3> QED BY <3>3, ConstantsAssumption DEF Holder, InTable, Absent
  <2>3. MovesOnly(r)
    BY <1>0, <2>1, <2>2, CreatedMoves
  <2> QED BY <1>0, <2>3, ReadFrame
<1> QED BY <1>1, <1>2 DEF SelectByKey

\* The INSERT of CreateJob, under the unique index.
LEMMA InsertJobPreserves ==
    ASSUME IInv, NEW r \in Requests, InsertJob(r)
    PROVE  IInv'
<1> DEFINE g == req[r]
           w == IF g.kind = "agent" THEN Wid(r) ELSE NoWorker
           row == [g.row EXCEPT !.assigned = w, !.key = KeyOf(r)]
<1>0. req \in [Requests -> Goroutines] /\ g \in Goroutines /\ GoroutineInv(g) /\ g.pc = "insert" /\ Quiet /\ JobsInv
  BY DEF IInv, TypeOK, GoroutinesInv, InsertJob, JobsInv
<1>1. CASE KeyOf(r) # NoKey /\ UNCHANGED jobs /\ \E j \in Holder(KeyOf(r)) : Created(r, j)
  <2>1. PICK j \in Holder(KeyOf(r)) : Created(r, j)
    BY <1>1
  <2>2. j \in Jobs /\ jobs[j].status # "unborn"
    BY DEF Holder, InTable, Absent
  <2>3. g.kind = "agent"
    BY <1>1 DEF KeyOf
  <2>4. MovesOnly(r)
    BY <1>0, <1>1, <2>1, <2>2, <2>3, CreatedMoves, GrowsUnchanged
  <2> QED BY <1>0, <1>1, <2>4, ReadFrame
<1>2. ASSUME NEW j \in Jobs, jobs[j] = NoRow, jobs' = [jobs EXCEPT ![j] = row], Created(r, j),
             KeyOf(r) = NoKey \/ Holder(KeyOf(r)) = {}
      PROVE  IInv'
  <2>1. g.kind \in {"create", "agent", "dispatch"} /\ g.row \in Rows
    BY <1>0 DEF GoroutineInv, StepsInv, Goroutines
  <2>2. g.kind = "agent" => /\ Wid(r) \in Workers
                            /\ KeyOf(r) = <<g.call, Wid(r)>>
                            /\ g.call \in Calls
                            /\ g.row.status = IF g.row.required THEN "waiting_approval" ELSE "pending"
                            /\ g.row.required => g.row.approval = "pending"
    BY <1>0 DEF GoroutineInv, MemoryInv, TodoInv, Inserting, Goroutines, Wid, KeyOf
  <2>3. g.kind # "agent" => KeyOf(r) = NoKey /\ g.row.status = "pending" /\ RowCleared(g.row)
    BY <1>0, <2>1 DEF GoroutineInv, MemoryInv, Inserting, KeyOf
  <2>4. KeyOf(r) \in (Calls \X Workers) \cup {NoKey} /\ w \in Workers \cup {NoWorker}
    BY <2>2, <2>3
  <2>5. row \in Rows /\ row.status = g.row.status /\ row.required = g.row.required
        /\ row.approval = g.row.approval /\ row.key = KeyOf(r)
    BY <2>1, <2>4 DEF Rows
  <2> HIDE DEF row, w
  <2>6. /\ row.status \in {"pending", "waiting_approval"}
        /\ RowConsistent(row)
        /\ g.kind # "agent" => RowCleared(row)
    BY <2>2, <2>3, <2>5 DEF RowConsistent, RowCleared
  <2>7. jobs' \in [Jobs -> Rows] /\ jobs'[j] = row /\ \A i \in Jobs : i # j => jobs'[i] = jobs[i]
    BY <1>0, <1>2, <2>5 DEF JobsInv
  <2>8. Grows
    BY <1>2, <2>7 DEF Grows, Sendable, Known, Waives, RowCleared, NoRow
  <2>9. TableInv'
    <3> SUFFICES ASSUME NEW i \in Jobs PROVE RowConsistent(jobs'[i])
      BY DEF TableInv, RowConsistent, RowCleared
    <3> QED BY <1>0, <2>6, <2>7 DEF JobsInv, TableInv
  <2>10. OneJobPerKey'
    <3>1. \A i \in Jobs : i # j /\ InTable(i)' => InTable(i) /\ jobs'[i].key = jobs[i].key
      BY <2>7 DEF InTable
    <3>2. \A i \in Jobs : i # j /\ InTable(i)' /\ jobs'[i].key = row.key => row.key = NoKey
      BY <1>2, <2>5, <3>1 DEF Holder
    <3> QED BY <1>0, <2>7, <3>1, <3>2 DEF JobsInv, OneJobPerKey
  <2>11. MovesOnly(r)
    BY <1>0, <1>2, <2>6, <2>7, <2>8, CreatedMoves
  <2> QED BY <1>0, <2>6, <2>7, <2>8, <2>9, <2>10, <2>11, QuietFrame DEF JobsInv
<1> QED BY <1>1, <1>2 DEF InsertJob

\* The push to the worker: only cleared jobs are put on the link, and those for
\* which the approval was waived.
LEMMA PushJobPreserves ==
    ASSUME IInv, NEW r \in Requests, PushJob(r)
    PROVE  IInv'
<1> DEFINE g == req[r]
           w == Wid(r)
           free == Waives(g)
           m == [req |-> r, nth |-> g.nth, job |-> g.job, waived |-> free]
<1>0. req \in [Requests -> Goroutines] /\ g \in Goroutines /\ GoroutineInv(g) /\ g.pc = "push" /\ Grows
  BY GrowsUnchanged DEF IInv, TypeOK, GoroutinesInv, PushJob
<1>1. Known(g.job) /\ (~free => Sendable(g.job)) /\ g.todo # <<>>
  BY <1>0 DEF GoroutineInv, JobInv, TodoInv, Sending
<1>a. free \in BOOLEAN
  BY DEF Waives
<1> HIDE DEF free
<1>2. w \in Workers /\ m \in Pushes /\ m.job = g.job /\ m.waived = free
  BY <1>0, <1>1, <1>a DEF Goroutines, Wid, Pushes, Known
<1>3. MovesOnly(r)
  BY <1>0, NextTargetMoves DEF PushJob, Inserting
<1>4. GoroutinesInv'
  BY <1>0, <1>3, GoroutinesFrame DEF IInv
<1> HIDE DEF m, w
<1>5. /\ L!LinkTypeOK'
      /\ received' = received
      /\ \A v \in Workers : inflight'[v] \subseteq inflight[v] \cup {m}
  <2>1. CASE L!Accept(w, m)
    BY <1>2, <2>1 DEF IInv, TypeOK, L!LinkTypeOK, L!Accept
  <2>2. CASE UNCHANGED lnkVars
    BY <2>2 DEF IInv, TypeOK, L!LinkTypeOK, lnkVars
  <2> QED BY <2>1, <2>2 DEF PushJob, m, w, free
<1>6. TypeOK'
  BY <1>3, <1>5 DEF IInv, TypeOK, PushJob, workVars, MovesOnly
<1>7. PushInv'
  <2> SUFFICES ASSUME NEW v \in Workers
               PROVE  /\ \A n \in Issued(v)' : Known(n.job) /\ (~n.waived => RowCleared(jobs[n.job]))
                      /\ executing[v] \subseteq received[v]
                      /\ results[v] \subseteq received[v]
    BY <1>5 DEF PushInv, PushJob, workVars, Sendable, Known, Waives, RowCleared
  <2> QED BY <1>1, <1>2, <1>5 DEF IInv, PushInv, Issued, Sendable, Known, Waives
<1> QED BY <1>4, <1>5, <1>6, <1>7 DEF IInv, PushJob, TableInv, RowConsistent, RowCleared,
      ResultFromAssignee, OneJobPerKey, InTable

-----------------------------------------------------------------------------
(* The workers.                                                            *)

\* The invariant of the goroutines and the table survives whatever leaves
\* table and goroutines alone.
LEMMA WorkerFrame ==
    ASSUME IInv, UNCHANGED <<jobs, req>>, TypeOK',
           \A w \in Workers :
               /\ Issued(w)' \subseteq Issued(w)
               /\ received[w] \subseteq received'[w]
               /\ executing'[w] \subseteq received'[w]
               /\ results'[w] \subseteq received'[w]
    PROVE  IInv'
<1>1. TableInv' /\ OneJobPerKey'
  BY DEF IInv, TableInv, RowConsistent, RowCleared, OneJobPerKey, InTable
<1>2. GoroutinesInv'
  BY DEF IInv, GoroutinesInv, GoroutineInv, StepsInv, TodoInv, MemoryInv, JobInv, Sendable, Known, Waives, RowCleared
<1>3. PushInv'
  BY DEF IInv, PushInv, Sendable, Known, Waives, RowCleared
<1>4. ResultFromAssignee'
  BY DEF IInv, ResultFromAssignee
<1> QED BY <1>1, <1>2, <1>3, <1>4 DEF IInv

\* A push arrives at the worker.
LEMMA ReceiveJobPreserves ==
    ASSUME IInv, NEW w \in Workers, NEW m \in inflight[w], ReceiveJob(w, m)
    PROVE  IInv'
<1>1. m \in Pushes
  BY DEF IInv, TypeOK, L!LinkTypeOK
<1>2. TypeOK'
  BY <1>1 DEF IInv, TypeOK, L!LinkTypeOK, ReceiveJob, L!Deliver
<1>3. \A v \in Workers :
          /\ Issued(v)' \subseteq Issued(v)
          /\ received[v] \subseteq received'[v]
          /\ executing'[v] \subseteq received'[v]
          /\ results'[v] \subseteq received'[v]
  BY DEF IInv, TypeOK, L!LinkTypeOK, ReceiveJob, L!Deliver, Issued, PushInv
<1> QED BY <1>2, <1>3, WorkerFrame DEF ReceiveJob

\* The worker reports an outcome.
LEMMA SendResultPreserves ==
    ASSUME IInv, NEW w \in Workers, NEW m \in executing[w], SendResult(w, m)
    PROVE  IInv'
<1>1. TypeOK'
  BY DEF IInv, TypeOK, L!LinkTypeOK, SendResult, lnkVars
<1>2. \A v \in Workers :
          /\ Issued(v)' \subseteq Issued(v)
          /\ received[v] \subseteq received'[v]
          /\ executing'[v] \subseteq received'[v]
          /\ results'[v] \subseteq received'[v]
  BY DEF IInv, TypeOK, L!LinkTypeOK, SendResult, lnkVars, Issued, PushInv
<1> QED BY <1>1, <1>2, WorkerFrame DEF SendResult

\* The end of a stream only takes pushes, executions and results away.
LEMMA StreamEndsPreserves ==
    ASSUME IInv, NEW w \in Workers, StreamEnds(w), UNCHANGED <<jobs, req, registered>>
    PROVE  IInv'
<1>1. TypeOK'
  BY DEF IInv, TypeOK, L!LinkTypeOK, StreamEnds, L!Disconnect
<1>2. \A v \in Workers :
          /\ Issued(v)' \subseteq Issued(v)
          /\ received[v] \subseteq received'[v]
          /\ executing'[v] \subseteq received'[v]
          /\ results'[v] \subseteq received'[v]
  BY DEF IInv, TypeOK, L!LinkTypeOK, StreamEnds, L!Disconnect, Issued, PushInv
<1> QED BY <1>1, <1>2, WorkerFrame

\* handleJobResult and the guarded UPDATE of CompleteJob.
LEMMA HandleResultPreserves ==
    ASSUME IInv, NEW w \in Workers, NEW m \in results[w], HandleResult(w, m)
    PROVE  IInv'
<1>1. CASE MayComplete(w, m.job)
  <2> DEFINE j == m.job
  <2>0. m \in received[w] /\ m \in Pushes /\ j \in Jobs /\ JobsInv /\ jobs[j] \in Rows
    BY DEF IInv, TypeOK, PushInv, Pushes, JobsInv
  <2>1. PICK outcome \in {"success", "failed"} : jobs' = [jobs EXCEPT ![j].status = outcome]
    BY <1>1 DEF HandleResult
  <2> DEFINE row == [jobs[j] EXCEPT !.status = outcome]
  <2>2. row \in Rows /\ row.status = outcome /\ row.approval = jobs[j].approval /\ row.key = jobs[j].key
        /\ row.required = jobs[j].required /\ row.assigned = w
    BY <1>1, <2>0 DEF Rows, Statuses, MayComplete
  <2>3. jobs' = [jobs EXCEPT ![j] = row]
    BY <2>0, <2>1 DEF JobsInv
  <2> HIDE DEF row
  <2>4. InTable(j) /\ RowConsistent(row) /\ (RowCleared(jobs[j]) => RowCleared(row))
    BY <1>1, <2>0, <2>2 DEF InTable, Absent, MayComplete, RowConsistent, RowCleared, JobsInv, TableInv
  <2>5. w # NoWorker
    BY ConstantsAssumption
  <2>6. Grows /\ JobsInv'
    BY <2>0, <2>2, <2>3, <2>4, <2>5, UpdateRow
  <2>7. req' = req /\ registered' = registered /\ executing' = executing /\ UNCHANGED lnkVars
        /\ results' = [results EXCEPT ![w] = results[w] \ {m}]
    BY <1>1 DEF HandleResult
  <2>8. TypeOK'
    BY <2>6, <2>7 DEF IInv, TypeOK, JobsInv, L!LinkTypeOK, lnkVars
  <2>9. GoroutinesInv'
    <3> SUFFICES ASSUME NEW q \in Requests PROVE GoroutineInv(req[q])'
      BY DEF GoroutinesInv
    <3>1. req[q] \in Goroutines /\ GoroutineInv(req[q])
      BY DEF IInv, TypeOK, GoroutinesInv
    <3> QED BY <2>6, <2>7, <3>1, Bystander DEF GoroutineInv, StepsInv, TodoInv, MemoryInv, JobInv, Sendable, Known, Waives, RowCleared
  <2>10. PushInv'
    <3>1. \A v \in Workers : Issued(v)' = Issued(v) /\ results'[v] \subseteq results[v]
      BY <2>7 DEF Issued, lnkVars, IInv, TypeOK
    <3>2. \A v \in Workers : \A n \in Issued(v) : Known(n.job) /\ (~n.waived => Sendable(n.job))
      BY DEF IInv, PushInv, Sendable, Known, Waives
    <3> QED BY <2>6, <2>7, <3>1, <3>2 DEF IInv, PushInv, Grows, Sendable, Known, Waives, RowCleared, lnkVars
  <2>11. ResultFromAssignee'
    <3> SUFFICES ASSUME NEW i \in Jobs, jobs'[i].status \in {"success", "failed"}
                 PROVE  jobs'[i].assigned \in Workers /\ \E n \in received[jobs'[i].assigned] : n.job = i
      BY <2>7 DEF ResultFromAssignee, lnkVars
    <3>1. CASE i = j
      BY <2>0, <2>2, <2>3, <3>1 DEF JobsInv
    <3>2. CASE i # j
      BY <2>0, <2>3, <3>2 DEF IInv, ResultFromAssignee, JobsInv
    <3> QED BY <3>1, <3>2
  <2> QED BY <2>6, <2>8, <2>9, <2>10, <2>11 DEF IInv, JobsInv
<1>2. CASE ~MayComplete(w, m.job)
  BY <1>2, StreamEndsPreserves DEF HandleResult
<1> QED BY <1>1, <1>2

\* Connecting, deleting a worker row and a crash of the server.
LEMMA OutsidePreserves ==
    ASSUME IInv, NEW w \in Workers,
           WorkerConnects(w) \/ WorkerDisconnects(w) \/ DeleteWorker(w)
    PROVE  IInv'
<1>1. CASE WorkerConnects(w)
  <2>1. TypeOK'
    BY <1>1 DEF IInv, TypeOK, L!LinkTypeOK, WorkerConnects, L!Connect, workVars
  <2> QED BY <1>1, <2>1, WorkerFrame DEF WorkerConnects, L!Connect, workVars, IInv, PushInv, Issued
<1>2. CASE WorkerDisconnects(w)
  BY <1>2, StreamEndsPreserves DEF WorkerDisconnects
<1>3. CASE DeleteWorker(w)
  <2>1. TypeOK'
    BY <1>3 DEF IInv, TypeOK, L!LinkTypeOK, DeleteWorker, lnkVars, workVars
  <2> QED BY <1>3, <2>1, WorkerFrame DEF DeleteWorker, lnkVars, workVars, IInv, PushInv, Issued
<1> QED BY <1>1, <1>2, <1>3

\* The server dies: goroutines and streams go, tables stay.
LEMMA ServerCrashPreserves ==
    ASSUME IInv, ServerCrash
    PROVE  IInv'
<1>0. At("done") \in Goroutines
  BY AtTyped DEF PCs
<1>1. TypeOK'
  BY <1>0 DEF IInv, TypeOK, L!LinkTypeOK, ServerCrash
<1>2. GoroutinesInv'
  <2> SUFFICES ASSUME NEW q \in Requests PROVE GoroutineInv(req[q])'
    BY DEF GoroutinesInv
  <2>1. req'[q] = req[q] \/ req'[q] = At("done")
    BY DEF ServerCrash
  <2>2. CASE req'[q] = At("done")
    BY <2>2 DEF At, GoroutineInv, StepsInv, TodoInv, MemoryInv, JobInv, Sending, Inserting
  <2>3. CASE req'[q] = req[q]
    BY <2>3 DEF ServerCrash, IInv, GoroutinesInv, GoroutineInv, StepsInv, TodoInv, MemoryInv, JobInv,
        Sendable, Known, Waives, RowCleared
  <2> QED BY <2>1, <2>2, <2>3
<1>3. TableInv' /\ OneJobPerKey' /\ ResultFromAssignee'
  BY DEF ServerCrash, IInv, TableInv, RowConsistent, RowCleared, OneJobPerKey, InTable,
      ResultFromAssignee
<1>4. PushInv'
  BY DEF ServerCrash, IInv, PushInv, Issued, Sendable, Known, Waives, RowCleared
<1> QED BY <1>1, <1>2, <1>3, <1>4 DEF IInv

-----------------------------------------------------------------------------
(* The theorems.                                                           *)

\* The invariant holds initially.
LEMMA InitIInv == Init => IInv
<1> SUFFICES ASSUME Init PROVE IInv
  OBVIOUS
<1>1. NoRow \in Rows
  BY DEF NoRow, Rows, Statuses, Absent
<1>2. At("idle") \in Goroutines
  BY AtTyped DEF PCs
<1>3. TypeOK
  BY <1>1, <1>2 DEF Init, TypeOK, L!Init, L!LinkTypeOK
<1>4. TableInv
  BY ConstantsAssumption DEF Init, TableInv, RowConsistent, NoRow
<1>5. GoroutinesInv
  BY DEF Init, GoroutinesInv, GoroutineInv, StepsInv, TodoInv, MemoryInv, JobInv, At, Sending, Inserting
<1>6. PushInv /\ ResultFromAssignee /\ OneJobPerKey
  BY DEF Init, L!Init, PushInv, Issued, ResultFromAssignee, OneJobPerKey, InTable, NoRow, Absent
<1> QED BY <1>3, <1>4, <1>5, <1>6 DEF IInv

\* Every step preserves it.
LEMMA NextIInv == IInv /\ [Next]_vars => IInv'
<1> SUFFICES ASSUME IInv, [Next]_vars PROVE IInv'
  OBVIOUS
<1>1. ASSUME NEW r \in Requests, Arrivals(r) PROVE IInv'
  BY <1>1, ArrivalsPreserve
<1>2. ASSUME NEW r \in Requests, Handler(r) PROVE IInv'
  BY <1>2, GetBasePreserves, ApproveJobPreserves, GetApprovedPreserves, RejectJobPreserves, GetDoomedPreserves,
     DeleteRowPreserves, CheckWorkerPreserves, SelectByKeyPreserves, InsertJobPreserves, AssignReadPreserves,
     AssignUpdatePreserves, ReloadPreserves, PushJobPreserves DEF Handler
<1>3. ASSUME NEW r \in Requests, StatementFails(r) PROVE IInv'
  BY <1>3, StatementFailsPreserves
<1>4. ASSUME NEW w \in Workers, WorkerSide(w) PROVE IInv'
  BY <1>4, ReceiveJobPreserves, SendResultPreserves, HandleResultPreserves DEF WorkerSide
<1>5. ASSUME NEW w \in Workers, WorkerConnects(w) \/ WorkerDisconnects(w) \/ DeleteWorker(w) PROVE IInv'
  BY <1>5, OutsidePreserves
<1>6. CASE ServerCrash
  BY <1>6, ServerCrashPreserves
<1>7. CASE UNCHANGED vars
  BY <1>7 DEF vars, IInv, TypeOK, L!LinkTypeOK, TableInv, RowConsistent, RowCleared, GoroutinesInv,
      GoroutineInv, StepsInv, TodoInv, MemoryInv, JobInv, Sendable, Known, Waives, PushInv, Issued, ResultFromAssignee,
      OneJobPerKey, InTable
<1> QED BY <1>1, <1>2, <1>3, <1>4, <1>5, <1>6, <1>7 DEF Next

\* The invariant is inductive, so it holds in every reachable state.
THEOREM Invariance == Spec => []IInv
  BY InitIInv, NextIInv, PTL DEF Spec

\* All state of the dispatcher keeps its type; in particular every key, worker
\* and job a handler takes out of its locals or of a row is one that exists.
THEOREM TypeCorrect == Spec => []TypeOK
<1>1. IInv => TypeOK
  BY DEF IInv
<1> QED BY <1>1, Invariance, PTL

\* The approval gate: no interleaving of create, approve, reject, dispatch,
\* delete, crash and retry lets a job that waits for approval reach a worker
\* unapproved, unless its own tool call, executed again, needs no approval.
THEOREM ApprovalGateHolds == Spec => []ApprovalGate
<1>1. IInv => ApprovalGate
  BY DEF IInv, PushInv, ApprovalGate, Sendable, Known, Waives, RowCleared, Cleared
<1> QED BY <1>1, Invariance, PTL

\* A finished job was received by the worker that its row names.
THEOREM ResultFromAssigneeHolds == Spec => []ResultFromAssignee
<1>1. IInv => ResultFromAssignee
  BY DEF IInv
<1> QED BY <1>1, Invariance, PTL

\* No two jobs in the table have the same idempotency key.
THEOREM OneJobPerKeyHolds == Spec => []OneJobPerKey
<1>1. IInv => OneJobPerKey
  BY DEF IInv
<1> QED BY <1>1, Invariance, PTL

\* A goroutine is about to revive job j with the approval waived.
Revives(r, j) == Waives(req[r]) /\ req[r].pc = "update" /\ req[r].job = j

\* Any other step takes a cancelled job nowhere but out of the table: the handlers
\* that write hold a job that is sendable, waiting, new or to be deleted.
LEMMA CancelledStays ==
    ASSUME IInv, [Next]_vars, NEW j \in Jobs, jobs[j].status = "cancelled",
           \A r \in Requests : ~Revives(r, j)
    PROVE  jobs'[j].status \in {"cancelled", "deleted"}
<1>0. jobs \in [Jobs -> Rows] /\ ~RowCleared(jobs[j]) /\ jobs[j] # NoRow
  BY DEF IInv, TypeOK, TableInv, RowConsistent, RowCleared, NoRow
<1>1. ASSUME NEW r \in Requests, Arrivals(r) PROVE UNCHANGED jobs
  BY <1>1 DEF Arrivals, ArriveCreate, ArriveAgent, ArriveDispatch, ArriveOnJob, Arrive
<1>2. ASSUME NEW r \in Requests, Handler(r) PROVE jobs'[j].status \in {"cancelled", "deleted"}
  <2>1. CASE ApproveJob(r)
    BY <1>0, <2>1 DEF ApproveJob
  <2>2. CASE RejectJob(r)
    BY <1>0, <2>2 DEF RejectJob
  <2>3. CASE DeleteRow(r)
    BY <1>0, <2>3 DEF DeleteRow
  <2>4. CASE InsertJob(r)
    BY <1>0, <2>4 DEF InsertJob
  <2>5. CASE AssignUpdate(r)
    <3>1. req[r].pc = "update" /\ (~Waives(req[r]) => Sendable(req[r].job))
      BY <2>5 DEF IInv, GoroutinesInv, GoroutineInv, JobInv, Sending, AssignUpdate
    <3>2. req[r].job # j
      BY <1>0, <3>1 DEF Sendable, Revives
    <3> QED BY <1>0, <2>5, <3>2 DEF AssignUpdate
  <2>6. CASE UNCHANGED jobs
    BY <2>6
  <2> QED BY <1>2, <2>1, <2>2, <2>3, <2>4, <2>5, <2>6
        DEF Handler, GetBase, GetApproved, GetDoomed, CheckWorker, SelectByKey, AssignRead, Reload, PushJob
<1>3. ASSUME NEW r \in Requests, StatementFails(r) PROVE UNCHANGED jobs
  BY <1>3 DEF StatementFails
<1>4. ASSUME NEW w \in Workers, NEW m \in results[w], HandleResult(w, m)
      PROVE  jobs'[j].status \in {"cancelled", "deleted"}
  BY <1>0, <1>4 DEF HandleResult, MayComplete
<1>5. ASSUME NEW w \in Workers,
             \/ \E m \in inflight[w] : ReceiveJob(w, m)
             \/ \E m \in executing[w] : SendResult(w, m)
             \/ WorkerConnects(w)
             \/ WorkerDisconnects(w)
             \/ DeleteWorker(w)
      PROVE  UNCHANGED jobs
  BY <1>5 DEF ReceiveJob, SendResult, WorkerConnects, WorkerDisconnects, DeleteWorker
<1>6. CASE ServerCrash \/ UNCHANGED vars
  BY <1>6 DEF ServerCrash, vars
<1> QED BY <1>1, <1>2, <1>3, <1>4, <1>5, <1>6 DEF Next, WorkerSide

\* A rejected job is never revived, except by its own tool call when that, executed
\* again, needs no approval.
THEOREM RejectionStandsHolds == Spec => RejectionStands
<1>1. IInv /\ [Next]_vars =>
          [\A j \in Jobs : jobs[j].status = "cancelled" =>
              \/ jobs'[j].status \in {"cancelled", "deleted"}
              \/ \E r \in Requests :
                  Waives(req[r]) /\ req[r].pc = "update" /\ req[r].job = j]_vars
  BY CancelledStays DEF Revives
<1> QED BY <1>1, Invariance, PTL DEF Spec, RejectionStands
=============================================================================
