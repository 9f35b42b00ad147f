------------------------------ MODULE AgentRun ------------------------------
(***************************************************************************)
(* One persistent run of the operations agent: its row in agent_runs, its  *)
(* ledger in agent_tool_calls and agent_events, the jobs it puts up for    *)
(* approval, and the goroutines that work on it.                           *)
(*                                                                         *)
(* A goroutine executes the run on behalf of the HTTP request that created *)
(* it, of an approval, or of the recovery scan at server start; others     *)
(* serve a cancellation or a rejection.  Nothing keeps two of them apart.  *)
(* Each works on the copy of the row that it read, and UpdateAgentRun      *)
(* overwrites every column with that copy.  One step is one SQL statement, *)
(* one answer of the model, or one tool execution.                         *)
(***************************************************************************)
EXTENDS Naturals, Sequences, FiniteSets

CONSTANTS
    Slots,      \* goroutines of a behaviour, numbered in the order they start
    Calls,      \* tool call IDs, each handed out by the model once
    Risky,      \* calls of modules that need approval
    Workers,    \* the workers such a call names, one job each
    MaxSteps,   \* agent.max_steps
    MaxCalls,   \* most tool calls in one answer of the model
    Failures,   \* bound: statements that fail in a behaviour
    Crashes     \* whether the server dies and is started again

ASSUME RunAssumption ==
    /\ Slots \subseteq Nat
    /\ Risky \subseteq Calls
    /\ MaxSteps \in Nat \ {0}
    /\ MaxCalls \in Nat \ {0}
    /\ Failures \in Nat
    /\ Crashes \in BOOLEAN

VARIABLES
    row,    \* the row in agent_runs
    calls,  \* agent_tool_calls: status of each call, "none" without a row
    events, \* agent_events
    jobs,   \* jobs[c][w]: the job that call c created for worker w
    go,     \* the goroutines: next step and locals
    asked,  \* asked[c]: the content of the answer that handed out call c, 0 before
    texts,  \* contents so far: every answer and every result has one of its own
    lost,   \* history: events that were not written, on an error
    dropped,\* history: an error kept an execution from starting or saving its end
    errors  \* statements that have failed

history == <<lost, dropped, errors>>
ledger == <<calls, events, jobs, asked, texts, history>>
vars == <<row, go, ledger>>

\* Messages of the transcript: an answer of the model with its tool calls, or
\* the result of a call.  What a message says is a number.
Contents == Nat \ {0}
Replies == [kind : {"assistant"}, content : Contents, calls : Seq(Calls)]
Results == [kind : {"tool"}, content : Contents, call : Calls]
Messages == Replies \cup Results

Reply(n, cs) == [kind |-> "assistant", content |-> n, calls |-> cs]
ToolResult(n, c) == [kind |-> "tool", content |-> n, call |-> c]

\* An event holds what a message says, and neither the calls of an answer nor
\* the call of a result.
Events == [kind : {"assistant", "tool"}, content : Contents]
EventOf(message) == [kind |-> message.kind, content |-> message.content]

RunStatuses == {"none", "queued", "running", "waiting_approval", "completed",
                "failed", "timed_out", "cancelled"}
RunRows == [status : RunStatuses, transcript : Seq(Messages), nextStep : Nat]

RunPCs == {"idle", "scan", "get", "mark", "model", "logAssistant", "saveAssistant", "call",
           "execute", "complete", "logTool", "saveTool", "final", "getRejected", "putRejected",
           "noteRejected", "getCancelled", "putCancelled", "noteCancelled", "done"}

\* run: the local copy of the row; step: the loop variable of RunMessages;
\* steps: result.Steps; todo: calls of the current answer still to be made;
\* paused: the last call put a job up for approval; outcome: final status.
Locals == [pc : RunPCs, run : RunRows, step : Nat, steps : Nat, todo : Seq(Calls),
           paused : BOOLEAN, outcome : RunStatuses]

JobStates == {"none", "waiting", "approved", "rejected"}
Notes == {"approval_rejected", "cancelled"}

TypeOK ==
    /\ row \in RunRows
    /\ calls \in [Calls -> {"none", "running", "completed"}]
    /\ events \in SUBSET (Events \cup [kind : Notes])
    /\ jobs \in [Calls -> [Workers -> JobStates]]
    /\ go \in [Slots -> Locals]
    /\ asked \in [Calls -> Nat]
    /\ texts \in Nat
    /\ lost \in SUBSET Events
    /\ dropped \in BOOLEAN
    /\ errors \in 0..Failures

NoRun == [status |-> "none", transcript |-> <<>>, nextStep |-> 1]
Starting(step) == [pc |-> step, run |-> NoRun, step |-> 1, steps |-> 0, todo |-> <<>>,
                   paused |-> FALSE, outcome |-> "none"]

Init ==
    /\ row = NoRun
    /\ calls = [c \in Calls |-> "none"]
    /\ events = {}
    /\ jobs = [c \in Calls |-> [w \in Workers |-> "none"]]
    /\ go = [g \in Slots |-> Starting("idle")]
    /\ asked = [c \in Calls |-> 0]
    /\ texts = 0
    /\ lost = {}
    /\ dropped = FALSE
    /\ errors = 0

-----------------------------------------------------------------------------
(* Helpers.                                                                *)

Goto(g, step) == go' = [go EXCEPT ![g].pc = step]

\* The goroutine ends; its locals are garbage.
End(g) == go' = [go EXCEPT ![g] = Starting("done")]

\* The goroutine has read the row and goes on with a copy of it.
Copy(g, step, status) ==
    go' = [go EXCEPT ![g].pc = step, ![g].run = [row EXCEPT !.status = status]]

\* The loop of RunMessages ends and executePersistentRun goes on to its end.
Finish(g, outcome) ==
    go' = [go EXCEPT ![g].pc = "final", ![g].outcome = outcome, ![g].todo = <<>>, ![g].paused = FALSE]

\* The message that the goroutine has added to its transcript last.
Newest(g) == go[g].run.transcript[Len(go[g].run.transcript)]

\* A new goroutine takes the next slot.
Starts(g) == go[g].pc = "idle" /\ \A h \in Slots : h < g => go[h].pc # "idle"

\* A statement fails.
Fails == errors < Failures /\ errors' = errors + 1

\* An error before the loop or in saving its end: the goroutine ends and nobody
\* is told.
Abandon(g) ==
    /\ Fails
    /\ End(g)
    /\ dropped' = TRUE
    /\ UNCHANGED <<row, calls, events, jobs, asked, texts, lost>>

\* The error changes nothing but the goroutine that meets it.
Ignore == Fails /\ UNCHANGED <<calls, events, jobs, asked, texts, lost, dropped>>

\* An error of the observer ends the loop, and the message it was called for stays
\* without its event.
StopWithError(g, unlogged) ==
    /\ Fails
    /\ Finish(g, "failed")
    /\ lost' = lost \cup unlogged
    /\ UNCHANGED <<row, calls, events, jobs, asked, texts, dropped>>

-----------------------------------------------------------------------------
(* The statements of the repository.  (UpdateAgentRun is row' = run.)      *)

CreateAgentRun == row' = [NoRun EXCEPT !.status = "queued"]

ListAgentRunsByStatus(statuses) == row.status \in statuses

\* ON CONFLICT DO NOTHING: a call that has a row keeps it.
CreateAgentToolCall(c) ==
    calls' = [calls EXCEPT ![c] = IF calls[c] = "none" THEN "running" ELSE calls[c]]

CompleteAgentToolCall(c) == calls' = [calls EXCEPT ![c] = "completed"]

-----------------------------------------------------------------------------
(* Where goroutines come from.                                             *)

\* handleAgentRun: createPersistentRun, then executePersistentRun.
CreateRun(g) ==
    /\ row.status = "none"
    /\ Starts(g)
    /\ CreateAgentRun
    /\ Goto(g, "get")
    /\ UNCHANGED ledger

\* handleApproveJob: ApproveJob, guarded by the job's status; then the run of
\* the job is executed in a goroutine of its own, whatever the run's status.
Approve(g, c, w) ==
    /\ Starts(g)
    /\ jobs[c][w] = "waiting"
    /\ jobs' = [jobs EXCEPT ![c][w] = "approved"]
    /\ Goto(g, "get")
    /\ UNCHANGED <<row, calls, events, asked, texts, history>>

\* The same handler, rejecting: RejectJob, then a look at the run.
Reject(g, c, w) ==
    /\ Starts(g)
    /\ jobs[c][w] = "waiting"
    /\ jobs' = [jobs EXCEPT ![c][w] = "rejected"]
    /\ Goto(g, "getRejected")
    /\ UNCHANGED <<row, calls, events, asked, texts, history>>

\* POST /agent/runs/{id}/cancel
Cancel(g) ==
    /\ Starts(g)
    /\ row.status # "none"
    /\ Goto(g, "getCancelled")
    /\ UNCHANGED <<row, ledger>>

\* The server dies and starts again; NewServer starts the recovery scan.
Restart(g) ==
    /\ Crashes
    /\ Starts(g)
    /\ go' = [h \in Slots |-> IF h = g THEN Starting("scan")
                              ELSE IF go[h].pc = "idle" THEN go[h] ELSE Starting("done")]
    /\ UNCHANGED <<row, ledger>>

\* Mutant: the scan only looks for runs that were running.
MutScanRunning(g) ==
    /\ go[g].pc = "scan"
    /\ Goto(g, IF row.status = "running" THEN "get" ELSE "done")
    /\ UNCHANGED <<row, ledger>>

\* resumeInterruptedAgentRuns
Scan(g) ==
    /\ go[g].pc = "scan"
    /\ \/ /\ IF ListAgentRunsByStatus({"queued", "running"}) THEN Goto(g, "get") ELSE End(g)
          /\ UNCHANGED <<row, ledger>>
       \/ Abandon(g)

-----------------------------------------------------------------------------
(* executePersistentRun and the loop of RunMessages.                       *)

\* Mutant: a run is executed whatever its status.
MutGetRunAny(g) ==
    /\ go[g].pc = "get"
    /\ Copy(g, "mark", "running")
    /\ UNCHANGED <<row, ledger>>

\* A run that was cancelled or completed is not executed again.
GetRun(g) ==
    /\ go[g].pc = "get"
    /\ \/ /\ IF row.status \in {"cancelled", "completed"} THEN End(g) ELSE Copy(g, "mark", "running")
          /\ UNCHANGED <<row, ledger>>
       \/ Abandon(g)

\* The row is marked running and the loop starts at the step it names.
MarkRunning(g) ==
    /\ go[g].pc = "mark"
    /\ \/ /\ row' = go[g].run
          /\ go' = [go EXCEPT ![g].pc = "model", ![g].step = go[g].run.nextStep]
          /\ UNCHANGED ledger
       \/ Abandon(g)

\* Replies of the model: tool calls that it has not made before.
FreshReplies ==
    {cs \in UNION {[1..n -> {c \in Calls : asked[c] = 0}] : n \in 1..MaxCalls} :
        \A i, k \in DOMAIN cs : cs[i] = cs[k] => i = k}

Answered(g, cs) ==
    /\ go' = [go EXCEPT ![g].pc = "logAssistant", ![g].steps = go[g].step, ![g].todo = cs,
                        ![g].run.transcript = Append(go[g].run.transcript, Reply(texts + 1, cs))]
    /\ asked' = [c \in Calls |-> IF \E i \in DOMAIN cs : cs[i] = c THEN texts + 1 ELSE asked[c]]
    /\ texts' = texts + 1
    /\ UNCHANGED <<row, calls, events, jobs, history>>

\* One iteration: ask the model.  It answers with or without tool calls, or
\* fails (timeout of the run, disconnected client, error of the service).
AskModel(g) ==
    /\ go[g].pc = "model"
    /\ \/ /\ go[g].step > MaxSteps
          /\ Finish(g, "failed")
          /\ UNCHANGED <<row, ledger>>
       \/ /\ go[g].step <= MaxSteps
          /\ \/ \E outcome \in {"failed", "timed_out"} :
                  Finish(g, outcome) /\ UNCHANGED <<row, ledger>>
             \/ Answered(g, <<>>)
             \/ \E cs \in FreshReplies : Answered(g, cs)

\* Mutant: the transcript is saved before the event is written.
MutLogAfterSave(g) ==
    /\ go[g].pc = "logAssistant"
    /\ row' = go[g].run
    /\ Goto(g, "saveAssistant")
    /\ UNCHANGED ledger

\* OnAssistant: the event with the content of the answer, then the transcript.
LogAssistant(g) ==
    /\ go[g].pc = "logAssistant"
    /\ \/ /\ events' = events \cup {EventOf(Newest(g))}
          /\ Goto(g, "saveAssistant")
          /\ UNCHANGED <<row, calls, jobs, asked, texts, history>>
       \/ StopWithError(g, {EventOf(Newest(g))})

SaveAssistant(g) ==
    /\ go[g].pc = "saveAssistant"
    /\ \/ /\ row' = go[g].run
          /\ IF go[g].todo = <<>> THEN Finish(g, "completed") ELSE Goto(g, "call")
          /\ UNCHANGED ledger
       \/ StopWithError(g, {})

\* Mutant: the call is made without a row in agent_tool_calls.
MutCallUnrecorded(g) ==
    /\ go[g].pc = "call"
    /\ Goto(g, "execute")
    /\ UNCHANGED <<row, ledger>>

\* validateDiscoveredWorkers: a call that names a worker which no list_workers
\* of this execution has returned ends the loop, as an undeclared tool does.
\* The names are the model's choice, and so is the outcome here.
RefuseCall(g) ==
    /\ Finish(g, "failed")
    /\ UNCHANGED <<row, ledger>>

\* The next tool call: it is refused, or OnToolCall records it.
RecordCall(g) ==
    /\ go[g].pc = "call"
    /\ \/ RefuseCall(g)
       \/ /\ CreateAgentToolCall(Head(go[g].todo))
          /\ Goto(g, "execute")
          /\ UNCHANGED <<row, events, jobs, asked, texts, history>>

\* Mutant: the result does not reach the transcript.
MutExecuteNoResult(g) ==
    LET c == Head(go[g].todo) IN
    /\ go[g].pc = "execute"
    /\ jobs' = IF c \in Risky THEN [jobs EXCEPT ![c] = [w \in Workers |-> "waiting"]] ELSE jobs
    /\ go' = [go EXCEPT ![g].pc = "complete", ![g].paused = c \in Risky]
    /\ UNCHANGED <<row, calls, events, asked, texts, history>>

\* Whether one of the jobs that a result names waits for approval.
payloadNeedsApproval(made) == made # {}

\* tool.Execute.  A risky call creates a job that waits for approval for every
\* worker (JobDispatch has the details); the creation of some may fail.  The
\* loop will pause if a job waits.
ExecuteTool(g) ==
    LET c == Head(go[g].todo) IN
    /\ go[g].pc = "execute"
    /\ \E made \in SUBSET Workers :
        /\ \/ made = (IF c \in Risky THEN Workers ELSE {}) /\ UNCHANGED errors
           \/ c \in Risky /\ made # Workers /\ Fails
        /\ jobs' = [jobs EXCEPT ![c] = [w \in Workers |-> IF w \in made THEN "waiting" ELSE jobs[c][w]]]
        /\ go' = [go EXCEPT ![g].pc = "complete", ![g].paused = payloadNeedsApproval(made),
                            ![g].run.transcript = Append(go[g].run.transcript, ToolResult(texts + 1, c))]
    /\ texts' = texts + 1
    /\ UNCHANGED <<row, calls, events, asked, lost, dropped>>

\* OnToolResult: the call's row, the event, the transcript.
CompleteCall(g) ==
    /\ go[g].pc = "complete"
    /\ \/ /\ CompleteAgentToolCall(Head(go[g].todo))
          /\ Goto(g, "logTool")
          /\ UNCHANGED <<row, events, jobs, asked, texts, history>>
       \/ StopWithError(g, {EventOf(Newest(g))})

LogTool(g) ==
    /\ go[g].pc = "logTool"
    /\ \/ /\ events' = events \cup {EventOf(Newest(g))}
          /\ Goto(g, "saveTool")
          /\ UNCHANGED <<row, calls, jobs, asked, texts, history>>
       \/ StopWithError(g, {EventOf(Newest(g))})

\* ... and on: pause, the next call, or the next step.
SaveTool(g) ==
    LET rest == Tail(go[g].todo) IN
    /\ go[g].pc = "saveTool"
    /\ \/ /\ row' = go[g].run
          /\ IF go[g].paused THEN Finish(g, "waiting_approval")
             ELSE IF rest # <<>> THEN go' = [go EXCEPT ![g].pc = "call", ![g].todo = rest]
             ELSE go' = [go EXCEPT ![g].pc = "model", ![g].todo = <<>>, ![g].step = go[g].step + 1]
          /\ UNCHANGED ledger
       \/ StopWithError(g, {})

\* Mutant: the next step is one too low, before the first step of the loop.
MutPersistStepBack(g) ==
    /\ go[g].pc = "final"
    /\ row' = [go[g].run EXCEPT !.status = go[g].outcome, !.nextStep = go[g].steps - 1]
    /\ End(g)
    /\ UNCHANGED ledger

\* The end of executePersistentRun; an error of this persist is ignored.
PersistOutcome(g) ==
    /\ go[g].pc = "final"
    /\ \/ /\ row' = [go[g].run EXCEPT !.status = go[g].outcome, !.nextStep = go[g].steps + 1]
          /\ End(g)
          /\ UNCHANGED ledger
       \/ Abandon(g)

-----------------------------------------------------------------------------
(* Rejection and cancellation.                                             *)

\* Only a run that waits is cancelled by a rejection.
GetRejected(g) ==
    /\ go[g].pc = "getRejected"
    /\ \/ /\ IF row.status = "waiting_approval" THEN Copy(g, "putRejected", "cancelled") ELSE End(g)
          /\ UNCHANGED <<row, ledger>>
       \/ Ignore /\ End(g) /\ UNCHANGED row

\* Any run that is not running can be cancelled.
GetCancelled(g) ==
    /\ go[g].pc = "getCancelled"
    /\ \/ /\ IF row.status = "running" THEN End(g) ELSE Copy(g, "putCancelled", "cancelled")
          /\ UNCHANGED <<row, ledger>>
       \/ Ignore /\ End(g) /\ UNCHANGED row

\* The row, and then the event; errors of both are ignored.
PutCancelled(g) ==
    /\ go[g].pc \in {"putRejected", "putCancelled"}
    /\ \/ row' = go[g].run /\ UNCHANGED ledger
       \/ Ignore /\ UNCHANGED row
    /\ Goto(g, IF go[g].pc = "putRejected" THEN "noteRejected" ELSE "noteCancelled")

NoteCancelled(g) ==
    LET note == IF go[g].pc = "noteRejected" THEN "approval_rejected" ELSE "cancelled" IN
    /\ go[g].pc \in {"noteRejected", "noteCancelled"}
    /\ \/ events' = events \cup {[kind |-> note]} /\ UNCHANGED <<calls, jobs, asked, texts, history>>
       \/ Ignore
    /\ End(g)
    /\ UNCHANGED row

-----------------------------------------------------------------------------

Execute(g) ==
    \/ Scan(g)
    \/ GetRun(g)
    \/ MarkRunning(g)
    \/ AskModel(g)
    \/ LogAssistant(g)
    \/ SaveAssistant(g)
    \/ RecordCall(g)
    \/ ExecuteTool(g)
    \/ CompleteCall(g)
    \/ LogTool(g)
    \/ SaveTool(g)
    \/ PersistOutcome(g)
    \/ GetRejected(g)
    \/ GetCancelled(g)
    \/ PutCancelled(g)
    \/ NoteCancelled(g)

Users(g) ==
    \/ CreateRun(g)
    \/ \E c \in Calls, w \in Workers : Approve(g, c, w) \/ Reject(g, c, w)
    \/ Cancel(g)

Next == \E g \in Slots : Execute(g) \/ Users(g) \/ Restart(g)

Spec == Init /\ [][Next]_vars

\* Goroutines run: the model answers or the context of the run expires, tools
\* return.  Users owe nothing.
FairSpec == Spec /\ \A g \in Slots : WF_vars(Execute(g))

-----------------------------------------------------------------------------
(* Properties.                                                             *)

HasResult(c) == \E i \in DOMAIN row.transcript :
    row.transcript[i].kind = "tool" /\ row.transcript[i].call = c

\* A tool call takes effect only after it was recorded in the ledger and after
\* what the model said when it asked for it was written to the event log,
\* whatever crashes or fails in between.
RecordedBeforeEffect ==
    \A c \in Calls : (\E w \in Workers : jobs[c][w] # "none") =>
        /\ calls[c] # "none"
        /\ [kind |-> "assistant", content |-> asked[c]] \in events

\* A replay of the events shows what every message of the saved transcript says,
\* also after a crash and with several goroutines at work: no message is saved
\* before its event is written, except the one whose event could not be written,
\* which is saved with the failed run.  (Which calls an answer made, and which
\* call a result belongs to, is in no event.)
TranscriptIsLogged ==
    \A i \in DOMAIN row.transcript : EventOf(row.transcript[i]) \in events \cup lost

\* A run that waits for approval is saved with the result of a call that put
\* up a job for approval, so there is, or was, something to decide.
PausePointSaved ==
    row.status = "waiting_approval" =>
        \E c \in Calls : HasResult(c) /\ \E w \in Workers : jobs[c][w] # "none"

\* A run that was created or interrupted comes to a decision point or an end:
\* a restart does not forget it.  (Unless an error that the code only logs kept
\* an execution from starting or from saving its end.)
Unsettled == row.status \in {"queued", "running"} /\ ~dropped
RunSettles == Unsettled ~> ~Unsettled

\* Once a run has been completed or cancelled and no goroutine holds a copy of its
\* row any more, no approval, recovery or cancellation that comes later brings it
\* back.  (A failed run or one that timed out is executed again by an approval.)
Holding == {"mark", "model", "logAssistant", "saveAssistant", "call", "execute", "complete",
            "logTool", "saveTool", "final", "putRejected", "putCancelled"}
HasEnded == row.status \in {"completed", "cancelled"}
EndedForGood == HasEnded /\ \A g \in Slots : go[g].pc \notin Holding
SettledEndStays == [](EndedForGood => []HasEnded)

\* What documents and comments say, and the code does not do.

\* A paused run resumes once its jobs have been approved.
AllApproved ==
    /\ \E c \in Calls, w \in Workers : jobs[c][w] = "approved"
    /\ \A c \in Calls, w \in Workers : jobs[c][w] \in {"none", "approved"}
ApprovedRunResumes ==
    (row.status = "waiting_approval" /\ AllApproved) ~> row.status # "waiting_approval"
=============================================================================
