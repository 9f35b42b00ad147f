# ADP: TLA+ models, checks and proofs

ADP is a control plane for operations on a fleet of workers. A server written in
Go offers an HTTP API, keeps its state in PostgreSQL, holds one bidirectional
gRPC stream per worker, and runs a tool-calling agent that may create jobs under
human approval. Workers connect, receive jobs and commands, execute them and
report results.

This directory holds models of the parts of ADP where steps of several actors
interleave, TLC configurations that check them on small instances, and proofs
that TLAPS checks for every instance.

## 1. Inventory

| Component | State it keeps | Operations | Interacts through |
|---|---|---|---|
| Worker streams (`workerstream/hub.go`, `service.go`) | map worker → channel of 32 envelopes; per stream a handler and a receiving goroutine | `register`, `unregister`, `push`, `Stream`, `receiveLoop` | called by HTTP handlers (`PushJob`, `PushCommand`), by gRPC; calls the repository |
| Job table and dispatch (`http/job.go`, `http/approval.go`, jobs part of `db/postgres.go`) | table `jobs` | create, dispatch, approve, reject, delete, assign, complete | SQL statements without transactions; push to the hub |
| Agent module operation (`http/agent.go`) | none of its own | `createModuleOperation`, read-only tools | called by the runtime; creates jobs with idempotency keys |
| Agent runtime and ledger (`agent/runtime.go`, `http/agent_runs.go`, `http/server.go`) | tables `agent_runs`, `agent_events`, `agent_tool_calls`; a transcript per goroutine | create, execute, pause, resume, cancel, recover | LLM, tools, approval handler, server start |
| Worker client and runner (`worker/`) | current stream, current runner | connect, execute, report, stop, restart | gRPC stream |
| Worker registration (`http/worker.go`, workers part of `db/postgres.go`, `db/memory.go`) | table `workers`, the ID counter | register, heartbeat, stop, restart, delete, seed the counter | streams, HTTP |
| In-memory repository (`db/memory.go`, `scheduler/store.go`) | maps under a mutex | the repository interface | replaces PostgreSQL in tests and without a DSN |
| Managed configuration (`http/config.go`, policy, template, module registry) | table of configs; engines in memory | sync, reload, CRUD | read by job and agent handlers |
| Users and tokens (`auth/service.go`, `http/user.go`) | map in memory and table `users` | login, create, delete, change password | HTTP middleware |
| Agent request and conversation (`http/agent.go`, conversation part of `db/`) | channel of 32 events, table `conversation_messages` | run in a goroutine, forward to the client, record the exchange | runtime, LLM client |
| LLM client (`llm/client.go`) | fragments of one answer | `Complete`, `CompleteStream` | the model's HTTP service |
| Cases, dashboard, audit, metrics, UI, SSH deployment | rows, counters | single inserts and queries, I/O | - |

What is hard here:

* *Streams.* A worker reconnects before the server has noticed that its old
  stream is dead; two handlers of the same worker then race on one map entry and
  on closing a channel, while any HTTP handler may push. Correct means: no panic,
  no push to a dead or foreign stream, order preserved, no goroutine leaked.
* *Jobs.* Every handler is a sequence of single SQL statements. What was read
  (status, worker) may be stale at the next statement; approve, reject,
  dispatch, delete and the retry of an agent call meet on one row; pushes are
  dropped or lost and never acknowledged; the server may die at any point.
  Correct means: nothing that waits for approval runs without a decision, a
  rejected job is not revived, an agent call creates one job per worker, the
  outcome shown is the outcome of the worker shown.
* *Configuration.* A request changes one row and then rebuilds registry and policy
  engine in place, while other requests do the same and operations are decided;
  at start, recovered runs do not wait for the first load. Correct means: only an
  active policy authorizes, a reload leaves what the table says, no operation is
  decided by half a configuration at start.
* *Accounts.* Every change is made twice, in a table and in a map that a restart
  rebuilds; login reads one or the other. Correct means: what a request answered
  holds at the next login, and the initial admin is not locked out.
* *Agent runs.* The row of a run is read, worked on for minutes and written back
  whole, by goroutines that know nothing of each other: the request, every
  approval, a cancellation, the recovery scan. Correct means: effects are
  recorded before they happen, the event log covers the transcript, an
  interrupted run is picked up again, a paused run can be resumed, a run that has
  ended and is left alone stays ended.
* *Agent requests.* The model's answer comes in interleaved fragments and may be cut
  off; a bounded channel joins the goroutine that runs the agent to the one that
  serves the client, who may leave. Correct means: no text is lost, only complete
  calls are executed, what the client is told is in the conversation, both
  goroutines end.
* *Registration.* A worker is looked up by name and type and inserted in two
  statements, from streams and from REST; its ID outlives streams, deletion and
  restarts of the server, which seed the ID counter anew. Correct means: an ID does
  not change its meaning while an agent serves under it, no two rows for one worker,
  no agent connected as a worker that is gone.

`PROJECT.json` lists all components, and under `hazards` each hard spot with its
line and the properties aimed at it.

## 2. Modules

    Link            what a stream promises: a lossy link without acknowledgement
      ^  ^
      |  '-- WorkerStream   hub, stream handlers, receivers    MCWorkerStream
      |            '------- WorkerStreamProofs
    JobDispatch     jobs table, handlers, workers              MCJobDispatch
      ^  '-- WorkerTypes    which worker type runs which job type
      '----- JobDispatchProofs
    AgentRun        one persistent agent run                   MCAgentRun
      ^----- AgentRunProofs
    ManagedConfig   configurations, registry, policy engine    MCManagedConfig
      ^  '-- Selection      the elements of a sequence in a set
      '----- ManagedConfigProofs
    WorkerRegistry  table of workers, IDs, agents              MCWorkerRegistry
      ^----- WorkerRegistryProofs
    AgentStream     one agent request: model, channel, client  MCAgentStream
      ^  '-- Selection
      '----- AgentStreamProofs
    Accounts        table and map of users, tokens             MCAccounts
      ^----- AccountsProofs

`SelectionProofs`, which `ManagedConfigProofs` and `AgentStreamProofs` extend, holds
the lemmas about `Selection` and an induction rule over the naturals.

### Link

The abstract specification of the path from the server to a worker: `up`,
`inflight`, `received` per worker; a push is accepted or silently dropped; an
envelope in flight is delivered at most once, or lost. `JobDispatch` uses it in
place of the streams (`L == INSTANCE Link`), `WorkerStream` is shown to implement
it (`ImplementsLink`), so the results of the two modules fit together.

### WorkerStream

State: `hub` (the map), `buf` and `closed` (the channels), `of` and `pc` (the
handler of each stream: its worker and how far it got), `recv` (its receiving
goroutine), `link` and `wire` (the transport). `acc`, `got`, `pushed` record
history; `panicked` becomes true when a closed channel is sent to or closed.
The hub's methods hold its lock, so each is one step; everything else is one
step per statement of `Stream` that can block or that another goroutine can
observe. A stream can break at any time, its handler notices at any later time.

| Code | Definition |
|---|---|
| `Hub.register`, `unregister`, `push` | `HubRegister`, `HubUnregister`, `HubPush` |
| `Stream` up to registration | `Accept`, `Refuse` (all early returns), `RegisterWorker` |
| `hub.register`, reply, start of `receiveLoop` | `JoinHub`, `Greet` |
| the select loop and the deferred unregister | `Forward`, `LeaveLoop`, `Return` |
| `receiveLoop` | `ReceiveRefused`, `ReceiveFailed` |
| transport and worker | `WorkerRecv`, `Break` |

### JobDispatch

State: `jobs` (the table), `registered` (the rows of `workers`), `req` (one
goroutine per request: next step, the worker IDs still to serve, the job and the
row value in its memory), the link, and per worker the pushes it executes and the
results on their way back. One action is one SQL statement or one push; the reads
at the start of `AssignJobToWorkers` are one step, because only the later UPDATE
is visible to others. `StatementFails` lets any statement fail, `ServerCrash`
kills all goroutines and streams and keeps the tables.

| Code | Definition |
|---|---|
| `handleCreateJob` | `ArriveCreate`, then `CheckWorker`, `InsertJob`, `AssignRead`, `AssignUpdate`, `Reload`, `PushJob` per worker |
| `createModuleOperation` | `ArriveAgent`, then `SelectByKey`, `InsertJob` and, without approval, the dispatch steps |
| `handleDispatchJob` | `ArriveDispatch`, `GetBase`, `CheckWorker`, `InsertJob` for the copies, dispatch steps |
| `handleApproveJob` | `ArriveOnJob`, `ApproveJob`, `GetApproved` and twice the dispatch steps; or `RejectJob` |
| `handleDeleteJob`, `DeleteJob` | `GetDoomed`, `DeleteRow` |
| `handleJobResult`, `CompleteJob` | `HandleResult`, `MayComplete` |
| worker client and runner | `ReceiveJob`, `SendResult`, `WorkerConnects`, `WorkerDisconnects` |

Names, commands, parameters, timestamps and audit records are left out. Whether a
call needs approval is decided at each execution of it, from the registry and the
policy of the moment, and so is the type of its module: `ArriveAgent` takes both from
`Decisions` and `Types`, anew for a repeated call. The key under which a repeat finds
its job knows nothing of the decision, so a repeat that needs no approval dispatches a
job that waits for one (`Created`); a push made so is marked `waived`. The HTTP endpoint by which a worker may report a result ends in the same
`CompleteJob`; the shipped worker reports on its stream.

### AgentRun

State: `row` (the run's row in `agent_runs`: status, transcript, next step),
`calls`, `events`, `jobs` (what the run's calls put up for approval), `go` (the
goroutines that work on the run, each with its copy of the row and the locals of
`RunMessages`; they are numbered and start in that order), `asked`. One action is one
SQL statement, one answer of the model or one tool execution. The model (external)
answers with any sequence of fresh call IDs, with none, or fails. `Failures` bounds
the statements that fail, `Crashes` says whether the server dies and is restarted.
`lost` and `dropped` record what an error kept from being written: the event of a
message, or the start or end of an execution. What a message says is a number, its
`content`; the transcript also has the calls of an answer and the call of a result, the
event log has the content alone (`EventOf`).

| Code | Definition |
|---|---|
| `createPersistentRun` | `CreateRun` |
| `executePersistentRun` | `GetRun`, `MarkRunning`, `LogAssistant`, `RecordCall`, `CompleteCall`, `LogTool`, `PersistOutcome` |
| `RunMessages` | `AskModel`, `SaveAssistant`, `RecordCall`, `ExecuteTool`, `SaveTool` |
| `handleApproveJob`, resume and reject | `Approve`; `Reject`, `GetRejected`, `PutCancelled`, `NoteCancelled` |
| cancel endpoint | `Cancel`, `GetCancelled`, `PutCancelled`, `NoteCancelled` |
| server start, `resumeInterruptedAgentRuns` | `Restart`, `Scan` |

Conversation messages
and the copy of the events for the client are the matter of `AgentStream`: nothing
reads them back into a run. Metrics are left out.

### AgentStream

One request to the agent as its client sees it. State: `run` (the producer, the
goroutine that runs the agent: next step, what it has read of an answer, the calls
still to execute, how many tool events are persisted), `said` (what the model has
sent), `events` (`result.Events`), `chan` (the channel), `handler`, `cancelled` (the
context of the run), `client` and `got`, `exists` and `conv` (the conversation). A
fragment of an answer, a send on the channel, a tool execution, a message added to
the conversation are one step each; `mode` is "plain" for a request that does not
ask for a stream, which the handler serves alone.

| Code | Definition |
|---|---|
| `handleAgentRun`, `handleAgentRunStream` up to the execution | `Setup` |
| `CompleteStream` | `ReadText`, `ReadCall`, `ReadEnd` with `Assemble`; `Abort` |
| `Complete` | `Complete` |
| `onDelta` | `SendDelta`, `CancelDelta` |
| `RunMessages` | `Assistant`, `ExecuteTool`, `Offer`, `Ask`, `Finish` |
| the rest of the producer | `PersistTool`, `PersistAnswer`, `SendDone`, `Close` |
| the loop over the channel, `<-done` | `Forward`, `HandlerReturns` |
| client, HTTP server, timeout | `Leave`, `NoticeLeave`, `Expire` |
| `AddConversationMessage`, `DeleteConversation` | the same |

The two modules on runs divide the matter: here the ledger is only an `Abort` that
can happen, there the client is only a context that can be cancelled. Text is a
number of fragments; a tool call is two, the first of which leaves its arguments
unfinished. The model's service is external: it numbers calls from the first on and
sends [DONE] at the end, but its connection can end at any time. What a client has
received is forgotten when it leaves. In memory a message for a deleted conversation
is kept under an ID that no listing shows; the model drops it.

### WorkerRegistry

State: `rows` (the table: name and type as one `key`, status), `audited` (the highest
ID in `audit_logs`), `nextID` (the counter), `hub`, `stream` (the handler of each
connection), `buf` (commands on the way), `agent` (the stream each agent process
holds), `req` (the REST request being served). `backend` chooses between PostgreSQL
and the in-memory repository, which forgets everything at a restart and ignores status
updates and deletions. One action is one statement, or one push. `raced` records the
names whose registrations overlapped or could not read.

| Code | Definition |
|---|---|
| `RegisterWorker` | `LookupWorker`, `ReuseWorker`, `InsertWorker` with `NewID`; called by `StreamRegisters`, `ReqRegisters` |
| `Stream` around it | `Connect`, `Join`, `Leave`, `EndStream` |
| heartbeats | `Heartbeat` on a stream, `WorkerHeartbeat` over REST |
| stop, force stop, restart | `MarkWorker`, `PushMarked`; the agent's side is `HandleCommand` |
| delete | `PushDelete`, `DeleteWorker` |
| `recordAudit`, `AddAuditLog` | `RecordAudit`, `AddAuditLog` |
| `seedCounter`, server start | `SeedCounter`, `SeedFromTables`, `Restart` |

The channel of a stream is here the buffer of `WorkerStream`, reduced to commands; an
ended handler has left the hub. REST requests are served one at a time, next to any
number of streams. The statuses stopping, force_stopping and restarting are one,
`marked`; so are the commands stop and force_stop. An agent that has exited is one
that does not connect again, which `Connect` does not owe. A read of the seed can fail
like any other statement; the table is then skipped, and `unread` keeps which ones the
last start has skipped. Of the nine tables that are read, two are modelled.

### ManagedConfig

State: `configs` and `age` (the rows of `managed_configs` and the order of their
`updated_at`), `modules` (the module registry, reduced to risk levels), `allowed`
and `levels` (the policy engine), `adm` (the goroutines that change the
configuration, `NewServer` among them), `op` (module operations of the agent up to
their decision). The registry locks each access, so each is one step. The policy
engine has no lock: each assignment in `Configure`, and each level that it adds, is
a step of its own. `seen` and the field `alone` record history.

| Code | Definition |
|---|---|
| `handleSaveManagedConfig`, the delete case, `handleManagedConfigSync` | `Save`, `Delete`, `Sync` |
| `syncManagedConfigs` | `SyncGet`, `SyncSave`, `SyncFails`, per file `NextFile` |
| `reloadManagedConfigs` | `ClearTemplateModules`, `ListManagedConfigs` with `Listing`, per record `NextDocument` |
| `applyManagedConfig` | `ConfigureAllowed`, `ConfigureReset`, `ConfigureFill`; `Register` |
| `createModuleOperation` up to `RequiresManualApproval` | `GetModule`, `ValidateTemplate`, `RefuseParameters`, `RequiresManualApproval`, `MergeRisk` |
| server start | `Booting`, `Restart` |

Blocked tools and keywords are left out: no handler of a module operation reads
them. A document that does not parse is refused before anything changes, and the
same parser accepts it again at reload.

### Accounts

State: `table` (the rows of `users`), `users` (the map of `auth.Service`), `tokens`
(valid tokens, wherever they are), `req` (a goroutine per request). An operation is
a statement and then a critical section on the map; `Restart` may come between. A
start is one step, since nothing is served before it is complete. `settled`, and
`alone` in `req`, record what the last undisturbed request on a user answered.
`Trim` is kept because create and change trim a password and login does not.
A password is stored as a hash, a record of the password and a salt, and login compares
twice (`Opens`): by bcrypt, and as plain text, so that the text of the hash is accepted
as well. bcrypt refuses passwords of more than 72 bytes (`TooLong`); create and change
then fail, while `NewService` keeps the configured password in the clear (`Stored`), and
only the plain comparison lets the initial admin in.

| Code | Definition |
|---|---|
| `Login`, `generateToken`, `ParseToken` | `Login`, `LoginUnknown`, `LoginFallback`, `Issue`, `Expire` |
| `CreateUser` | `CreateUser` (`InsertUser`), `KeepInMemory` |
| `DeleteUser` | `DeleteUser` (`RemoveUser`), `DropFromMemory` |
| `ChangePassword` | `ChangePassword` (`UpdatePassword`), `PutInMemory` |
| checks of the handlers | `MayCreate`, `MayDelete`, `MayChange` |
| `NewService`, `SeedUserStore`, server start | `Stored`, `FreshMap`, `SeedUserStore`, `Restart` |
| bcrypt (external) | `GenerateFromPassword`, `CompareHashAndPassword` |

## 3. Runs

| Run | Checks | Bounds, and why they are enough |
|---|---|---|
| `stream` | `TypeOK`, `NoPanic`, `RoutedToLiveStream`, `StreamFIFO`, `DeadStreamEnds`, `ReceiverEnds`, `ImplementsLink` | 2 workers, 2 streams, 2 envelopes, buffer 1, no symmetry: one worker has an old and a new stream, or two workers share the hub; the second envelope finds the buffer full. More streams are a matter of the proofs |
| `dispatch` | `TypeOK`, `ApprovalGate`, `ResultFromAssignee`, `OneJobPerKey`, `RejectionStands` | 3 requests of 6 kinds, 2 jobs, 2 workers, one call with either decision at each arrival, all faults: call, decision and a racing third request, which may be the call once more. Requests name one worker here; longer lists are a matter of the proofs, and the two rounds of an approval exercise the loop |
| `dispatch_live` | `AcceptedFinishes` | 3 requests of 6 kinds, 2 jobs, 1 worker, either decision, no faults: one job is created or put up and another dispatched twice, taken over by a repeat or deleted beside it on the same stream |
| `agent` | `TypeOK`, `RecordedBeforeEffect`, `PausePointSaved`, `TranscriptIsLogged`, `RunSettles`, `SettledEndStays` | 3 goroutines, 1 risky call for 2 workers, 2 steps, 1 failing statement, crashes: the request, and two of approvals, rejections, cancellations and recoveries in any order |
| `chat` | `TypeOK`, `RefreshSeesAll`, `TextArrivesWhole`, `ExecutedAsSent`, `RequestEnds` | 2 steps, 2 fragments of text and 2 calls of 2 fragments per answer, buffer 2, 1 failing message: fragments interleave, the buffer is full in the midst of an answer and at its end, events are dropped |
| `registry` | `TypeOK`, `IdentityHolds`, `NoIDCollision`, `OneRowPerKey`, `ServedIsOnline` | 1 agent with 2 streams, 2 names, IDs up to 4, 2 workers in the table at a time, buffer 1, 1 restart, 1 failing statement, which may be a read of the seed: an old stream lives beside the new one and beside REST registrations of the same and of another name; 4 IDs suffice for a worker, its audit entry, its deletion with another entry, and a worker after it, or for the same after a restart; 2 rows for a duplicate or for two names |
| `config` | `TypeOK`, `DecisionsGrounded`, `ReloadExact`, `BootDecides` | `NewServer` and 2 administrators, 1 operation, 2 policies (one open, one closed), 1 group, 1 template, failures and restarts: two reloads and a decision interleave, two policies compete |
| `accounts` | `TypeOK`, `AcknowledgedHolds`, `InitialAdminStays` | 2 users, 2 passwords, one that trims to another and one that is too long, 1 salt, 2 requests at a time, any number of them, restarts; a login may type any password or hash |
| `dispatch_once` | `DispatchedOnce`, **violated** | see below |
| `delete_race` | `DeleteOnlyUndispatched`, **violated** | see below |
| `run_resumes` | `ApprovedRunResumes`, **violated** | see below |
| `policy_in_force` | `PolicyIsActive`, **violated** | see below |

Requests, envelopes, calls, goroutines and IDs are used up, an agent request ends, and
without faults a configured server may be left alone; `CHECK_DEADLOCK FALSE` accounts
for that and for nothing else. `accounts` checks
deadlock. Every passing
property has a mutant in `PROJECT.json`: an operator `Mut...` next to the
definition that it replaces, which breaks the property.

The violated properties are statements of the repository that the code does not
keep:

* `DispatchedOnce`: `handleApproveJob` contains its auto-dispatch block twice, so
  an approved agent job is pushed and executed twice. The design document requires
  a rate of duplicate dispatches of zero.
* `DeleteOnlyUndispatched`: `DeleteJob` checks and deletes in two statements; a
  dispatch in between makes it delete a running job, against its own comment.
* `ApprovedRunResumes`: a job can be approved as soon as its row exists, before
  the goroutine that created it has saved the pause. The resumed execution
  finishes first and the late save sets the run back to `waiting_approval`, with
  no job left to approve. The comment in the handler promises that the run resumes.
* `PolicyIsActive`: a reload empties the registry but not the policy engine, so a
  policy that was deleted or deactivated stays in force until a restart. The engine's
  comment says that authorization comes exclusively from the active policy.

More that the models show and no run is spent on:

* a tool call that is executed again after the policy or the risk of its module has
  changed finds its job by the key and dispatches it without looking at its row: a job
  that waits for approval runs without one, and a rejected job runs after all.
  `ApprovalGate` and `RejectionStands` name this as the one exception, and show that
  there is no other. docs/design/2026-08-03-agent-architecture-upgrade.md:205 says that
  after a rejection or a change of policy a call must not be executed;
* without any fault, the second result of a job that was dispatched twice is refused,
  the refusal ends the stream, and the other jobs on it stay running for ever:
  `AcceptedFinishes` says that a job gets its outcome or its stream ends, and no more;
* a table that cannot be read at start is skipped by `seedCounter`: IDs are then issued
  a second time, inserts fail on the primary key, and the ID of a deleted worker can go
  to another one while its agent is still connected. The comment at postgres.go:69
  promises the contrary; `NoIDCollision` and `IdentityHolds` are about the tables that
  were read;
* the text of the stored hash opens an account like its password does, and a password
  that was set with blanks around it does not open it as it was typed;
* after a start that could not seed the table, an operator account can be created under
  the name of the initial admin, whose role is then gone for good (`InitialAdminStays`
  is about the login, not the role);
* the event log does not tell which calls an answer made or which call a result belongs
  to, so a transcript cannot be rebuilt from it (`TranscriptIsLogged` is about the
  contents);
* `UpdateAgentRun` writes the whole row from a stale copy: a run that was cancelled
  while its first goroutine was about to start runs on, and the cancel endpoint turns
  a completed run into a cancelled one (`SettledEndStays` is about runs of which no
  goroutine holds an older copy);
* a client that leaves behind a full buffer keeps handler and producer for ever: the
  last event waits for room and nobody reads (`Stuck` in `RequestEnds`, which shows
  that this is the only way);
* an answer of the model that is cut off before [DONE] and contains no call becomes
  the answer of the run;
* of a failed run, the conversation keeps the tool events and not the error if it was
  streamed, and the error and not the tool events if not; the answer of a run that was
  resumed after an approval never gets into the conversation;
* two registrations of one name and type that overlap, or a SELECT that fails, leave two
  workers with the same name and type (`OneRowPerKey` shows that nothing else does);
* a heartbeat of an agent sets a worker online again that was marked as stopping, so the
  mark says nothing for long; `ServedIsOnline` states it as what the code does, row and
  stream agreeing in the end, and not as a wish;
* a cancellation that read the row early also writes back the old transcript, which
  removes saved messages;
* the step budget of a run starts again after every crash, because `NextStep` is
  saved only at the end of an execution;
* of several active policies the one saved longest ago decides, since the listing is
  newest first and the last one applied wins (`ReloadExact` states it so);
* while `Configure` refills the approval levels, a risky operation of a serving
  server needs no approval (at start this cannot happen: `BootDecides`);
* configs/managed/templates/README.md:3 and :26 also demand that the tool of a template is
  authorised by `allowed_tools`; no handler of a module operation checks that, and
  `DecisionsGrounded` is about the templates alone;
* a sync in missing mode overwrites a row that was saved after it looked;
* a delete between the two halves of a create leaves a user in the map alone: able
  to log in, not listed, not deletable before a restart;
* after a restart, delete and change of password work and answer an error.

### Fairness

* `WorkerStream!FairSpec`: the goroutines of the server run. `Forward` has a
  condition of its own since the select loop chooses fairly among ready cases;
  workers, network and callers of `push` owe nothing.
* `JobDispatch!FairSpec`: handlers run, a delivered job ends (the runner enforces a
  timeout), results travel. Users owe no request; workers owe no connection.
* `AgentRun!FairSpec`: goroutines run; the model answers or the run's context
  expires (`context.WithTimeout`). Nobody owes an approval. A restart always starts
  the recovery scan, which is why an interrupted run settles.
* `AgentStream!FairSpec`: producer and handler are scheduled; the model and the tools
  answer or time out (the HTTP client after 120 seconds, the run after its own
  limit); a client that is there takes what is written to it, and the HTTP server
  notices one that is not.
* `WorkerRegistry!FairSpec`: an agent that is connected beats every ten seconds, and
  the handler of a stream whose agent is gone or whose channel was closed notices.
  Connections, registrations and requests are owed by nobody.

## 4. Proofs

For every value of the constants, from the named assumptions in the modules
(`CapAssumption`, `NoneAssumption`; `ConstantsAssumption`; `RunAssumption`;
`RegistryAssumption`; `AccountsAssumption`; `ConfigAssumption`; `StreamAssumption`):

* `WorkerStreamProofs`: `StreamTypeCorrect`, `NoPanicHolds`,
  `RoutedToLiveStreamHolds`. The inductive invariant `HubInv` adds to these two
  facts that relate handlers and channels: `OwnerInv` (a stream has a worker from
  `joining` on) and `OpenInv` (a channel whose handler has not yet joined the hub is
  open: nobody can have closed it before the hub knew it).
  They are needed because `unregister` decides by comparing channels whether to
  close, and `push` whether a channel is open by finding it in the map.

  `StreamFIFOHolds` and `ImplementsLinkHolds` rest on `FlowInv`, which adds three facts
  about envelopes. `OrderInv`: what was received, what is on the wire and what waits in
  the buffer are, one after the other, pieces of what was accepted, and without a gap
  as long as the stream is up. `OnceInv`: an envelope is accepted once, by one stream;
  `Link` keeps a set per worker, in which a copy on another stream of that worker would
  keep an envelope in flight after its delivery. `EmptyInv`: a stream accepts nothing before it is in the hub.
  The refinement mapping takes the union over the streams of a worker; each action is
  then a step of `Link` or a stutter: `JoinHub` connects, `HubPush` is accepted or
  dropped, `WorkerRecv` delivers, `Forward` and `Break` may lose, and `Return` also
  disconnects if the hub still knows the stream.
* `JobDispatchProofs`: `TypeCorrect`, `ApprovalGateHolds`,
  `ResultFromAssigneeHolds`, `OneJobPerKeyHolds`, `RejectionStandsHolds`. The
  inductive invariant `IInv` says what a handler knows at each of its steps. Its
  core is about stale reads: `AssignUpdate` has no condition on the status, so the
  proof needs that a handler that is at a dispatch step works on a job that was
  cleared when it was read, or executes a call that it decided needs no approval, and
  that a cleared row stays cleared (`Sendable`, which no action undoes). The rejection
  theorem follows from the same fact: a row that some other handler may dispatch is no
  longer waiting for a decision.
* `AgentRunProofs`: `RunTypeCorrect`, `RecordedBeforeEffectAlways`,
  `TranscriptIsLoggedAlways`, `PausePointSavedAlways`, `SettledEndStaysAlways`. A
  goroutine works on a copy of the run and saves it whole, so what holds of the row
  has to hold of every copy first. `GoFine` says so for each step: the calls still to
  do were asked for in an answer that is in the event log, the current one is recorded from `execute` on, and the
  contents of its transcript are in the log except for the one message (`Pending`) whose
  event is the goroutine's next statement. Ledger, log and jobs only grow (`Keeps`), so
  that goroutines which rest stay fine (`Frame`). `SettledEndStays` needs a second,
  smaller invariant (`Ended`): the row has ended and nobody executes it; it is kept
  because an execution does not start on a row that has ended, and a cancellation
  that holds a copy can only save another end.
* `WorkerRegistryProofs`: `RegistryTypeCorrect`, `IdentityHoldsAlways`,
  `NoIDCollisionAlways`, `OneRowPerKeyAlways`. The ID of a stream is used long after
  it was issued, over deletions of its row: `StreamFine` keeps that, if the last start
  has read the workers, it is not above the counter and no other worker has got it, `ReqFine` what a request in progress
  carries. `InsertInv` says that whoever is about to insert a key without a race is
  alone with it and the key is absent, which is what one row per key rests on between
  SELECT and INSERT.
* `AccountsProofs`: `AccountsTypeCorrect`, `AcknowledgedHoldsAlways`,
  `InitialAdminStaysAlways`. `IInv` adds what protects an answer from the requests
  that are half done: for a deleted user no create is between its two halves
  (`DeletedInv`), for a known password no operation is, and the table holds a hash of
  the password as it was typed but for the blanks around it (`KnownInv`), an undisturbed
  request finds in the table what it wrote (`AloneInv`), and the initial admin is in
  the map (`AdminInv`). The frame lemmas treat the first half of all three
  operations at once (`WriteFrame`), and the second (`AnswerFrame`).
* `ManagedConfigProofs`: `ConfigTypeCorrect`, `DecisionsGroundedHolds`. A decision is
  grounded if what it was read from is, so `ConfigInv` follows a document on its whole
  way: active rows are in the history (`TableInv`); a reload carries documents, or what
  is left of them to apply, of the history (`AdmInv`); registry and engine hold only
  what such a document gave (`EngineInv`); and an operation has its risk, and later its
  permission, from one (`OpInv`). The history only grows, so that no interleaving can
  take the ground from under a value that was read earlier.
* `AgentStreamProofs`: `StreamTypeCorrect`, `ExecutedAsSentHolds`,
  `RefreshSeesAllHolds`, `TextArrivesWholeHolds`. `StreamInv` says where the producer
  is with each of its products. `ReadInv`: its locals are what the model has sent, no
  call has begun before the ones in front of it, and later steps are untouched.
  `ExecInv`: while an answer is read no event is of its step, and the next tool is the
  successor of the last event. `ConvInv` and `DoneInv`: the conversation at each point,
  and that the last event exists only when it is complete. `TextInv` looks at the
  events received and the channel as one sequence (`Pipe`), which `Forward` leaves
  alone: it holds the text of every answered step in full and of the current step up to
  the fragment that `onDelta` holds, and what is not text lies behind the text of the
  steps before it. The last part, that nothing of the current step but text is there
  yet (`Below`), is what lets a step become answered.
* `SelectionProofs`: what `OnlyIn` selects from the empty sequence and from one to
  which an element is appended, and its type. The induction rules of the library take
  an operator as a parameter; `NatSetInduction` takes a set in its place, and is derived
  from the well-foundedness of the naturals.

Left to TLC: liveness (`DeadStreamEnds`, `ReceiverEnds`, `AcceptedFinishes`,
`RunSettles`, `ServedIsOnline`, `RequestEnds`), since TLAPS does not handle fairness;
`ReloadExact` and `BootDecides`, which compare the outcome of a whole reload with the
table and whose proofs are part of the plan.

## 5. Plan

Done: Link, WorkerStream, JobDispatch, AgentRun, ManagedConfig, Accounts,
WorkerRegistry, AgentStream; their runs; the proofs above.

1. Proofs: `ReloadExact` and `BootDecides`. They need the order in which `Listing`
   returns the rows, that `age` names every row once, and how far the registry and the
   engine agree with the part of the listing that was applied.
2. The jobs of the in-memory repository as another implementation of the job table,
   with critical sections in place of statements; its idempotency keys.
3. Pure functions against reference definitions: `collectIDs`, `MergeRisk`,
   `validateDiscoveredWorkers`.

## 6. Not modelled

Incident cases, dashboard and metrics (single statements, read-only views), the UI,
SSH deployment, shell execution on the worker, flag parsing and generated code. The
jobs of the in-memory repository, which are a test double of the table: they are
created, assigned and completed under one mutex each, and without a database nothing
survives a restart. `AssignNextJob` is not called by any handler. A YAML batch ends at
its first rendering: the template engine is filled in `NewServer` from a registry that
is still empty, and never again, so the statements after it are not reached. Without a
database the accounts live in the map alone. Sanitising of texts and validation of
parameters happen before the first modelled step and only decide whether a request
arrives at all. Nobody chooses a password that is itself the text of a hash, and a text
longer than 72 bytes, of which bcrypt compares the first 72 only, is not typed at a
login in place of its beginning. The heartbeat goroutine of a broken stream of the worker client stays
behind for ever, since a stopped ticker does not close its channel; it shares no state
with anything, so that there is nothing to model.

## 7. Running

    tlc -workers 2 -config Dispatch.cfg MCJobDispatch
    tlapm JobDispatchProofs.tla
