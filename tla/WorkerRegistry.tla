--------------------------- MODULE WorkerRegistry ---------------------------
(***************************************************************************)
(* The table of workers: registration, heartbeats, stop, restart, delete.  *)
(*                                                                         *)
(* An agent process is configured with a name and a type (its key).  It    *)
(* opens a stream, the stream's handler looks its key up in the table and  *)
(* answers the ID of the row it found or inserted; a REST request can do   *)
(* the same.  The ID is what operators use: jobs and commands for it go to *)
(* the stream that the hub holds for it (WorkerStream has the details).    *)
(*                                                                         *)
(* One step is one statement of the repository.  The repository is the     *)
(* PostgreSQL one, whose rows outlive the server, or the one in memory.    *)
(* Audit entries draw their IDs from the same counter, which a start seeds *)
(* from the tables.                                                        *)
(***************************************************************************)
EXTENDS Naturals, Sequences, FiniteSets

CONSTANTS
    Agents,     \* agent processes
    Keys,       \* pairs of name and type
    KeyOf,      \* KeyOf[a]: what agent a is configured with
    Streams,    \* connections that exist at a time, numbered
    Cap,        \* buffer of an outbound channel (32 in the code)
    MaxID,      \* bound: the highest ID that is issued
    MaxRows,    \* bound: workers in the table at a time
    MaxStarts,  \* bound: how often the server is started again
    Failures,   \* bound: statements that fail in a behaviour
    None        \* no agent, no stream

ASSUME RegistryAssumption ==
    /\ KeyOf \in [Agents -> Keys]
    /\ Cap \in Nat \ {0}
    /\ MaxID \in Nat
    /\ MaxRows \in Nat
    /\ MaxStarts \in Nat
    /\ Failures \in Nat
    /\ Streams \subseteq Nat
    /\ None \notin Agents \cup Streams \cup Keys

VARIABLES
    backend,    \* which repository the server was configured with
    rows,       \* workers: ID -> row
    audited,    \* the highest ID in audit_logs
    nextID,     \* the counter of genID and newID
    hub,        \* Hub.workers: ID -> stream, or None
    stream,     \* the handlers: next step and locals
    buf,        \* commands on their way to the agent of a stream
    agent,      \* the stream an agent holds, or None: between two, or exited
    req,        \* the request that is being served: next step and locals
    starts,     \* how often the server was started again
    errors,     \* statements that have failed
    unread,     \* history: tables that the last start could not read
    raced       \* history: keys whose registrations overlapped or failed

IDs == 1..MaxID

\* "stop" stands for stop and force_stop, which differ in how the process
\* ends; "marked" for the statuses stopping, force_stopping and restarting.
Commands == {"stop", "restart"}
Statuses == {"online", "marked"}
Rows == [key : Keys, status : Statuses]
StreamPCs == {"none", "lookup", "reuse", "insert", "audit", "serve"}
ReqPCs == {"idle", "reuse", "insert", "push", "remove", "audit"}
Seeded == {"workers", "audit_logs"}
Table == UNION {[ids -> Rows] : ids \in SUBSET IDs}

table == <<rows, audited, nextID>>
vars == <<backend, rows, audited, nextID, hub, stream, buf, agent, req,
          errors, starts, unread, raced>>

TypeOK ==
    /\ backend \in {"postgres", "memory"}
    /\ rows \in Table
    /\ audited \in 0..MaxID
    /\ nextID \in 0..MaxID
    /\ hub \in [IDs -> Streams \cup {None}]
    /\ stream \in [Streams -> [pc : StreamPCs, agent : Agents \cup {None}, id : IDs \cup {0}]]
    /\ buf \in [Streams -> Seq(Commands)]
    /\ agent \in [Agents -> Streams \cup {None}]
    /\ req \in [pc : ReqPCs, key : Keys \cup {None}, id : IDs \cup {0},
                command : Commands \cup {"none"}]
    /\ starts \in 0..MaxStarts
    /\ errors \in 0..Failures
    /\ unread \in SUBSET Seeded
    /\ raced \in SUBSET Keys

Closed == [pc |-> "none", agent |-> None, id |-> 0]
Request(pc, key, id, command) == [pc |-> pc, key |-> key, id |-> id, command |-> command]
Idle == Request("idle", None, 0, "none")

\* The server was just started for the first time, on an empty database.
Init ==
    /\ backend \in {"postgres", "memory"}
    /\ rows = [id \in {} |-> [key |-> None, status |-> "online"]]
    /\ audited = 0
    /\ nextID = 0
    /\ hub = [id \in IDs |-> None]
    /\ stream = [s \in Streams |-> Closed]
    /\ buf = [s \in Streams |-> <<>>]
    /\ agent = [a \in Agents |-> None]
    /\ req = Idle
    /\ starts = 0
    /\ errors = 0
    /\ unread = {}
    /\ raced = {}

-----------------------------------------------------------------------------
(* Helpers.                                                                *)

\* A statement fails, which only happens to a database.
Fails == backend = "postgres" /\ errors < Failures /\ errors' = errors + 1

\* Mutant: only a worker that is marked online is found.
MutFoundOnline(k) == {id \in DOMAIN rows : rows[id].key = k /\ rows[id].status = "online"}

\* The rows that the SELECT by name and type matches.
Found(k) == {id \in DOMAIN rows : rows[id].key = k}

\* Mutant: the lowest ID that no row has, or the last one.
MutNewIDGap == CHOOSE id \in IDs : /\ id \in DOMAIN rows => id = MaxID
                                  /\ \A i \in IDs \ DOMAIN rows : id <= i

\* genID
NewID == nextID + 1

\* Some handler has looked for key k in vain and has not inserted it yet.
Inserting(k) ==
    \/ \E s \in Streams : stream[s].pc = "insert" /\ KeyOf[stream[s].agent] = k
    \/ req.pc = "insert" /\ req.key = k

SetOnline(id) ==
    rows' = IF id \in DOMAIN rows THEN [rows EXCEPT ![id].status = "online"] ELSE rows

Put(id, k) ==
    rows' = [i \in DOMAIN rows \cup {id} |->
                IF i = id THEN [key |-> k, status |-> "online"] ELSE rows[i]]

\* The agent of stream s has given it up or is gone.
Gone(s) == agent[stream[s].agent] # s

\* The handler of stream s returns, the deferred unregister included, and the
\* agent, if it is still there, sees the end of the stream.
EndStream(s) ==
    /\ stream' = [stream EXCEPT ![s] = Closed]
    /\ buf' = [buf EXCEPT ![s] = <<>>]
    /\ hub' = [id \in IDs |-> IF hub[id] = s THEN None ELSE hub[id]]
    /\ agent' = [a \in Agents |-> IF agent[a] = s THEN None ELSE agent[a]]

connections == <<hub, stream, buf, agent>>

-----------------------------------------------------------------------------
(* RegisterWorker, statement by statement.                                 *)

\* SELECT by name and type: it goes on with some row, or with an INSERT if there
\* is none.  Any error counts as none.
LookupWorker(k, pc, id) ==
    \/ /\ pc = "reuse" /\ id \in Found(k)
       /\ UNCHANGED <<errors, raced>>
    \/ /\ pc = "insert" /\ id = 0
       /\ Found(k) = {}
       /\ raced' = IF Inserting(k) THEN raced \cup {k} ELSE raced
       /\ UNCHANGED errors
    \/ /\ pc = "insert" /\ id = 0
       /\ Fails
       /\ raced' = raced \cup {k}

\* The row found is set online, if it is still there; errors are ignored.
ReuseWorker(id) ==
    \/ SetOnline(id) /\ UNCHANGED errors
    \/ Fails /\ UNCHANGED rows

\* genID, then the INSERT, which fails if a row has the ID.
InsertWorker(k, inserted) ==
    /\ nextID < MaxID
    /\ Cardinality(DOMAIN rows) < MaxRows
    /\ nextID' = nextID + 1
    /\ \/ /\ inserted
          /\ NewID \notin DOMAIN rows
          /\ Put(NewID, k)
          /\ UNCHANGED errors
       \/ /\ ~inserted
          /\ (NewID \in DOMAIN rows /\ UNCHANGED errors) \/ Fails
          /\ UNCHANGED rows

\* AddAuditLog, errors ignored; the entry has an ID of the same counter.
AddAuditLog ==
    /\ nextID < MaxID
    /\ nextID' = nextID + 1
    /\ \/ /\ audited' = IF audited < NewID THEN NewID ELSE audited
          /\ UNCHANGED errors
       \/ Fails /\ UNCHANGED audited

-----------------------------------------------------------------------------
(* Agents and the handlers of their streams.                               *)

\* runGRPCStream: an agent that has no stream, or was just started, opens one
\* and sends its key.
Connect(a, s) ==
    /\ agent[a] = None
    /\ stream[s].pc = "none" /\ \A t \in Streams : t < s => stream[t].pc # "none"
    /\ stream' = [stream EXCEPT ![s] = [pc |-> "lookup", agent |-> a, id |-> 0]]
    /\ agent' = [agent EXCEPT ![a] = s]
    /\ UNCHANGED <<backend, table, hub, buf, req, errors, starts, unread, raced>>

StreamGoto(s, pc, id) ==
    /\ stream' = [stream EXCEPT ![s].pc = pc, ![s].id = id]
    /\ UNCHANGED <<hub, buf, agent>>

StreamRegisters(s) ==
    LET k == KeyOf[stream[s].agent] IN
    /\ \/ /\ stream[s].pc = "lookup"
          /\ \E pc \in {"reuse", "insert"}, id \in IDs \cup {0} :
                LookupWorker(k, pc, id) /\ StreamGoto(s, pc, id)
          /\ UNCHANGED table
       \/ /\ stream[s].pc = "reuse"
          /\ ReuseWorker(stream[s].id)
          /\ StreamGoto(s, "audit", stream[s].id)
          /\ UNCHANGED <<audited, nextID, raced>>
       \/ /\ stream[s].pc = "insert"
          /\ \/ InsertWorker(k, TRUE) /\ StreamGoto(s, "audit", NewID)
             \/ InsertWorker(k, FALSE) /\ EndStream(s)
          /\ UNCHANGED <<audited, raced>>
    /\ UNCHANGED <<backend, req, starts, unread>>

\* The audit entry, which only a later start looks at, hub.register and the
\* reply; from here on the agent beats.  A stream that had the ID is replaced.
Join(s) ==
    /\ stream[s].pc = "audit"
    /\ AddAuditLog
    /\ hub' = [hub EXCEPT ![stream[s].id] = s]
    /\ stream' = [stream EXCEPT ![s].pc = "serve"]
    /\ UNCHANGED <<backend, rows, buf, agent, req, starts, unread, raced>>

\* Mutant: a heartbeat for an unknown worker is accepted.
MutHeartbeatUnknown(s) ==
    /\ stream[s].pc = "serve"
    /\ ~Gone(s)
    /\ SetOnline(stream[s].id)
    /\ UNCHANGED <<backend, audited, nextID, connections, req, errors, starts, unread, raced>>

\* The heartbeat of every ten seconds sets the worker online, whatever its
\* status was; if there is no such worker, or on an error of the UPDATE or of
\* the SELECT that follows it, the stream ends.
Heartbeat(s) ==
    /\ stream[s].pc = "serve"
    /\ ~Gone(s)
    /\ \/ /\ stream[s].id \in DOMAIN rows
          /\ SetOnline(stream[s].id)
          /\ UNCHANGED <<connections, errors>>
       \/ /\ (stream[s].id \notin DOMAIN rows /\ UNCHANGED errors) \/ Fails
          /\ EndStream(s)
          /\ UNCHANGED rows \/ SetOnline(stream[s].id)
    /\ UNCHANGED <<backend, audited, nextID, req, starts, unread, raced>>

\* The agent receives a command: it replaces its runner and stays, or exits.
HandleCommand(s) ==
    LET a == stream[s].agent IN
    /\ stream[s].pc = "serve"
    /\ ~Gone(s)
    /\ buf[s] # <<>>
    /\ buf' = [buf EXCEPT ![s] = Tail(@)]
    /\ agent' = IF Head(buf[s]) = "restart" THEN agent ELSE [agent EXCEPT ![a] = None]
    /\ UNCHANGED <<backend, table, hub, stream, req, errors, starts, unread, raced>>

\* The select loop ends: the agent has gone, or another stream took the ID.
Leave(s) ==
    /\ stream[s].pc = "serve"
    /\ Gone(s) \/ (hub[stream[s].id] # s /\ buf[s] = <<>>)
    /\ EndStream(s)
    /\ UNCHANGED <<backend, table, req, errors, starts, unread, raced>>

\* The connection is lost.  The handler goes on until it finds out.
Break(s) ==
    /\ stream[s].pc # "none"
    /\ ~Gone(s)
    /\ agent' = [agent EXCEPT ![stream[s].agent] = None]
    /\ UNCHANGED <<backend, table, hub, stream, buf, req, errors, starts, unread, raced>>

-----------------------------------------------------------------------------
(* REST requests, one at a time: a request arrives with its first step.     *)
(* Each one but a heartbeat draws an ID for its audit entry, so that MaxID  *)
(* bounds them.                                                            *)

Known == DOMAIN rows \cup {id \in IDs : hub[id] # None}

Return == req' = Idle
Audited == req' = Request("audit", None, 0, "none")

\* handleCreateWorker and handleRegisterWorker
ReqRegisters ==
    /\ \/ /\ req.pc = "idle"
          /\ \E k \in Keys, pc \in {"reuse", "insert"}, id \in IDs \cup {0} :
                LookupWorker(k, pc, id) /\ req' = Request(pc, k, id, "none")
          /\ UNCHANGED table
       \/ /\ req.pc = "reuse"
          /\ ReuseWorker(req.id)
          /\ Audited
          /\ UNCHANGED <<audited, nextID, raced>>
       \/ /\ req.pc = "insert"
          /\ \/ InsertWorker(req.key, TRUE) /\ Audited
             \/ InsertWorker(req.key, FALSE) /\ Return
          /\ UNCHANGED <<audited, raced>>
    /\ UNCHANGED <<backend, connections, starts, unread>>

\* recordAudit, the last step of a request.
RecordAudit ==
    /\ req.pc = "audit"
    /\ AddAuditLog
    /\ Return
    /\ UNCHANGED <<backend, rows, connections, starts, unread, raced>>

\* handleWorkerHeartbeat and handleUpdateHostInfo
WorkerHeartbeat(id) ==
    /\ req.pc = "idle"
    /\ \/ SetOnline(id) /\ UNCHANGED errors
       \/ Fails /\ UNCHANGED rows
    /\ UNCHANGED <<backend, audited, nextID, connections, req, starts, unread, raced>>

\* Mutant: the command is written where its status belongs.
MutMarkCommand(id, command) ==
    /\ req.pc = "idle"
    /\ id \in DOMAIN rows
    /\ rows' = [rows EXCEPT ![id].status = command]
    /\ req' = Request("push", None, id, command)
    /\ UNCHANGED <<backend, audited, nextID, connections, errors, starts, unread, raced>>

\* handleStopWorker and handleRestartWorker: UpdateWorkerStatus, which does
\* nothing in memory.
MarkWorker(id, command) ==
    /\ req.pc = "idle"
    /\ \/ /\ rows' = IF backend = "postgres" /\ id \in DOMAIN rows
                     THEN [rows EXCEPT ![id].status = "marked"]
                     ELSE rows
          /\ req' = Request("push", None, id, command)
          /\ UNCHANGED errors
       \/ Fails /\ UNCHANGED <<rows, req>>
    /\ UNCHANGED <<backend, audited, nextID, connections, starts, unread, raced>>

\* Hub.PushCommand: dropped without a stream or without room.
PushCommand(id, command) ==
    LET s == hub[id] IN
    buf' = IF s # None /\ Len(buf[s]) < Cap
           THEN [buf EXCEPT ![s] = Append(@, command)] ELSE buf

PushMarked ==
    /\ req.pc = "push"
    /\ PushCommand(req.id, req.command)
    /\ Audited
    /\ UNCHANGED <<backend, table, hub, stream, agent, errors, starts, unread, raced>>

\* handleDeleteWorker pushes a command before it deletes.
PushDelete(id) ==
    /\ req.pc = "idle"
    /\ PushCommand(id, "stop")
    /\ req' = Request("remove", None, id, "none")
    /\ UNCHANGED <<backend, table, hub, stream, agent, errors, starts, unread, raced>>

\* DeleteWorker, which does nothing in memory.
DeleteWorker ==
    /\ req.pc = "remove"
    /\ \/ /\ rows' = IF backend = "postgres"
                     THEN [id \in DOMAIN rows \ {req.id} |-> rows[id]] ELSE rows
          /\ Audited
          /\ UNCHANGED errors
       \/ Fails /\ Return /\ UNCHANGED rows
    /\ UNCHANGED <<backend, audited, nextID, connections, starts, unread, raced>>

-----------------------------------------------------------------------------
(* The server dies or is stopped, and is started again.                    *)

\* The IDs in a table, or the highest of them.
IssuedIn(t) == IF t = "workers" THEN DOMAIN rows ELSE {audited}

SeedIDs(failed) == {0} \cup UNION {IssuedIn(t) : t \in Seeded \ failed}

\* Mutant: the counter is set below the highest ID.
MutSeedLow(failed) ==
    \E id \in SeedIDs(failed) : (\A i \in SeedIDs(failed) : i <= id + 1) /\ nextID' = id

\* seedCounter: the highest ID found in the tables.  One that cannot be read is
\* skipped.  (The code reads seven more tables, whose IDs are of the same counter.)
SeedCounter(failed) ==
    \E id \in SeedIDs(failed) : (\A i \in SeedIDs(failed) : i <= id) /\ nextID' = id

\* Some of the reads may fail.
SeedFromTables ==
    \E failed \in SUBSET Seeded :
        /\ errors' = errors + Cardinality(failed)
        /\ errors' <= Failures
        /\ SeedCounter(failed)
        /\ unread' = failed

Restart ==
    /\ starts < MaxStarts
    /\ starts' = starts + 1
    /\ hub' = [id \in IDs |-> None]
    /\ stream' = [s \in Streams |-> Closed]
    /\ buf' = [s \in Streams |-> <<>>]
    /\ agent' = [a \in Agents |-> None]
    /\ req' = Idle
    /\ \/ /\ backend = "postgres"
          /\ SeedFromTables
          /\ UNCHANGED <<rows, audited>>
       \/ /\ backend = "memory"
          /\ rows' = [id \in {} |-> rows[id]]
          /\ audited' = 0
          /\ nextID' = 0
          /\ UNCHANGED <<errors, unread>>
    /\ UNCHANGED <<backend, raced>>

Next ==
    \/ \E s \in Streams :
        \/ \E a \in Agents : Connect(a, s)
        \/ StreamRegisters(s)
        \/ Join(s)
        \/ Heartbeat(s)
        \/ HandleCommand(s)
        \/ Leave(s)
        \/ Break(s)
    \/ ReqRegisters
    \/ \E id \in Known :
        \/ WorkerHeartbeat(id)
        \/ \E command \in Commands : MarkWorker(id, command)
        \/ PushDelete(id)
    \/ PushMarked
    \/ DeleteWorker
    \/ RecordAudit
    \/ Restart

Spec == Init /\ [][Next]_vars

\* A connected agent beats every ten seconds, and a handler whose agent has
\* gone finds out.
FairSpec == Spec /\ \A s \in Streams : WF_vars(Heartbeat(s) \/ Leave(s))

-----------------------------------------------------------------------------
(* Properties.                                                             *)

Serving(s) == stream[s].pc = "serve"

\* What is sent for a worker reaches an agent of the name and type of its row,
\* the ones the dispatcher has checked: an ID that an agent still serves under
\* is not given to another worker, over deletions and restarts, as long as the
\* last start could read the IDs of the workers.  (After one that could not, a
\* deleted worker's ID can be issued again while its agent is still connected.)
IdentityHolds ==
    "workers" \notin unread =>
        \A s \in Streams :
            Serving(s) /\ stream[s].id \in DOMAIN rows =>
                rows[stream[s].id].key = KeyOf[stream[s].agent]

\* After any number of restarts the counter is not below an ID in the tables,
\* so that no worker and no audit entry is lost on a primary key, except in a
\* table that the last start could not read, until a start can read it again.
NoIDCollision == \A t \in Seeded \ unread : \A id \in IssuedIn(t) : id <= nextID

\* RegisterWorker is idempotent as long as it runs alone and can read: two
\* rows of one name and type come only from registrations that overlapped, or
\* from a SELECT that failed.
OneRowPerKey ==
    \A i, j \in DOMAIN rows : rows[i].key = rows[j].key /\ i # j => rows[i].key \in raced

\* An agent does not stay connected as a worker that was deleted, and a mark of
\* a stop or restart does not stay on a worker that goes on beating: either
\* the row is there and online, or the stream ends.
Online(s) == stream[s].id \in DOMAIN rows /\ rows[stream[s].id].status = "online"
ServedIsOnline ==
    \A s \in Streams : (Serving(s) /\ ~Online(s)) ~> (~Serving(s) \/ Online(s))
=============================================================================
