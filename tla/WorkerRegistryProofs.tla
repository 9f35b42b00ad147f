------------------------ MODULE WorkerRegistryProofs ------------------------
(* Theorems about WorkerRegistry, for any agents, streams and bounds. *)
EXTENDS WorkerRegistry, FiniteSetTheorems, TLAPS

\* From these steps on, a stream stands for the worker with its ID.
Named == {"reuse", "audit", "serve"}

\* NoIDCollision, table by table.
CounterFine ==
    /\ "workers" \notin unread => \A id \in DOMAIN rows : id <= nextID
    /\ "audit_logs" \notin unread => audited <= nextID

\* The ID of a stream was issued, and no other worker has got it since, unless
\* the counter may be behind.
StreamFine(s) ==
    /\ stream[s].pc # "none" => stream[s].agent \in Agents
    /\ stream[s].pc \in Named =>
        /\ stream[s].id \in IDs
        /\ "workers" \notin unread =>
            /\ stream[s].id <= nextID
            /\ stream[s].id \in DOMAIN rows => rows[stream[s].id].key = KeyOf[stream[s].agent]

\* What the next step of the request needs is there.
ReqFine ==
    /\ req.pc = "insert" => req.key \in Keys
    /\ req.pc = "push" => req.command \in Commands

StreamInserts(s, k) == stream[s].pc = "insert" /\ KeyOf[stream[s].agent] = k
ReqInserts(k) == req.pc = "insert" /\ req.key = k

\* Whoever is about to insert a key without a race is alone, and it is not there.
InsertInv ==
    \A k \in Keys \ raced :
        /\ \A s \in Streams : StreamInserts(s, k) =>
            /\ Found(k) = {} /\ ~ReqInserts(k)
            /\ \A t \in Streams \ {s} : ~StreamInserts(t, k)
        /\ ReqInserts(k) => Found(k) = {}

IInv ==
    /\ TypeOK
    /\ CounterFine
    /\ \A s \in Streams : StreamFine(s)
    /\ ReqFine
    /\ InsertInv
    /\ OneRowPerKey

-----------------------------------------------------------------------------
(* The counter.                                                            *)

\* The two forms of the property say the same.
LEMMA CounterIs == NoIDCollision <=> CounterFine
BY DEF NoIDCollision, CounterFine, Seeded, IssuedIn

\* The reads of a start: how many failed stays within the bound of failures.
LEMMA SeedTyped ==
    ASSUME TypeOK, SeedFromTables, UNCHANGED <<rows, audited>>, DOMAIN rows \subseteq IDs
    PROVE  /\ CounterFine' /\ unread' \in SUBSET Seeded
           /\ nextID' \in 0..MaxID /\ errors' \in 0..Failures
<1>1. PICK failed \in SUBSET Seeded :
        /\ errors' = errors + Cardinality(failed) /\ errors' <= Failures
        /\ SeedCounter(failed) /\ unread' = failed
  BY DEF SeedFromTables
<1>2. Cardinality(failed) \in Nat
  <2>1. IsFiniteSet({"workers"}) /\ Seeded = {"workers"} \cup {"audit_logs"}
    BY FS_Singleton DEF Seeded
  <2>2. IsFiniteSet(Seeded)
    BY <2>1, FS_AddElement
  <2> QED BY <2>2, FS_Subset, FS_CardinalityType
<1>3. errors' \in 0..Failures
  BY <1>1, <1>2, RegistryAssumption DEF TypeOK
<1>4. /\ SeedIDs(failed) \subseteq 0..MaxID
      /\ "workers" \notin failed => DOMAIN rows \subseteq SeedIDs(failed)
      /\ "audit_logs" \notin failed => audited \in SeedIDs(failed)
  BY RegistryAssumption DEF SeedIDs, IssuedIn, Seeded, TypeOK, IDs
<1>5. nextID' \in SeedIDs(failed) /\ \A i \in SeedIDs(failed) : i <= nextID'
  BY <1>1 DEF SeedCounter
<1> QED BY <1>1, <1>3, <1>4, <1>5 DEF CounterFine

-----------------------------------------------------------------------------
(* The table.                                                              *)

\* A table gives rows to some of the IDs.
LEMMA TableIs ==
    ASSUME NEW r
    PROVE  r \in Table <=> DOMAIN r \subseteq IDs /\ r \in [DOMAIN r -> Rows]
BY DEF Table

\* No row is new, and none changes its key.
Shrinks ==
    /\ DOMAIN rows' \subseteq DOMAIN rows
    /\ \A id \in DOMAIN rows' : rows'[id].key = rows[id].key

\* A step that leaves the table alone.
LEMMA SameShrinks == rows' = rows => Shrinks
BY DEF Shrinks

\* A status is written.
LEMMA StatusFrame ==
    ASSUME TypeOK, NEW id, NEW status \in Statuses,
           rows' = IF id \in DOMAIN rows THEN [rows EXCEPT ![id].status = status] ELSE rows
    PROVE  rows' \in Table /\ DOMAIN rows' = DOMAIN rows /\ Shrinks
<1>1. DOMAIN rows \subseteq IDs /\ rows \in [DOMAIN rows -> Rows]
  BY TableIs DEF TypeOK
<1>2. CASE id \notin DOMAIN rows
  BY <1>2, SameShrinks DEF TypeOK
<1>3. CASE id \in DOMAIN rows
  <2>1. DOMAIN rows' = DOMAIN rows /\ rows' \in [DOMAIN rows -> Rows]
    BY <1>1, <1>3 DEF Rows
  <2>2. \A i \in DOMAIN rows : rows'[i].key = rows[i].key
    BY <1>1, <1>3 DEF Rows
  <2> QED BY <1>1, <2>1, <2>2, TableIs DEF Shrinks
<1> QED BY <1>2, <1>3

\* A heartbeat or a registration writes online.
LEMMA OnlineFrame ==
    ASSUME TypeOK, NEW id, SetOnline(id)
    PROVE  rows' \in Table /\ DOMAIN rows' = DOMAIN rows /\ Shrinks
BY StatusFrame DEF SetOnline, Statuses

\* A row is added under the next ID.
LEMMA PutFrame ==
    ASSUME TypeOK, NEW k \in Keys, NEW id \in IDs, id \notin DOMAIN rows, Put(id, k)
    PROVE  /\ rows' \in Table
           /\ DOMAIN rows' = DOMAIN rows \cup {id}
           /\ rows'[id].key = k
           /\ \A i \in DOMAIN rows : rows'[i].key = rows[i].key
<1>1. DOMAIN rows \subseteq IDs /\ rows \in [DOMAIN rows -> Rows]
  BY TableIs DEF TypeOK
<1>2. [key |-> k, status |-> "online"] \in Rows
  BY DEF Rows, Statuses
<1>3. DOMAIN rows' = DOMAIN rows \cup {id} /\ rows' \in [DOMAIN rows \cup {id} -> Rows]
  BY <1>1, <1>2 DEF Put
<1> QED BY <1>1, <1>3, TableIs DEF Put

\* Rows are removed.
LEMMA RemoveFrame ==
    ASSUME TypeOK, NEW ids \in SUBSET DOMAIN rows, rows' = [id \in ids |-> rows[id]]
    PROVE  rows' \in Table /\ DOMAIN rows' = ids /\ Shrinks
<1>1. DOMAIN rows \subseteq IDs /\ rows \in [DOMAIN rows -> Rows]
  BY TableIs DEF TypeOK
<1>2. DOMAIN rows' = ids /\ rows' \in [ids -> Rows]
  BY <1>1
<1> QED BY <1>1, <1>2, TableIs DEF Shrinks

-----------------------------------------------------------------------------
(* Steps that insert nothing and do not begin to.                          *)

\* The streams and the request that move are fine where they arrive.
LEMMA Frame ==
    ASSUME IInv, TypeOK', CounterFine', Shrinks, raced \subseteq raced',
           \A s \in Streams :
               \/ stream'[s] = stream[s] /\ nextID <= nextID' /\ unread' = unread
               \/ stream'[s].pc # "insert" /\ StreamFine(s)',
           req' = req \/ (req'.pc # "insert" /\ ReqFine')
    PROVE  IInv'
<1>1. \A s \in Streams : StreamFine(s)'
  <2> SUFFICES ASSUME NEW s \in Streams, stream'[s] = stream[s], nextID <= nextID', unread' = unread
               PROVE  StreamFine(s)'
    OBVIOUS
  <2>1. StreamFine(s) /\ nextID \in Nat /\ nextID' \in Nat
    BY DEF IInv, TypeOK
  <2> QED BY <2>1 DEF StreamFine, Shrinks, IDs
<1>2. ReqFine'
  BY DEF IInv, ReqFine
<1>3. \A k : Found(k)' \subseteq Found(k)
  BY DEF Found, Shrinks
<1>4. \A k : \A s \in Streams : StreamInserts(s, k)' => StreamInserts(s, k)
  BY DEF StreamInserts
<1>5. \A k : ReqInserts(k)' => ReqInserts(k)
  BY DEF ReqInserts
<1>6. InsertInv'
  <2> SUFFICES ASSUME NEW k \in Keys \ raced'
               PROVE  /\ \A s \in Streams : StreamInserts(s, k)' =>
                          /\ Found(k)' = {} /\ ~ReqInserts(k)'
                          /\ \A t \in Streams \ {s} : ~StreamInserts(t, k)'
                      /\ ReqInserts(k)' => Found(k)' = {}
    BY DEF InsertInv
  <2> QED BY <1>3, <1>4, <1>5 DEF IInv, InsertInv
<1>7. OneRowPerKey'
  BY DEF IInv, OneRowPerKey, Shrinks
<1> QED BY <1>1, <1>2, <1>6, <1>7 DEF IInv

-----------------------------------------------------------------------------
(* Steps that begin to insert, and steps that insert.                      *)

\* What the lookup in vain leaves: the key is missing and nobody else is about
\* to insert it, or it counts as raced.
LEMMA LookupFrame ==
    ASSUME IInv, NEW k \in Keys, NEW id, LookupWorker(k, "insert", id)
    PROVE  /\ id = 0
           /\ raced \subseteq raced' /\ raced' \in SUBSET Keys /\ errors' \in 0..Failures
           /\ k \notin raced' =>
                Found(k) = {} /\ ~ReqInserts(k) /\ \A s \in Streams : ~StreamInserts(s, k)
<1>1. Inserting(k) <=> ReqInserts(k) \/ \E s \in Streams : StreamInserts(s, k)
  BY DEF Inserting, ReqInserts, StreamInserts
<1> QED BY <1>1, RegistryAssumption DEF LookupWorker, Fails, IInv, TypeOK

\* A stream or the request has looked for k in vain.
LEMMA SeekFrame ==
    ASSUME IInv, TypeOK', UNCHANGED <<table, unread>>, NEW k \in Keys, raced \subseteq raced',
           k \notin raced' =>
                Found(k) = {} /\ ~ReqInserts(k) /\ \A s \in Streams : ~StreamInserts(s, k),
           \/ /\ req' = req
              /\ \E s \in Streams :
                    /\ stream'[s].pc = "insert"
                    /\ stream'[s].agent \in Agents /\ KeyOf[stream'[s].agent] = k
                    /\ \A t \in Streams \ {s} : stream'[t] = stream[t]
           \/ /\ stream' = stream
              /\ req'.pc = "insert" /\ req'.key = k
    PROVE  IInv'
<1>1. rows' = rows /\ nextID' = nextID /\ audited' = audited
  BY DEF table
<1>2. CounterFine' /\ OneRowPerKey'
  BY <1>1 DEF IInv, CounterFine, OneRowPerKey
<1>3. \A s \in Streams : StreamFine(s)'
  BY <1>1 DEF IInv, StreamFine, Named
<1>4. ReqFine'
  BY DEF IInv, ReqFine
<1>5. \A x : Found(x)' = Found(x)
  BY <1>1 DEF Found
<1>6. InsertInv'
  <2> SUFFICES ASSUME NEW x \in Keys \ raced'
               PROVE  /\ \A s \in Streams : StreamInserts(s, x)' =>
                          /\ Found(x)' = {} /\ ~ReqInserts(x)'
                          /\ \A t \in Streams \ {s} : ~StreamInserts(t, x)'
                      /\ ReqInserts(x)' => Found(x)' = {}
    BY DEF InsertInv
  <2>1. /\ \A s \in Streams : StreamInserts(s, x) =>
            /\ Found(x) = {} /\ ~ReqInserts(x)
            /\ \A t \in Streams \ {s} : ~StreamInserts(t, x)
        /\ ReqInserts(x) => Found(x) = {}
    BY DEF IInv, InsertInv
  <2>2. ASSUME req' = req, NEW s \in Streams,
               stream'[s].pc = "insert", KeyOf[stream'[s].agent] = k,
               \A t \in Streams \ {s} : stream'[t] = stream[t]
        PROVE  /\ \A t \in Streams : StreamInserts(t, x)' =>
                   /\ Found(x)' = {} /\ ~ReqInserts(x)'
                   /\ \A u \in Streams \ {t} : ~StreamInserts(u, x)'
               /\ ReqInserts(x)' => Found(x)' = {}
    BY <1>5, <2>1, <2>2 DEF StreamInserts, ReqInserts
  <2>3. CASE stream' = stream /\ req'.pc = "insert" /\ req'.key = k
    BY <1>5, <2>1, <2>3 DEF StreamInserts, ReqInserts
  <2> QED BY <2>2, <2>3
<1> QED BY <1>2, <1>3, <1>4, <1>6 DEF IInv

\* The row is inserted, and whoever inserted it goes on.
LEMMA InsertFrame ==
    ASSUME IInv, TypeOK', NEW k \in Keys, InsertWorker(k, TRUE), audited' = audited,
           raced' = raced, unread' = unread,
           \/ /\ req' = req
              /\ \E s \in Streams :
                    /\ StreamInserts(s, k) /\ stream[s].agent \in Agents
                    /\ stream'[s].pc = "audit" /\ stream'[s].id = NewID
                    /\ stream'[s].agent = stream[s].agent
                    /\ \A t \in Streams \ {s} : stream'[t] = stream[t]
           \/ /\ stream' = stream
              /\ ReqInserts(k)
              /\ req'.pc = "audit"
    PROVE  IInv'
<1>1. /\ nextID \in Nat /\ nextID < MaxID /\ nextID' = nextID + 1 /\ MaxID \in Nat
      /\ NewID = nextID + 1 /\ NewID \in IDs /\ NewID \notin DOMAIN rows /\ Put(NewID, k)
  BY RegistryAssumption DEF IInv, TypeOK, InsertWorker, NewID, IDs
<1>2. /\ DOMAIN rows' = DOMAIN rows \cup {NewID}
      /\ rows'[NewID].key = k
      /\ \A i \in DOMAIN rows : rows'[i].key = rows[i].key
  BY <1>1, PutFrame DEF IInv
<1>3. CounterFine'
  <2>1. audited \in Nat /\ \A i \in DOMAIN rows : i \in Nat
    BY TableIs DEF IInv, TypeOK, IDs
  <2> QED BY <1>1, <1>2, <2>1 DEF IInv, CounterFine
<1>4. \A s \in Streams : StreamFine(s)'
  <2> SUFFICES ASSUME NEW s \in Streams PROVE StreamFine(s)'
    OBVIOUS
  <2>1. CASE stream'[s] = stream[s]
    <3>1. StreamFine(s)
      BY DEF IInv
    <3>2. stream[s].pc \in Named =>
            stream[s].id \in Nat /\ ("workers" \notin unread => stream[s].id # NewID)
      BY <1>1, <3>1 DEF StreamFine, IDs
    <3> QED BY <1>1, <1>2, <2>1, <3>1, <3>2 DEF StreamFine, IDs
  <2>2. CASE /\ StreamInserts(s, k) /\ stream[s].agent \in Agents
             /\ stream'[s].pc = "audit" /\ stream'[s].id = NewID
             /\ stream'[s].agent = stream[s].agent
    BY <1>1, <1>2, <2>2 DEF StreamFine, StreamInserts
  <2> QED BY <2>1, <2>2
<1>5. ReqFine'
  BY DEF IInv, ReqFine
<1>6. \A x \in Keys : x # k => Found(x)' = Found(x)
  BY <1>1, <1>2 DEF Found
<1>7. InsertInv'
  <2> SUFFICES ASSUME NEW x \in Keys \ raced
               PROVE  /\ \A s \in Streams : StreamInserts(s, x)' =>
                          /\ Found(x)' = {} /\ ~ReqInserts(x)'
                          /\ \A t \in Streams \ {s} : ~StreamInserts(t, x)'
                      /\ ReqInserts(x)' => Found(x)' = {}
    BY DEF InsertInv
  <2>1. /\ \A s \in Streams : StreamInserts(s, x) =>
            /\ Found(x) = {} /\ ~ReqInserts(x)
            /\ \A t \in Streams \ {s} : ~StreamInserts(t, x)
        /\ ReqInserts(x) => Found(x) = {}
    BY DEF IInv, InsertInv
  <2>2. \A s \in Streams : StreamInserts(s, x)' => StreamInserts(s, x)
    BY DEF StreamInserts
  <2>3. ReqInserts(x)' => ReqInserts(x)
    BY DEF ReqInserts
  <2>4. CASE x # k
    BY <1>6, <2>1, <2>2, <2>3, <2>4
  <2>5. CASE x = k
    <3>1. ~ReqInserts(x)' /\ \A s \in Streams : ~StreamInserts(s, x)'
      BY <2>1, <2>2, <2>3, <2>5 DEF StreamInserts, ReqInserts
    <3> QED BY <3>1
  <2> QED BY <2>4, <2>5
<1>8. OneRowPerKey'
  <2>1. k \in raced \/ Found(k) = {}
    BY DEF IInv, InsertInv
  <2>2. \A i \in DOMAIN rows : rows[i].key = k => k \in raced
    BY <2>1 DEF Found
  <2> QED BY <1>1, <1>2, <2>2 DEF IInv, OneRowPerKey
<1> QED BY <1>3, <1>4, <1>5, <1>7, <1>8 DEF IInv

-----------------------------------------------------------------------------
(* The steps.                                                              *)

Handlers == [pc : StreamPCs, agent : Agents \cup {None}, id : IDs \cup {0}]
Requests == [pc : ReqPCs, key : Keys \cup {None}, id : IDs \cup {0},
             command : Commands \cup {"none"}]

\* The locals of a request.
LEMMA RequestTyped ==
    ASSUME NEW pc \in ReqPCs, NEW k \in Keys \cup {None}, NEW id \in IDs \cup {0},
           NEW command \in Commands \cup {"none"}
    PROVE  /\ Request(pc, k, id, command) \in Requests
           /\ Request(pc, k, id, command).pc = pc
           /\ Request(pc, k, id, command).key = k
           /\ Request(pc, k, id, command).command = command
BY DEF Request, Requests

\* A request that ends, or has only its audit entry left.
LEMMA ReqEnds ==
    ASSUME Return \/ Audited
    PROVE  req' \in Requests /\ req'.pc \notin {"insert", "push"} /\ ReqFine'
<1>1. CASE Return
  BY <1>1, RequestTyped DEF Return, Idle, ReqPCs, ReqFine
<1>2. CASE Audited
  BY <1>2, RequestTyped DEF Audited, ReqPCs, ReqFine
<1> QED BY <1>1, <1>2

\* The failures that have happened stay within their bound.
LEMMA FailsTyped == TypeOK /\ (Fails \/ errors' = errors) => errors' \in 0..Failures
BY RegistryAssumption DEF TypeOK, Fails

\* A stream that nobody uses.
LEMMA ClosedTyped == Closed \in Handlers /\ Closed.pc = "none"
BY DEF Closed, Handlers, StreamPCs

\* The end of a stream.
LEMMA EndFrame ==
    ASSUME TypeOK, NEW s \in Streams, EndStream(s)
    PROVE  /\ hub' \in [IDs -> Streams \cup {None}]
           /\ stream' \in [Streams -> Handlers]
           /\ buf' \in [Streams -> Seq(Commands)]
           /\ agent' \in [Agents -> Streams \cup {None}]
           /\ \A t \in Streams :
                stream'[t] = stream[t] \/ (stream'[t].pc # "insert" /\ StreamFine(t)')
<1>1. /\ hub' \in [IDs -> Streams \cup {None}]
      /\ buf' \in [Streams -> Seq(Commands)]
      /\ agent' \in [Agents -> Streams \cup {None}]
  BY DEF EndStream, TypeOK
<1>2. stream' \in [Streams -> Handlers] /\ stream'[s] = Closed
  BY ClosedTyped DEF EndStream, TypeOK, Handlers
<1>3. \A t \in Streams \ {s} : stream'[t] = stream[t]
  BY DEF EndStream, TypeOK
<1> QED BY <1>1, <1>2, <1>3, ClosedTyped DEF StreamFine, Named

\* One stream goes on.
LEMMA GotoFrame ==
    ASSUME TypeOK, NEW s \in Streams, NEW pc \in StreamPCs, NEW id \in IDs \cup {0},
           stream' = [stream EXCEPT ![s].pc = pc, ![s].id = id]
    PROVE  /\ stream' \in [Streams -> Handlers]
           /\ stream'[s].pc = pc /\ stream'[s].id = id /\ stream'[s].agent = stream[s].agent
           /\ \A t \in Streams \ {s} : stream'[t] = stream[t]
BY DEF TypeOK, Handlers

\* The tables of a step that issues no ID and audits nothing.
LEMMA QuietFrame ==
    ASSUME IInv, Shrinks, nextID' = nextID, audited' = audited, unread' = unread
    PROVE  CounterFine' /\ nextID <= nextID'
BY TableIs DEF IInv, CounterFine, Shrinks, TypeOK

\* An audit entry takes the next ID.
LEMMA AuditFrame ==
    ASSUME IInv, AddAuditLog, rows' = rows, unread' = unread
    PROVE  /\ CounterFine' /\ nextID <= nextID'
           /\ nextID' \in 0..MaxID /\ audited' \in 0..MaxID /\ errors' \in 0..Failures
<1>1. nextID \in 0..MaxID /\ audited \in 0..MaxID /\ MaxID \in Nat /\ DOMAIN rows \subseteq IDs
  BY RegistryAssumption, TableIs DEF IInv, TypeOK
<1>2. /\ nextID' = nextID + 1 /\ nextID < MaxID
      /\ audited' \in {audited, nextID + 1}
  BY DEF AddAuditLog, NewID
<1>3. errors' \in 0..Failures
  BY FailsTyped DEF IInv, AddAuditLog
<1> QED BY <1>1, <1>2, <1>3 DEF IInv, CounterFine, IDs

\* A new server knows no worker, and has issued nothing.
LEMMA InitIInv == Init => IInv
<1> SUFFICES ASSUME Init PROVE IInv
  OBVIOUS
<1>1. DOMAIN rows = {}
  BY DEF Init
<1>2. rows \in Table
  BY <1>1, TableIs DEF Init
<1>3. req = Request("idle", None, 0, "none")
  BY DEF Init, Idle
<1>4. req \in Requests /\ req.pc = "idle"
  BY <1>3, RequestTyped DEF ReqPCs
<1>5. TypeOK
  BY <1>2, <1>4, ClosedTyped, RegistryAssumption DEF Init, TypeOK, Handlers, Requests
<1>6. CounterFine /\ OneRowPerKey
  BY <1>1 DEF Init, CounterFine, OneRowPerKey
<1>7. \A s \in Streams : stream[s].pc = "none"
  BY ClosedTyped DEF Init
<1> QED BY <1>4, <1>5, <1>6, <1>7 DEF IInv, StreamFine, Named, ReqFine, InsertInv, StreamInserts, ReqInserts

\* The registration of a stream, statement by statement.
LEMMA StreamRegistersIInv ==
    ASSUME IInv, NEW s \in Streams, StreamRegisters(s)
    PROVE  IInv'
<1> DEFINE k == KeyOf[stream[s].agent]
<1>1. /\ TypeOK /\ k \in Keys /\ stream[s].agent \in Agents /\ StreamFine(s)
      /\ UNCHANGED <<backend, req, starts, unread>>
  BY RegistryAssumption DEF IInv, StreamFine, StreamRegisters
<1>2. ASSUME NEW pc \in {"reuse", "insert"}, NEW id \in IDs \cup {0},
             LookupWorker(k, pc, id), StreamGoto(s, pc, id), UNCHANGED table
      PROVE  IInv'
  <2>1. /\ stream' \in [Streams -> Handlers]
        /\ stream'[s].pc = pc /\ stream'[s].id = id /\ stream'[s].agent = stream[s].agent
        /\ \A t \in Streams \ {s} : stream'[t] = stream[t]
        /\ UNCHANGED <<rows, audited, nextID, hub, buf, agent>>
    BY <1>1, <1>2, GotoFrame DEF StreamGoto, StreamPCs, table
  <2>2. CASE pc = "insert"
    <3>1. TypeOK'
      BY <1>1, <1>2, <2>1, <2>2, LookupFrame DEF TypeOK, Handlers
    <3> QED BY <1>1, <1>2, <2>1, <2>2, <3>1, LookupFrame, SeekFrame
  <2>3. CASE pc = "reuse"
    <3>1. id \in Found(k) /\ UNCHANGED <<errors, raced>>
      BY <1>2, <2>3 DEF LookupWorker
    <3>2. TypeOK'
      BY <1>1, <2>1, <3>1 DEF TypeOK, Handlers
    <3>3. /\ id \in DOMAIN rows /\ id \in IDs /\ rows[id].key = k
          /\ "workers" \notin unread => id <= nextID
      BY <1>1, <3>1, TableIs DEF Found, TypeOK, IInv, CounterFine
    <3>4. StreamFine(s)'
      BY <1>1, <2>1, <3>3 DEF StreamFine
    <3> QED BY <1>1, <2>1, <2>3, <3>1, <3>2, <3>4, SameShrinks, QuietFrame, Frame
  <2> QED BY <2>2, <2>3
<1>3. ASSUME stream[s].pc = "reuse", ReuseWorker(stream[s].id),
             StreamGoto(s, "audit", stream[s].id), UNCHANGED <<audited, nextID, raced>>
      PROVE  IInv'
  <2>1. /\ stream' \in [Streams -> Handlers]
        /\ stream'[s].pc = "audit" /\ stream'[s].id = stream[s].id
        /\ stream'[s].agent = stream[s].agent
        /\ \A t \in Streams \ {s} : stream'[t] = stream[t]
        /\ UNCHANGED <<hub, buf, agent>>
    <3>1. stream[s].id \in IDs \cup {0}
      BY <1>1 DEF TypeOK
    <3> QED BY <1>1, <1>3, <3>1, GotoFrame DEF StreamGoto, StreamPCs
  <2>2. rows' \in Table /\ Shrinks /\ errors' \in 0..Failures
    BY <1>1, <1>3, OnlineFrame, SameShrinks, FailsTyped DEF ReuseWorker, TypeOK
  <2>3. TypeOK'
    BY <1>1, <1>3, <2>1, <2>2 DEF TypeOK, Handlers
  <2>4. StreamFine(s)'
    BY <1>1, <1>3, <2>1, <2>2 DEF StreamFine, Shrinks, Named
  <2> QED BY <1>1, <1>3, <2>1, <2>2, <2>3, <2>4, QuietFrame, Frame
<1>4. ASSUME stream[s].pc = "insert", InsertWorker(k, TRUE), StreamGoto(s, "audit", NewID),
             UNCHANGED <<audited, raced>>
      PROVE  IInv'
  <2>1. NewID \in IDs /\ NewID \notin DOMAIN rows /\ nextID' \in 0..MaxID /\ Put(NewID, k) /\ errors' = errors
    BY <1>1, <1>4, RegistryAssumption DEF InsertWorker, NewID, IDs, TypeOK
  <2>2. /\ stream' \in [Streams -> Handlers]
        /\ stream'[s].pc = "audit" /\ stream'[s].id = NewID /\ stream'[s].agent = stream[s].agent
        /\ \A t \in Streams \ {s} : stream'[t] = stream[t]
        /\ UNCHANGED <<hub, buf, agent>>
    BY <1>1, <1>4, <2>1, GotoFrame DEF StreamGoto, StreamPCs
  <2>3. rows' \in Table
    BY <1>1, <2>1, PutFrame
  <2>4. TypeOK'
    BY <1>1, <1>4, <2>1, <2>2, <2>3 DEF TypeOK, Handlers
  <2>5. StreamInserts(s, k)
    BY <1>4 DEF StreamInserts
  <2> QED BY <1>1, <1>4, <2>2, <2>4, <2>5, InsertFrame
<1>5. ASSUME InsertWorker(k, FALSE), EndStream(s), UNCHANGED <<audited, raced>>
      PROVE  IInv'
  <2>1. /\ nextID' = nextID + 1 /\ nextID' \in 0..MaxID /\ nextID <= nextID'
        /\ rows' = rows /\ errors' \in 0..Failures
    BY <1>1, <1>5, RegistryAssumption, FailsTyped DEF InsertWorker, TypeOK
  <2>2. TypeOK'
    BY <1>1, <1>5, <2>1, EndFrame DEF TypeOK, Handlers
  <2>3. CounterFine'
    BY <1>1, <1>5, <2>1, TableIs DEF IInv, CounterFine, TypeOK, IDs
  <2> QED BY <1>1, <1>5, <2>1, <2>2, <2>3, EndFrame, SameShrinks, Frame
<1> QED BY <1>2, <1>3, <1>4, <1>5 DEF StreamRegisters

\* The registration of a request.
LEMMA ReqRegistersIInv ==
    ASSUME IInv, ReqRegisters
    PROVE  IInv'
<1>1. TypeOK /\ ReqFine /\ UNCHANGED <<backend, hub, stream, buf, agent, starts, unread>>
  BY DEF IInv, ReqRegisters, connections
<1>2. ASSUME NEW k \in Keys, NEW pc \in {"reuse", "insert"}, NEW id \in IDs \cup {0},
             LookupWorker(k, pc, id), req' = Request(pc, k, id, "none"), UNCHANGED table
      PROVE  IInv'
  <2>1. /\ req' \in Requests /\ req'.pc = pc /\ req'.key = k
        /\ UNCHANGED <<rows, audited, nextID>>
    BY <1>2, RequestTyped DEF ReqPCs, table
  <2>2. CASE pc = "insert"
    <3>1. TypeOK'
      BY <1>1, <1>2, <2>1, <2>2, LookupFrame DEF TypeOK, Requests
    <3> QED BY <1>1, <1>2, <2>1, <2>2, <3>1, LookupFrame, SeekFrame
  <2>3. CASE pc = "reuse"
    <3>1. UNCHANGED <<errors, raced>>
      BY <1>2, <2>3 DEF LookupWorker
    <3>2. TypeOK'
      BY <1>1, <2>1, <3>1 DEF TypeOK, Requests
    <3>3. ReqFine'
      BY <2>1, <2>3 DEF ReqFine
    <3> QED BY <1>1, <2>1, <2>3, <3>1, <3>2, <3>3, SameShrinks, QuietFrame, Frame
  <2> QED BY <2>2, <2>3
<1>3. ASSUME ReuseWorker(req.id), Audited, UNCHANGED <<audited, nextID, raced>>
      PROVE  IInv'
  <2>1. rows' \in Table /\ Shrinks /\ errors' \in 0..Failures
    BY <1>1, <1>3, OnlineFrame, SameShrinks, FailsTyped DEF ReuseWorker, TypeOK
  <2>2. TypeOK'
    BY <1>1, <1>3, <2>1, ReqEnds DEF TypeOK, Requests
  <2> QED BY <1>1, <1>3, <2>1, <2>2, ReqEnds, QuietFrame, Frame
<1>4. ASSUME req.pc = "insert", InsertWorker(req.key, TRUE), Audited, UNCHANGED <<audited, raced>>
      PROVE  IInv'
  <2>1. /\ req.key \in Keys /\ NewID \in IDs /\ NewID \notin DOMAIN rows
        /\ nextID' \in 0..MaxID /\ Put(NewID, req.key) /\ errors' = errors
    BY <1>1, <1>4, RegistryAssumption DEF InsertWorker, NewID, IDs, TypeOK, ReqFine
  <2>2. rows' \in Table
    BY <1>1, <2>1, PutFrame
  <2>3. TypeOK'
    BY <1>1, <1>4, <2>1, <2>2, ReqEnds DEF TypeOK, Requests
  <2>4. ReqInserts(req.key) /\ req'.pc = "audit"
    BY <1>4 DEF ReqInserts, Audited, Request
  <2> QED BY <1>1, <1>4, <2>1, <2>3, <2>4, InsertFrame
<1>5. ASSUME InsertWorker(req.key, FALSE), Return, UNCHANGED <<audited, raced>>
      PROVE  IInv'
  <2>1. /\ nextID' = nextID + 1 /\ nextID' \in 0..MaxID /\ nextID <= nextID'
        /\ rows' = rows /\ errors' \in 0..Failures
    BY <1>1, <1>5, RegistryAssumption, FailsTyped DEF InsertWorker, TypeOK
  <2>2. TypeOK'
    BY <1>1, <1>5, <2>1, ReqEnds DEF TypeOK, Requests
  <2>3. CounterFine'
    BY <1>1, <1>5, <2>1, TableIs DEF IInv, CounterFine, TypeOK, IDs
  <2> QED BY <1>1, <1>5, <2>1, <2>2, <2>3, ReqEnds, SameShrinks, Frame
<1> QED BY <1>2, <1>3, <1>4, <1>5 DEF ReqRegisters

\* A step of the agents and streams that leaves the handlers alone.
LEMMA ConnectionFrame ==
    ASSUME IInv, UNCHANGED <<backend, rows, audited, nextID, stream, req, starts, unread, raced, errors>>,
           hub' \in [IDs -> Streams \cup {None}], buf' \in [Streams -> Seq(Commands)],
           agent' \in [Agents -> Streams \cup {None}]
    PROVE  IInv'
<1>1. TypeOK'
  BY DEF IInv, TypeOK
<1> QED BY <1>1, SameShrinks, QuietFrame, Frame DEF IInv

\* A command is pushed.
LEMMA PushTyped ==
    ASSUME TypeOK, NEW id, NEW command \in Commands, PushCommand(id, command)
    PROVE  buf' \in [Streams -> Seq(Commands)]
<1> DEFINE s == hub[id]
<1>1. CASE s \in Streams /\ buf' = [buf EXCEPT ![s] = Append(buf[s], command)]
  <2>1. Append(buf[s], command) \in Seq(Commands)
    BY <1>1 DEF TypeOK
  <2> HIDE DEF s
  <2> QED BY <1>1, <2>1 DEF TypeOK
<1>2. CASE s \notin Streams /\ buf' = [buf EXCEPT ![s] = Append(buf[s], command)]
  <2> HIDE DEF s
  <2> QED BY <1>2 DEF TypeOK
<1> QED BY <1>1, <1>2 DEF TypeOK, PushCommand

\* Every step of every actor keeps the invariant.
LEMMA NextIInv == IInv /\ [Next]_vars => IInv'
<1> SUFFICES ASSUME IInv, [Next]_vars PROVE IInv'
  OBVIOUS
<1> USE DEF connections, table
<1>0. TypeOK /\ ReqFine
  BY DEF IInv
<1>1. ASSUME NEW s \in Streams, NEW a \in Agents, Connect(a, s) PROVE IInv'
  <2>1. [pc |-> "lookup", agent |-> a, id |-> 0] \in Handlers
    BY DEF Handlers, StreamPCs
  <2>2. /\ stream' \in [Streams -> Handlers]
        /\ stream'[s].pc = "lookup" /\ stream'[s].agent = a
        /\ \A t \in Streams \ {s} : stream'[t] = stream[t]
    BY <1>0, <1>1, <2>1 DEF Connect, TypeOK, Handlers
  <2>3. TypeOK'
    BY <1>0, <1>1, <2>2 DEF Connect, TypeOK, Handlers
  <2>4. StreamFine(s)'
    BY <2>2 DEF StreamFine, Named
  <2> QED BY <1>1, <2>2, <2>3, <2>4, SameShrinks, QuietFrame, Frame DEF Connect
<1>2. ASSUME NEW s \in Streams, StreamRegisters(s) PROVE IInv'
  BY <1>2, StreamRegistersIInv
<1>3. ASSUME NEW s \in Streams, Join(s) PROVE IInv'
  <2>1. /\ stream' \in [Streams -> Handlers]
        /\ stream'[s].pc = "serve" /\ stream'[s].id = stream[s].id
        /\ stream'[s].agent = stream[s].agent
        /\ \A t \in Streams \ {s} : stream'[t] = stream[t]
    BY <1>0, <1>3 DEF Join, TypeOK, Handlers, StreamPCs
  <2>2. hub' \in [IDs -> Streams \cup {None}]
    BY <1>0, <1>3 DEF Join, TypeOK
  <2>3. /\ CounterFine' /\ nextID <= nextID'
        /\ nextID' \in 0..MaxID /\ audited' \in 0..MaxID /\ errors' \in 0..Failures
    BY <1>3, AuditFrame DEF Join
  <2>4. TypeOK'
    BY <1>0, <1>3, <2>1, <2>2, <2>3 DEF Join, TypeOK, Handlers
  <2>5. StreamFine(s)'
    <3>1. StreamFine(s) /\ stream[s].pc = "audit" /\ rows' = rows /\ unread' = unread
      BY <1>3 DEF IInv, Join
    <3>2. nextID \in Nat /\ nextID' \in Nat
      BY <1>0, <2>3 DEF TypeOK
    <3> QED BY <2>1, <2>3, <3>1, <3>2 DEF StreamFine, Named, IDs
  <2> QED BY <1>3, <2>1, <2>3, <2>4, <2>5, SameShrinks, Frame DEF Join
<1>4. ASSUME NEW s \in Streams, Heartbeat(s) PROVE IInv'
  <2>1. rows' \in Table /\ Shrinks
    BY <1>0, <1>4, OnlineFrame, SameShrinks DEF Heartbeat, TypeOK
  <2>2. errors' \in 0..Failures
    BY <1>0, <1>4, FailsTyped DEF Heartbeat
  <2>3. UNCHANGED <<hub, stream, buf, agent>> \/ EndStream(s)
    BY <1>4 DEF Heartbeat
  <2>4. /\ hub' \in [IDs -> Streams \cup {None}]
        /\ stream' \in [Streams -> Handlers]
        /\ buf' \in [Streams -> Seq(Commands)]
        /\ agent' \in [Agents -> Streams \cup {None}]
        /\ \A t \in Streams :
             stream'[t] = stream[t] \/ (stream'[t].pc # "insert" /\ StreamFine(t)')
    BY <1>0, <2>3, EndFrame DEF TypeOK, Handlers
  <2>5. TypeOK'
    BY <1>0, <1>4, <2>1, <2>2, <2>4 DEF Heartbeat, TypeOK, Handlers
  <2> QED BY <1>4, <2>1, <2>4, <2>5, QuietFrame, Frame DEF Heartbeat
<1>5. ASSUME NEW s \in Streams, HandleCommand(s) PROVE IInv'
  <2>1. buf' \in [Streams -> Seq(Commands)]
    <3>1. buf[s] \in Seq(Commands) /\ buf[s] # <<>> /\ buf' = [buf EXCEPT ![s] = Tail(buf[s])]
      BY <1>0, <1>5 DEF HandleCommand, TypeOK
    <3>2. Tail(buf[s]) \in Seq(Commands)
      BY <3>1
    <3> QED BY <1>0, <3>1, <3>2 DEF TypeOK
  <2>2. agent' \in [Agents -> Streams \cup {None}]
    BY <1>0, <1>5 DEF HandleCommand, TypeOK
  <2> QED BY <1>0, <1>5, <2>1, <2>2, ConnectionFrame DEF HandleCommand, TypeOK
<1>6. ASSUME NEW s \in Streams, Leave(s) PROVE IInv'
  <2>1. TypeOK'
    BY <1>0, <1>6, EndFrame DEF Leave, TypeOK, Handlers
  <2> QED BY <1>0, <1>6, <2>1, EndFrame, SameShrinks, QuietFrame, Frame DEF Leave
<1>7. ASSUME NEW s \in Streams, Break(s) PROVE IInv'
  <2>1. agent' \in [Agents -> Streams \cup {None}]
    BY <1>0, <1>7 DEF Break, TypeOK
  <2> QED BY <1>0, <1>7, <2>1, ConnectionFrame DEF Break, TypeOK
<1>8. CASE ReqRegisters
  BY <1>8, ReqRegistersIInv
<1>9. ASSUME NEW id, WorkerHeartbeat(id) PROVE IInv'
  <2>1. rows' \in Table /\ Shrinks /\ errors' \in 0..Failures
    BY <1>0, <1>9, OnlineFrame, SameShrinks, FailsTyped DEF WorkerHeartbeat, TypeOK
  <2>2. TypeOK'
    BY <1>0, <1>9, <2>1 DEF WorkerHeartbeat, TypeOK
  <2> QED BY <1>9, <2>1, <2>2, QuietFrame, Frame DEF WorkerHeartbeat
<1>10. ASSUME NEW id \in IDs, NEW command \in Commands, MarkWorker(id, command) PROVE IInv'
  <2>1. rows' \in Table /\ Shrinks
    <3>1. rows' \in {rows, IF id \in DOMAIN rows THEN [rows EXCEPT ![id].status = "marked"] ELSE rows}
      BY <1>10 DEF MarkWorker
    <3> QED BY <1>0, <3>1, StatusFrame, SameShrinks DEF Statuses, TypeOK
  <2>2. errors' \in 0..Failures
    BY <1>0, <1>10, FailsTyped DEF MarkWorker
  <2>3. req' = req \/ (req' \in Requests /\ req'.pc # "insert" /\ ReqFine')
    <3>1. req' = req \/ req' = Request("push", None, id, command)
      BY <1>10 DEF MarkWorker
    <3> QED BY <3>1, RequestTyped DEF ReqPCs, ReqFine
  <2>4. TypeOK'
    BY <1>0, <1>10, <2>1, <2>2, <2>3 DEF MarkWorker, TypeOK, Requests
  <2> QED BY <1>10, <2>1, <2>3, <2>4, QuietFrame, Frame DEF MarkWorker
<1>11. ASSUME NEW id \in IDs, PushDelete(id) PROVE IInv'
  <2>1. req' \in Requests /\ req'.pc = "remove"
    BY <1>11, RequestTyped DEF PushDelete, ReqPCs
  <2>2. buf' \in [Streams -> Seq(Commands)]
    BY <1>0, <1>11, PushTyped DEF PushDelete, Commands
  <2>3. TypeOK'
    BY <1>0, <1>11, <2>1, <2>2 DEF PushDelete, TypeOK, Requests
  <2>4. ReqFine'
    BY <2>1 DEF ReqFine
  <2> QED BY <1>11, <2>1, <2>3, <2>4, SameShrinks, QuietFrame, Frame DEF PushDelete
<1>12. CASE PushMarked
  <2>1. buf' \in [Streams -> Seq(Commands)]
    BY <1>0, <1>12, PushTyped DEF PushMarked, ReqFine
  <2>2. TypeOK'
    BY <1>0, <1>12, <2>1, ReqEnds DEF PushMarked, TypeOK, Requests
  <2> QED BY <1>12, <2>2, ReqEnds, SameShrinks, QuietFrame, Frame DEF PushMarked
<1>13. CASE DeleteWorker
  <2>1. rows' \in Table /\ Shrinks
    <3>1. rows' = rows \/ rows' = [id \in DOMAIN rows \ {req.id} |-> rows[id]]
      BY <1>13 DEF DeleteWorker
    <3> QED BY <1>0, <3>1, RemoveFrame, SameShrinks DEF TypeOK
  <2>2. errors' \in 0..Failures /\ (Audited \/ Return)
    BY <1>0, <1>13, FailsTyped DEF DeleteWorker
  <2>3. TypeOK'
    BY <1>0, <1>13, <2>1, <2>2, ReqEnds DEF DeleteWorker, TypeOK, Requests
  <2> QED BY <1>13, <2>1, <2>2, <2>3, ReqEnds, QuietFrame, Frame DEF DeleteWorker
<1>14. CASE RecordAudit
  <2>1. /\ CounterFine' /\ nextID <= nextID'
        /\ nextID' \in 0..MaxID /\ audited' \in 0..MaxID /\ errors' \in 0..Failures
    BY <1>14, AuditFrame DEF RecordAudit
  <2>2. TypeOK'
    BY <1>0, <1>14, <2>1, ReqEnds DEF RecordAudit, TypeOK, Requests
  <2> QED BY <1>14, <2>1, <2>2, ReqEnds, SameShrinks, Frame DEF RecordAudit
<1>15. CASE Restart
  <2>1. /\ stream' \in [Streams -> Handlers]
        /\ \A s \in Streams : stream'[s].pc # "insert" /\ StreamFine(s)'
    BY <1>15, ClosedTyped DEF Restart, StreamFine, Named
  <2>2. Return
    BY <1>15 DEF Restart, Return
  <2>3. DOMAIN rows \subseteq IDs /\ MaxID \in Nat
    BY <1>0, TableIs, RegistryAssumption DEF TypeOK
  <2>4. /\ rows' \in Table /\ Shrinks /\ CounterFine'
        /\ nextID' \in 0..MaxID /\ audited' \in 0..MaxID
        /\ errors' \in 0..Failures /\ unread' \in SUBSET Seeded
    <3>1. CASE SeedFromTables /\ UNCHANGED <<rows, audited>>
      BY <1>0, <2>3, <3>1, SameShrinks, SeedTyped DEF TypeOK
    <3>2. CASE /\ rows' = [id \in {} |-> rows[id]] /\ audited' = 0 /\ nextID' = 0
               /\ UNCHANGED <<errors, unread>>
      <4>1. rows' \in Table /\ DOMAIN rows' = {} /\ Shrinks
        BY <1>0, <3>2, RemoveFrame
      <4> QED BY <1>0, <2>3, <3>2, <4>1 DEF CounterFine, TypeOK
    <3> QED BY <1>15, <3>1, <3>2 DEF Restart
  <2>5. TypeOK'
    BY <1>0, <1>15, <2>1, <2>2, <2>4, ReqEnds, RegistryAssumption DEF Restart, TypeOK, Handlers, Requests
  <2> QED BY <1>15, <2>1, <2>2, <2>4, <2>5, ReqEnds, Frame DEF Restart
<1>16. CASE UNCHANGED vars
  <2>1. TypeOK'
    BY <1>0, <1>16 DEF vars, TypeOK
  <2> QED BY <1>16, <2>1, SameShrinks, QuietFrame, Frame DEF vars
<1>17. Known \subseteq IDs
  BY <1>0, TableIs DEF Known, TypeOK
<1> QED
  BY <1>1, <1>2, <1>3, <1>4, <1>5, <1>6, <1>7, <1>8, <1>9, <1>10, <1>11, <1>12, <1>13, <1>14,
     <1>15, <1>16, <1>17 DEF Next

-----------------------------------------------------------------------------

\* The inductive invariant holds in every state.
LEMMA InvariantHolds == Spec => []IInv
BY InitIInv, NextIInv, PTL DEF Spec

\* The table, the handlers and the agents keep their types.
THEOREM RegistryTypeCorrect == Spec => []TypeOK
<1>1. IInv => TypeOK
  BY DEF IInv
<1> QED BY <1>1, InvariantHolds, PTL

\* Over any number of deletions, restarts and failing statements, with any agents
\* and streams, an ID means one name and type for as long as an agent serves
\* under it: what dispatcher and operators send to a worker reaches that worker,
\* unless the server was started without reading the IDs of the workers.
THEOREM IdentityHoldsAlways == Spec => []IdentityHolds
<1>1. IInv => IdentityHolds
  BY DEF IInv, StreamFine, Named, IdentityHolds, Serving
<1> QED BY <1>1, InvariantHolds, PTL

\* The counter, however often a start seeds it anew, is not below an ID in any
\* table that the last start has read.
THEOREM NoIDCollisionAlways == Spec => []NoIDCollision
<1>1. IInv => NoIDCollision
  BY CounterIs DEF IInv
<1> QED BY <1>1, InvariantHolds, PTL

\* Only overlapping registrations and failing lookups give a worker two rows.
THEOREM OneRowPerKeyAlways == Spec => []OneRowPerKey
<1>1. IInv => OneRowPerKey
  BY DEF IInv
<1> QED BY <1>1, InvariantHolds, PTL
=============================================================================
