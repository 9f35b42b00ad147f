--------------------------- MODULE AgentRunProofs ---------------------------
(* Theorems about AgentRun, for any goroutines, calls, workers and bounds. *)
EXTENDS AgentRun, TLAPS

\* A call of an answer that the event log holds.
InLog(c) == [kind |-> "assistant", content |-> asked[c]] \in events

\* A transcript with the result of a call that put up a job.
Decidable(transcript) ==
    \E c \in Calls :
        /\ \E i \in DOMAIN transcript : transcript[i].kind = "tool" /\ transcript[i].call = c
        /\ \E w \in Workers : jobs[c][w] # "none"

\* The event of the message that a goroutine has put in its transcript and not
\* in the log yet.
Unlogged == {"logAssistant", "complete", "logTool"}
Pending(g) == IF go[g].pc \in Unlogged THEN {EventOf(Newest(g))} ELSE {}

Executing == {"mark", "model", "logAssistant", "saveAssistant", "call", "execute", "complete",
              "logTool", "saveTool", "final"}
Cancelling == {"putRejected", "putCancelled"}
AtCall == {"call", "execute", "complete", "logTool", "saveTool"}
AfterRecord == {"execute", "complete", "logTool", "saveTool"}
AfterEffect == {"complete", "logTool", "saveTool"}

InTodo(g, c) == \E i \in DOMAIN go[g].todo : go[g].todo[i] = c

\* A goroutine has an answer to log: the one that handed out its calls.
AnswerFine(g) ==
    /\ Newest(g).kind = "assistant"
    /\ \A c \in Calls : InTodo(g, c) => asked[c] = Newest(g).content

\* Every message of a transcript is in the log or among the lost, or about to be.
Logged(transcript, pending) ==
    \A i \in DOMAIN transcript : EventOf(transcript[i]) \in events \cup lost \cup pending

\* What a goroutine knows at each of its steps.
GoFine(g) ==
    /\ go[g].pc \in Unlogged => go[g].run.transcript # <<>>
    /\ go[g].pc = "logAssistant" => AnswerFine(g)
    /\ go[g].pc \in AtCall => go[g].todo # <<>>
    /\ go[g].pc \in AtCall \cup {"saveAssistant"} =>
        \A c \in Calls : InTodo(g, c) => InLog(c)
    /\ go[g].pc \in AfterRecord => calls[Head(go[g].todo)] # "none"
    /\ Logged(go[g].run.transcript, Pending(g))
    /\ go[g].pc \in Executing => go[g].run.status = "running"
    /\ go[g].pc \in Cancelling => go[g].run.status = "cancelled"
    /\ go[g].pc \in AfterEffect /\ go[g].paused => Decidable(go[g].run.transcript)
    /\ go[g].pc = "final" /\ go[g].outcome = "waiting_approval" => Decidable(go[g].run.transcript)

RowFine == TranscriptIsLogged /\ PausePointSaved

IInv == TypeOK /\ RecordedBeforeEffect /\ RowFine /\ \A g \in Slots : GoFine(g)

-----------------------------------------------------------------------------
(* Sequences and records.                                                  *)

\* What Append does.
LEMMA AppendFacts ==
    ASSUME NEW S, NEW s \in Seq(S), NEW e \in S
    PROVE  /\ Append(s, e) \in Seq(S)
           /\ \A i \in DOMAIN s : i \in DOMAIN Append(s, e) /\ Append(s, e)[i] = s[i]
           /\ Append(s, e) # <<>> /\ Append(s, e)[Len(Append(s, e))] = e
           /\ \E i \in DOMAIN Append(s, e) : Append(s, e)[i] = e
           /\ \A i \in DOMAIN Append(s, e) :
                Append(s, e)[i] = e \/ (i \in DOMAIN s /\ Append(s, e)[i] = s[i])
<1> DEFINE t == Append(s, e)
<1>1. t \in Seq(S) /\ Len(t) = Len(s) + 1 /\ Len(s) \in Nat
  OBVIOUS
<1>2. DOMAIN t = 1..(Len(s) + 1) /\ DOMAIN s = 1..Len(s)
  OBVIOUS
<1>3. t[Len(s) + 1] = e /\ \A i \in 1..Len(s) : t[i] = s[i]
  OBVIOUS
<1>4. t # <<>> /\ t[Len(t)] = e
  BY <1>1, <1>3
<1> HIDE DEF t
<1> QED BY <1>1, <1>2, <1>3, <1>4

\* What Head and Tail do.
LEMMA TailFacts ==
    ASSUME NEW S, NEW s \in Seq(S), s # <<>>
    PROVE  /\ Head(s) \in S /\ Tail(s) \in Seq(S)
           /\ \E i \in DOMAIN s : s[i] = Head(s)
           /\ \A i \in DOMAIN Tail(s) : i + 1 \in DOMAIN s /\ Tail(s)[i] = s[i + 1]
OBVIOUS

\* The last element of a sequence.
LEMMA LastTyped ==
    ASSUME NEW S, NEW s \in Seq(S), s # <<>>
    PROVE  Len(s) \in DOMAIN s /\ s[Len(s)] \in S
OBVIOUS

\* Messages of a transcript, and their events.
LEMMA MessagesTyped ==
    /\ \A n \in Contents, cs \in Seq(Calls) :
        Reply(n, cs) \in Messages /\ Reply(n, cs).kind = "assistant" /\ Reply(n, cs).content = n
    /\ \A n \in Contents, c \in Calls :
        ToolResult(n, c) \in Messages /\ ToolResult(n, c).kind = "tool" /\ ToolResult(n, c).call = c
    /\ \A m \in Messages : EventOf(m) \in Events /\ m.content \in Contents
<1>1. \A n \in Contents, cs \in Seq(Calls) :
        Reply(n, cs) \in Replies /\ Reply(n, cs).kind = "assistant" /\ Reply(n, cs).content = n
  BY DEF Reply, Replies
<1>2. \A n \in Contents, c \in Calls :
        ToolResult(n, c) \in Results /\ ToolResult(n, c).kind = "tool" /\ ToolResult(n, c).call = c
  BY DEF ToolResult, Results
<1>3. \A m \in Replies : EventOf(m) \in Events /\ m.content \in Contents
  BY DEF Replies, EventOf, Events
<1>4. \A m \in Results : EventOf(m) \in Events /\ m.content \in Contents
  BY DEF Results, EventOf, Events
<1> QED BY <1>1, <1>2, <1>3, <1>4 DEF Messages

\* The newest message of a goroutine.
LEMMA NewestTyped ==
    ASSUME TypeOK, NEW g \in Slots, GoFine(g), go[g].pc \in Unlogged
    PROVE  Newest(g) \in Messages /\ EventOf(Newest(g)) \in Events /\ Newest(g).content \in Contents
<1>1. go[g].run.transcript \in Seq(Messages) /\ go[g].run.transcript # <<>>
  BY DEF TypeOK, Locals, RunRows, GoFine
<1>2. Newest(g) \in Messages
  BY <1>1, LastTyped DEF Newest
<1> QED BY <1>2, MessagesTyped

\* A goroutine that starts or has ended.
LEMMA StartingTyped ==
    ASSUME NEW pc \in RunPCs
    PROVE  /\ NoRun \in RunRows
           /\ Starting(pc) \in Locals
           /\ Starting(pc).pc = pc /\ Starting(pc).run.transcript = <<>>
BY DEF Starting, NoRun, Locals, RunRows, RunStatuses

\* ... holds nothing.
LEMMA StartingFine ==
    ASSUME NEW g \in Slots, NEW pc \in {"idle", "scan", "get", "getRejected", "getCancelled", "done"},
           go'[g] = Starting(pc)
    PROVE  GoFine(g)'
<1>1. go'[g].pc = pc /\ go'[g].run.transcript = <<>>
  BY StartingTyped DEF RunPCs
<1> QED BY <1>1 DEF GoFine, Logged, Unlogged, Pending, AtCall, AfterRecord, AfterEffect, Executing, Cancelling

-----------------------------------------------------------------------------
(* What no step undoes.                                                    *)

Keeps ==
    /\ events \subseteq events' /\ lost \subseteq lost'
    /\ \A c \in Calls : calls[c] # "none" => calls'[c] # "none"
    /\ \A c \in Calls, w \in Workers : jobs[c][w] # "none" => jobs'[c][w] # "none"
    /\ \A c \in Calls : asked[c] # 0 => asked'[c] = asked[c]

\* Neither does it undo what is said in terms of these.
LEMMA KeepsFacts ==
    ASSUME TypeOK, Keeps
    PROVE  /\ \A c \in Calls : InLog(c) => InLog(c)'
           /\ \A t : Decidable(t) => Decidable(t)'
           /\ \A t, p : Logged(t, p) => Logged(t, p)'
<1>1. ASSUME NEW c \in Calls, InLog(c) PROVE InLog(c)'
  <2> DEFINE e == [kind |-> "assistant", content |-> asked[c]]
  <2>1. e \in Events \cup [kind : Notes]
    BY <1>1 DEF InLog, TypeOK
  <2>2. e \notin [kind : Notes]
    BY DEF Notes
  <2>3. asked[c] # 0
    BY <2>1, <2>2 DEF Events, Contents
  <2> QED BY <1>1, <2>3 DEF Keeps, InLog
<1> QED BY <1>1 DEF Keeps, Decidable, Logged

\* Goroutines that rest, and rows that are not written, stay fine.
LEMMA Frame ==
    ASSUME IInv, TypeOK', Keeps, RecordedBeforeEffect',
           \A h \in Slots : go'[h] = go[h] \/ GoFine(h)',
           row' = row \/ RowFine'
    PROVE  IInv'
<1>1. \A h \in Slots : GoFine(h)'
  <2> SUFFICES ASSUME NEW h \in Slots, go'[h] = go[h] PROVE GoFine(h)'
    OBVIOUS
  <2>1. GoFine(h)
    BY DEF IInv
  <2>2. go[h].pc \in AtCall => Head(go[h].todo) \in Calls
    BY <2>1, TailFacts DEF IInv, TypeOK, Locals, GoFine
  <2>3. AfterRecord \subseteq AtCall
    BY DEF AfterRecord, AtCall
  <2>4. Pending(h)' = Pending(h) /\ Newest(h)' = Newest(h)
    BY DEF Pending, Unlogged, Newest
  <2>5. Logged(go[h].run.transcript, Pending(h))'
    BY <2>1, <2>4 DEF GoFine, Keeps, Logged
  <2>6. go[h].pc \in AfterRecord => calls'[Head(go[h].todo)] # "none"
    BY <2>1, <2>2, <2>3 DEF GoFine, Keeps
  <2>7. \A c : InTodo(h, c)' <=> InTodo(h, c)
    BY DEF InTodo
  <2>8. go[h].pc = "logAssistant" => AnswerFine(h)'
    <3> SUFFICES ASSUME go[h].pc = "logAssistant" PROVE AnswerFine(h)'
      OBVIOUS
    <3>1. AnswerFine(h) /\ Newest(h).content \in Contents
      BY <2>1, NewestTyped DEF IInv, GoFine, Unlogged
    <3> QED BY <2>4, <2>7, <3>1 DEF AnswerFine, Keeps, Contents
  <2>9. \A c \in Calls : InLog(c) => InLog(c)'
    BY KeepsFacts DEF IInv
  <2>10. Decidable(go[h].run.transcript) => Decidable(go[h].run.transcript)'
    BY DEF Decidable, Keeps
  <2> QED BY <2>1, <2>5, <2>6, <2>7, <2>8, <2>9, <2>10 DEF GoFine
<1>2. RowFine'
  <2> SUFFICES ASSUME row' = row PROVE RowFine'
    OBVIOUS
  <2>1. TranscriptIsLogged'
    BY DEF IInv, RowFine, TranscriptIsLogged, Keeps
  <2>2. PausePointSaved <=> (row.status = "waiting_approval" => Decidable(row.transcript))
    BY DEF PausePointSaved, Decidable, HasResult
  <2>3. PausePointSaved' <=> (row'.status = "waiting_approval" => Decidable(row.transcript)')
    BY DEF PausePointSaved, Decidable, HasResult
  <2>4. PausePointSaved'
    BY <2>2, <2>3, KeepsFacts DEF IInv, RowFine
  <2> QED BY <2>1, <2>4 DEF RowFine
<1> QED BY <1>1, <1>2 DEF IInv

\* A step that writes no event and touches no call, job or history.
LEMMA QuietKeeps == UNCHANGED <<calls, events, jobs, asked, lost>> => Keeps
BY DEF Keeps

\* Without a new job, what was recorded before its effect still is.
LEMMA RecordedFrame ==
    ASSUME IInv, Keeps,
           \A c \in Calls, w \in Workers : jobs'[c][w] # "none" => jobs[c][w] # "none"
    PROVE  RecordedBeforeEffect'
<1>1. RecordedBeforeEffect <=>
        \A c \in Calls : (\E w \in Workers : jobs[c][w] # "none") => calls[c] # "none" /\ InLog(c)
  BY DEF RecordedBeforeEffect, InLog
<1>2. RecordedBeforeEffect' <=>
        \A c \in Calls : (\E w \in Workers : jobs'[c][w] # "none") => calls'[c] # "none" /\ InLog(c)'
  BY DEF RecordedBeforeEffect, InLog
<1> QED BY <1>1, <1>2, KeepsFacts DEF IInv, Keeps

\* A goroutine goes to another step.
LEMMA GotoTyped ==
    ASSUME TypeOK, NEW g \in Slots, NEW pc \in RunPCs, Goto(g, pc)
    PROVE  /\ go' \in [Slots -> Locals]
           /\ go'[g].pc = pc /\ go'[g].run = go[g].run /\ go'[g].todo = go[g].todo
           /\ go'[g].paused = go[g].paused /\ go'[g].outcome = go[g].outcome
           /\ \A h \in Slots \ {g} : go'[h] = go[h]
BY DEF TypeOK, Locals, Goto

\* The loop ends.
LEMMA FinishTyped ==
    ASSUME TypeOK, NEW g \in Slots, NEW outcome \in RunStatuses, Finish(g, outcome)
    PROVE  /\ go' \in [Slots -> Locals]
           /\ go'[g].pc = "final" /\ go'[g].run = go[g].run /\ go'[g].outcome = outcome
           /\ \A h \in Slots \ {g} : go'[h] = go[h]
<1> DEFINE l == [go[g] EXCEPT !.pc = "final", !.outcome = outcome, !.todo = <<>>, !.paused = FALSE]
<1>1. go[g] \in Locals
  BY DEF TypeOK
<1>2. <<>> \in Seq(Calls) /\ "final" \in RunPCs
  BY DEF RunPCs
<1>3. l \in Locals /\ l.pc = "final" /\ l.run = go[g].run /\ l.outcome = outcome
  BY <1>1, <1>2 DEF Locals
<1>4. go' = [go EXCEPT ![g] = l]
  BY DEF Finish
<1> HIDE DEF l
<1> QED BY <1>3, <1>4 DEF TypeOK

\* A goroutine ends.
LEMMA EndTyped ==
    ASSUME TypeOK, NEW g \in Slots, End(g)
    PROVE  /\ go' \in [Slots -> Locals]
           /\ \A h \in Slots : go'[h] = go[h] \/ GoFine(h)'
<1>1. go' \in [Slots -> Locals] /\ go'[g] = Starting("done")
  BY StartingTyped DEF TypeOK, End, RunPCs
<1>2. \A h \in Slots \ {g} : go'[h] = go[h]
  BY DEF TypeOK, End
<1>3. GoFine(g)'
  BY <1>1, StartingFine
<1> QED BY <1>1, <1>2, <1>3

\* The failures that have happened stay within their bound.
LEMMA FailsTyped == TypeOK /\ (Fails \/ errors' = errors) => errors' \in 0..Failures
BY RunAssumption DEF TypeOK, Fails

-----------------------------------------------------------------------------
(* Shapes of steps.                                                        *)

\* A goroutine ends, and writes at most a row that is fine.
LEMMA EndIInv ==
    ASSUME IInv, NEW g \in Slots, End(g), UNCHANGED <<calls, events, jobs, asked, texts, lost>>,
           dropped' \in BOOLEAN, errors' \in 0..Failures,
           row' = row \/ (row' \in RunRows /\ RowFine')
    PROVE  IInv'
<1>1. TypeOK'
  BY EndTyped DEF IInv, TypeOK
<1> QED BY <1>1, EndTyped, QuietKeeps, RecordedFrame, Frame DEF IInv

\* An error that nobody is told of.
LEMMA AbandonIInv ==
    ASSUME IInv, NEW g \in Slots, Abandon(g)
    PROVE  IInv'
BY EndIInv, FailsTyped DEF IInv, Abandon

\* The loop ends with everything in the log or among the lost.
LEMMA FinishIInv ==
    ASSUME IInv, NEW g \in Slots, NEW outcome \in RunStatuses, Finish(g, outcome),
           go[g].pc \in Executing,
           outcome = "waiting_approval" => Decidable(go[g].run.transcript),
           UNCHANGED <<calls, events, jobs, asked, texts, dropped>>,
           lost \subseteq lost', Pending(g) \subseteq events \cup lost', lost' \in SUBSET Events,
           errors' \in 0..Failures,
           row' = row \/ (row' \in RunRows /\ RowFine')
    PROVE  IInv'
<1>1. /\ go' \in [Slots -> Locals]
      /\ go'[g].pc = "final" /\ go'[g].run = go[g].run /\ go'[g].outcome = outcome
      /\ \A h \in Slots \ {g} : go'[h] = go[h]
  BY FinishTyped DEF IInv
<1>2. TypeOK'
  BY <1>1 DEF IInv, TypeOK
<1>3. Keeps
  BY DEF Keeps
<1>4. GoFine(g)'
  <2>1. GoFine(g)
    BY DEF IInv
  <2>2. Logged(go[g].run.transcript, {})' /\ Pending(g)' = {}
    BY <1>1, <2>1 DEF GoFine, Logged, Pending, Unlogged
  <2>3. go[g].run.status = "running"
    BY <2>1 DEF GoFine
  <2>4. outcome = "waiting_approval" => Decidable(go[g].run.transcript)'
    BY <1>3, KeepsFacts, <1>1 DEF Decidable
  <2> QED BY <1>1, <2>2, <2>3, <2>4 DEF GoFine, Logged, Unlogged, Pending, AtCall, AfterRecord, AfterEffect, Cancelling
<1> QED BY <1>1, <1>2, <1>3, <1>4, RecordedFrame, Frame

\* An error of the observer.
LEMMA StopIInv ==
    ASSUME IInv, NEW g \in Slots, go[g].pc \in Executing,
           NEW unlogged \in SUBSET Events, StopWithError(g, unlogged), Pending(g) \subseteq unlogged
    PROVE  IInv'
<1>1. lost' \in SUBSET Events /\ errors' \in 0..Failures
  BY FailsTyped DEF IInv, TypeOK, StopWithError
<1>2. "failed" \in RunStatuses /\ "failed" # "waiting_approval"
  BY DEF RunStatuses
<1> QED BY <1>1, <1>2, FinishIInv DEF StopWithError

\* A new goroutine takes a slot.
LEMMA ArriveIInv ==
    ASSUME IInv, NEW g \in Slots, Starts(g), NEW pc \in {"get", "getRejected", "getCancelled"},
           Goto(g, pc), UNCHANGED <<calls, events, asked, texts, history>>,
           jobs' \in [Calls -> [Workers -> JobStates]],
           \A c \in Calls, w \in Workers : jobs'[c][w] # "none" <=> jobs[c][w] # "none",
           row' = row \/ (row' \in RunRows /\ RowFine')
    PROVE  IInv'
<1>1. /\ go' \in [Slots -> Locals]
      /\ go'[g].pc = pc /\ go'[g].run = go[g].run
      /\ \A h \in Slots \ {g} : go'[h] = go[h]
  BY GotoTyped DEF IInv, RunPCs
<1>2. TypeOK' /\ Keeps
  BY <1>1 DEF IInv, TypeOK, Keeps, history
<1>3. GoFine(g)'
  <2>1. GoFine(g) /\ Pending(g) = {}
    BY DEF IInv, Starts, Pending, Unlogged
  <2> QED BY <1>1, <1>2, <2>1 DEF GoFine, Logged, Unlogged, Pending, AtCall, AfterRecord, AfterEffect, Executing, Cancelling, Keeps
<1> QED BY <1>1, <1>2, <1>3, RecordedFrame, Frame

\* A goroutine that has read the row goes on with a copy.
LEMMA CopyIInv ==
    ASSUME IInv, NEW g \in Slots, NEW pc, NEW status, Copy(g, pc, status),
           \/ pc = "mark" /\ status = "running"
           \/ pc \in Cancelling /\ status = "cancelled",
           UNCHANGED <<row, ledger>>
    PROVE  IInv'
<1> DEFINE run == [row EXCEPT !.status = status]
           l == [go[g] EXCEPT !.pc = pc, !.run = run]
<1>1. TypeOK /\ pc \in RunPCs /\ status \in RunStatuses
  BY DEF IInv, RunPCs, RunStatuses, Cancelling
<1>2. run \in RunRows /\ run.status = status /\ run.transcript = row.transcript
  BY <1>1 DEF TypeOK, RunRows
<1> HIDE DEF run
<1>3. go[g] \in Locals
  BY <1>1 DEF TypeOK
<1>4. l \in Locals /\ l.pc = pc /\ l.run = run
  BY <1>1, <1>2, <1>3 DEF Locals
<1>5. go' = [go EXCEPT ![g] = l]
  BY DEF Copy, run
<1> HIDE DEF l
<1>6. go' \in [Slots -> Locals] /\ go'[g] = l /\ \A h \in Slots \ {g} : go'[h] = go[h]
  BY <1>1, <1>4, <1>5 DEF TypeOK
<1>7. TypeOK' /\ Keeps
  BY <1>1, <1>6 DEF TypeOK, Keeps, ledger, history
<1>8. \A i \in DOMAIN row.transcript : EventOf(row.transcript[i]) \in events' \cup lost'
  BY <1>7 DEF IInv, RowFine, TranscriptIsLogged, Keeps
<1>9. GoFine(g)'
  BY <1>2, <1>4, <1>6, <1>8 DEF GoFine, Logged, Unlogged, Pending, AtCall, AfterRecord, AfterEffect, Executing, Cancelling
<1> QED BY <1>6, <1>7, <1>9, RecordedFrame, Frame DEF ledger

\* A goroutine writes its copy of the row.
LEMMA SaveRow ==
    ASSUME IInv, NEW g \in Slots, row' = go[g].run, Pending(g) = {},
           go[g].pc \in Executing \cup Cancelling, UNCHANGED <<events, lost>>
    PROVE  row' \in RunRows /\ RowFine'
<1>1. GoFine(g) /\ go[g].run \in RunRows
  BY DEF IInv, TypeOK, Locals
<1>2. row'.status # "waiting_approval"
  BY <1>1 DEF GoFine
<1>3. TranscriptIsLogged'
  BY <1>1 DEF GoFine, Logged, TranscriptIsLogged
<1> QED BY <1>1, <1>2, <1>3 DEF RowFine, PausePointSaved

-----------------------------------------------------------------------------
(* The actions.                                                            *)

\* Nothing has happened yet.
LEMMA InitIInv == Init => IInv
<1> SUFFICES ASSUME Init PROVE IInv
  OBVIOUS
<1>1. TypeOK
  <2>1. Starting("idle") \in Locals /\ NoRun \in RunRows
    BY StartingTyped DEF RunPCs
  <2>2. row \in RunRows /\ go \in [Slots -> Locals]
    BY <2>1 DEF Init
  <2>3. calls \in [Calls -> {"none", "running", "completed"}] /\ jobs \in [Calls -> [Workers -> JobStates]]
    BY DEF Init, JobStates
  <2>4. errors \in 0..Failures
    BY RunAssumption DEF Init
  <2>5. events \in SUBSET (Events \cup [kind : Notes]) /\ asked \in [Calls -> Nat] /\ texts \in Nat /\ lost \in SUBSET Events
        /\ dropped \in BOOLEAN
    BY DEF Init
  <2> QED BY <2>2, <2>3, <2>4, <2>5 DEF TypeOK
<1>2. RecordedBeforeEffect
  BY DEF Init, RecordedBeforeEffect
<1>3. RowFine
  BY DEF Init, NoRun, RowFine, TranscriptIsLogged, PausePointSaved
<1>4. ASSUME NEW g \in Slots PROVE GoFine(g)
  <2>1. go[g].pc = "idle" /\ go[g].run.transcript = <<>>
    BY StartingTyped DEF Init, RunPCs
  <2> QED BY <2>1 DEF GoFine, Logged, Unlogged, Pending, AtCall, AfterRecord, AfterEffect, Executing, Cancelling
<1> QED BY <1>1, <1>2, <1>3, <1>4 DEF IInv

\* The requests of users.
LEMMA UsersIInv ==
    ASSUME IInv, NEW g \in Slots, Users(g)
    PROVE  IInv'
<1> USE DEF ledger, history
<1>1. CASE CreateRun(g)
  <2>1. row' \in RunRows /\ row'.status = "queued" /\ row'.transcript = <<>>
    <3>1. <<>> \in Seq(Messages)
      OBVIOUS
    <3>2. NoRun \in RunRows /\ NoRun.transcript = <<>> /\ "queued" \in RunStatuses
      BY <3>1 DEF NoRun, RunRows, RunStatuses
    <3>3. row' = [NoRun EXCEPT !.status = "queued"]
      BY <1>1 DEF CreateRun, CreateAgentRun
    <3> QED BY <3>2, <3>3 DEF RunRows
  <2>2. RowFine'
    BY <2>1 DEF RowFine, TranscriptIsLogged, PausePointSaved
  <2> QED BY <1>1, <2>1, <2>2, ArriveIInv DEF CreateRun, IInv, TypeOK
<1>2. ASSUME NEW c \in Calls, NEW w \in Workers, NEW state \in {"approved", "rejected"},
             jobs[c][w] = "waiting", jobs' = [jobs EXCEPT ![c][w] = state]
      PROVE  /\ jobs' \in [Calls -> [Workers -> JobStates]]
             /\ \A x \in Calls, y \in Workers : jobs'[x][y] # "none" <=> jobs[x][y] # "none"
  BY <1>2 DEF IInv, TypeOK, JobStates
<1>3. ASSUME NEW c \in Calls, NEW w \in Workers, Approve(g, c, w) PROVE IInv'
  BY <1>2, <1>3, ArriveIInv DEF Approve
<1>4. ASSUME NEW c \in Calls, NEW w \in Workers, Reject(g, c, w) PROVE IInv'
  BY <1>2, <1>4, ArriveIInv DEF Reject
<1>5. CASE Cancel(g)
  BY <1>5, ArriveIInv DEF Cancel, IInv, TypeOK
<1> QED BY <1>1, <1>3, <1>4, <1>5 DEF Users

\* The server is started again.
LEMMA RestartIInv ==
    ASSUME IInv, NEW g \in Slots, Restart(g)
    PROVE  IInv'
<1>1. Starting("scan") \in Locals /\ Starting("done") \in Locals
  BY StartingTyped DEF RunPCs
<1>2. TypeOK' /\ Keeps
  BY <1>1 DEF IInv, TypeOK, Keeps, Restart, ledger, history
<1>3. ASSUME NEW h \in Slots PROVE go'[h] = go[h] \/ GoFine(h)'
  <2>1. go'[h] = go[h] \/ go'[h] = Starting("scan") \/ go'[h] = Starting("done")
    BY DEF Restart
  <2> QED BY <2>1, StartingFine
<1> QED BY <1>2, <1>3, RecordedFrame, Frame DEF Restart, ledger

\* Before the loop.
LEMMA BeforeIInv ==
    ASSUME IInv, NEW g \in Slots, Scan(g) \/ GetRun(g) \/ MarkRunning(g)
    PROVE  IInv'
<1> USE DEF ledger, history
<1>1. TypeOK /\ GoFine(g)
  BY DEF IInv
<1>2. CASE End(g) /\ UNCHANGED <<row, ledger>>
  BY <1>1, <1>2, EndIInv DEF TypeOK
<1>3. CASE Abandon(g)
  BY <1>3, AbandonIInv
<1>4. CASE go[g].pc = "scan" /\ Goto(g, "get") /\ UNCHANGED <<row, ledger>>
  <2>1. /\ go' \in [Slots -> Locals] /\ go'[g].pc = "get" /\ go'[g].run = go[g].run
        /\ \A h \in Slots \ {g} : go'[h] = go[h]
    BY <1>1, <1>4, GotoTyped DEF RunPCs
  <2>2. TypeOK' /\ Keeps
    BY <1>1, <1>4, <2>1 DEF TypeOK, Keeps
  <2>3. GoFine(g)'
    BY <1>1, <1>4, <2>1 DEF GoFine, Logged, Unlogged, Pending, AtCall, AfterRecord, AfterEffect, Executing, Cancelling
  <2> QED BY <1>4, <2>1, <2>2, <2>3, RecordedFrame, Frame
<1>5. CASE Copy(g, "mark", "running") /\ UNCHANGED <<row, ledger>>
  BY <1>5, CopyIInv
<1>6. CASE /\ go[g].pc = "mark" /\ row' = go[g].run /\ UNCHANGED ledger
           /\ go' = [go EXCEPT ![g].pc = "model", ![g].step = go[g].run.nextStep]
  <2>1. /\ go' \in [Slots -> Locals] /\ go'[g].pc = "model" /\ go'[g].run = go[g].run
        /\ \A h \in Slots \ {g} : go'[h] = go[h]
    <3> DEFINE l == [go[g] EXCEPT !.pc = "model", !.step = go[g].run.nextStep]
    <3>1. go[g] \in Locals /\ go[g].run.nextStep \in Nat /\ "model" \in RunPCs
      BY <1>1 DEF TypeOK, Locals, RunRows, RunPCs
    <3>2. l \in Locals /\ l.pc = "model" /\ l.run = go[g].run
      BY <3>1 DEF Locals
    <3>3. go' = [go EXCEPT ![g] = l]
      BY <1>6
    <3> HIDE DEF l
    <3> QED BY <1>1, <3>2, <3>3 DEF TypeOK
  <2>2. Pending(g) = {}
    BY <1>6 DEF Pending, Unlogged
  <2>3. row' \in RunRows /\ RowFine'
    BY <1>6, <2>2, SaveRow DEF Executing
  <2>4. TypeOK' /\ Keeps
    BY <1>1, <1>6, <2>1, <2>3 DEF TypeOK, Keeps
  <2>5. GoFine(g)'
    BY <1>1, <1>6, <2>1, <2>2 DEF GoFine, Logged, Unlogged, Pending, AtCall, AfterRecord, AfterEffect, Executing, Cancelling
  <2> QED BY <1>6, <2>1, <2>3, <2>4, <2>5, RecordedFrame, Frame
<1> QED BY <1>2, <1>3, <1>4, <1>5, <1>6 DEF Scan, ListAgentRunsByStatus, GetRun, MarkRunning

\* The model answers: the event of its answer is pending.
LEMMA AnsweredIInv ==
    ASSUME IInv, NEW g \in Slots, go[g].pc = "model", NEW cs \in Seq(Calls), Answered(g, cs),
           \A i \in DOMAIN cs : asked[cs[i]] = 0
    PROVE  IInv'
<1> DEFINE e == Reply(texts + 1, cs)
           t == Append(go[g].run.transcript, e)
           run == [go[g].run EXCEPT !.transcript = t]
           l == [go[g] EXCEPT !.pc = "logAssistant", !.steps = go[g].step, !.todo = cs, !.run = run]
<1>1. /\ TypeOK /\ GoFine(g) /\ go[g] \in Locals
      /\ go[g].run \in RunRows /\ go[g].run.transcript \in Seq(Messages)
      /\ go[g].step \in Nat /\ "logAssistant" \in RunPCs /\ texts \in Nat
  BY DEF IInv, TypeOK, Locals, RunRows, RunPCs
<1>2. go' = [go EXCEPT ![g] = l]
  BY DEF Answered
<1>a. texts + 1 \in Contents
  BY <1>1 DEF Contents
<1>b. e \in Messages /\ e.kind = "assistant" /\ e.content = texts + 1
  BY <1>a, MessagesTyped
<1> HIDE DEF e
<1>3. /\ t \in Seq(Messages) /\ t # <<>> /\ t[Len(t)] = e
      /\ \A i \in DOMAIN t :
            t[i] = e \/ (i \in DOMAIN go[g].run.transcript /\ t[i] = go[g].run.transcript[i])
  <2> DEFINE tr == go[g].run.transcript
  <2>1. t = Append(tr, e) /\ tr \in Seq(Messages)
    BY <1>1
  <2> HIDE DEF t, tr
  <2>2. /\ t \in Seq(Messages) /\ t # <<>> /\ t[Len(t)] = e
        /\ \E i \in DOMAIN t : t[i] = e
        /\ \A i \in DOMAIN t : t[i] = e \/ (i \in DOMAIN tr /\ t[i] = tr[i])
    BY <1>b, <2>1, AppendFacts
  <2> QED BY <2>2 DEF tr
<1> HIDE DEF t
<1>4. run \in RunRows /\ run.transcript = t /\ run.status = go[g].run.status
  BY <1>1, <1>3 DEF RunRows
<1> HIDE DEF run
<1>5. l \in Locals /\ l.pc = "logAssistant" /\ l.todo = cs /\ l.run = run
  BY <1>1, <1>4 DEF Locals
<1> HIDE DEF l
<1>6. go' \in [Slots -> Locals] /\ go'[g] = l /\ \A h \in Slots \ {g} : go'[h] = go[h]
  BY <1>1, <1>2, <1>5 DEF TypeOK
<1>7. /\ asked' \in [Calls -> Nat]
      /\ \A c \in Calls : asked[c] # 0 => asked'[c] = asked[c]
      /\ \A c \in Calls : (\E i \in DOMAIN cs : cs[i] = c) => asked'[c] = texts + 1
  BY <1>1 DEF TypeOK, Answered
<1>8. TypeOK' /\ Keeps
  BY <1>1, <1>6, <1>7 DEF TypeOK, Keeps, Answered, history
<1>9. GoFine(g)'
  <2>1. Newest(g)' = e
    BY <1>3, <1>4, <1>5, <1>6 DEF Newest
  <2>2. Pending(g)' = {EventOf(e)}
    BY <1>5, <1>6, <2>1 DEF Pending, Unlogged, EventOf
  <2>3. run.status = "running" /\ events' = events /\ lost' = lost
    BY <1>1, <1>4 DEF GoFine, Executing, Answered, history
  <2>4. \A i \in DOMAIN go[g].run.transcript : EventOf(go[g].run.transcript[i]) \in events \cup lost
    BY <1>1 DEF GoFine, Pending, Unlogged, Logged
  <2>5. \A i \in DOMAIN t : EventOf(t[i]) \in events \cup lost \cup {EventOf(e)}
    BY <1>3, <2>4
  <2>6. Logged(go[g].run.transcript, Pending(g))'
    BY <1>4, <1>5, <1>6, <2>2, <2>3, <2>5 DEF Logged
  <2>7. AnswerFine(g)'
    BY <1>b, <1>5, <1>6, <1>7, <2>1 DEF AnswerFine, InTodo
  <2> QED BY <1>3, <1>4, <1>5, <1>6, <2>3, <2>6, <2>7
       DEF GoFine, Logged, Unlogged, Pending, AtCall, AfterRecord, AfterEffect, Cancelling
<1> QED BY <1>6, <1>8, <1>9, RecordedFrame, Frame DEF Answered

\* One iteration of the loop asks the model.
LEMMA AskModelIInv ==
    ASSUME IInv, NEW g \in Slots, AskModel(g)
    PROVE  IInv'
<1>1. go[g].pc = "model" /\ Pending(g) = {} /\ go[g].pc \in Executing
  BY DEF AskModel, Pending, Unlogged, Executing
<1>2. ASSUME NEW outcome \in {"failed", "timed_out"}, Finish(g, outcome), UNCHANGED <<row, ledger>>
      PROVE  IInv'
  <2>1. outcome \in RunStatuses /\ outcome # "waiting_approval"
    BY DEF RunStatuses
  <2> QED BY <1>1, <1>2, <2>1, FinishIInv DEF ledger, history, IInv, TypeOK
<1>3. CASE Answered(g, <<>>)
  <2>1. <<>> \in Seq(Calls)
    OBVIOUS
  <2>2. \A i \in DOMAIN <<>> : asked[<<>>[i]] = 0
    OBVIOUS
  <2> QED BY <1>1, <1>3, <2>1, <2>2, AnsweredIInv
<1>4. ASSUME NEW cs \in FreshReplies, Answered(g, cs) PROVE IInv'
  <2>1. PICK n \in 1..MaxCalls : cs \in [1..n -> {c \in Calls : asked[c] = 0}]
    BY DEF FreshReplies
  <2>2. n \in Nat /\ cs \in [1..n -> Calls]
    BY <2>1, RunAssumption
  <2>3. cs \in Seq(Calls) /\ \A i \in DOMAIN cs : asked[cs[i]] = 0
    BY <2>1, <2>2
  <2> QED BY <1>1, <1>4, <2>3, AnsweredIInv
<1> QED BY <1>2, <1>3, <1>4 DEF AskModel

\* The answer is written to the log, and saved.
LEMMA AssistantIInv ==
    ASSUME IInv, NEW g \in Slots, LogAssistant(g) \/ SaveAssistant(g)
    PROVE  IInv'
<1> USE DEF ledger, history
<1>1. TypeOK /\ GoFine(g) /\ go[g] \in Locals /\ go[g].todo \in Seq(Calls)
  BY DEF IInv, TypeOK, Locals
<1>2. go[g].pc = "logAssistant" => EventOf(Newest(g)) \in Events /\ Pending(g) = {EventOf(Newest(g))}
  BY <1>1, NewestTyped DEF Unlogged, Pending
<1>3. CASE /\ go[g].pc = "logAssistant" /\ events' = events \cup {EventOf(Newest(g))}
           /\ Goto(g, "saveAssistant") /\ UNCHANGED <<row, calls, jobs, asked, texts, history>>
  <2>1. /\ go' \in [Slots -> Locals]
        /\ go'[g].pc = "saveAssistant" /\ go'[g].run = go[g].run /\ go'[g].todo = go[g].todo
        /\ \A h \in Slots \ {g} : go'[h] = go[h]
    BY <1>1, <1>3, GotoTyped DEF RunPCs
  <2>2. TypeOK' /\ Keeps
    BY <1>1, <1>2, <1>3, <2>1 DEF TypeOK, Keeps
  <2>3. \A c \in Calls : InTodo(g, c)' => InLog(c)'
    <3>1. AnswerFine(g) /\ EventOf(Newest(g)) = [kind |-> "assistant", content |-> Newest(g).content]
      BY <1>1, <1>3 DEF GoFine, AnswerFine, EventOf
    <3> QED BY <1>3, <2>1, <3>1 DEF InLog, InTodo, AnswerFine
  <2>4. Logged(go[g].run.transcript, Pending(g))' /\ go[g].run.status = "running"
    BY <1>1, <1>2, <1>3, <2>1 DEF GoFine, Logged, Executing
  <2>5. GoFine(g)'
    BY <2>1, <2>3, <2>4 DEF GoFine, Logged, Unlogged, Pending, AtCall, AfterRecord, AfterEffect, Cancelling
  <2> QED BY <1>3, <2>1, <2>2, <2>5, RecordedFrame, Frame
<1>4. CASE go[g].pc = "logAssistant" /\ StopWithError(g, {EventOf(Newest(g))})
  <2>1. Pending(g) = {EventOf(Newest(g))} /\ go[g].pc \in Executing
    BY <1>2, <1>4 DEF Executing
  <2> QED BY <1>2, <1>4, <2>1, StopIInv
<1>5. CASE go[g].pc = "saveAssistant"
  <2>1. Pending(g) = {} /\ go[g].pc \in Executing
    BY <1>5 DEF Pending, Unlogged, Executing
  <2>2. CASE StopWithError(g, {})
    BY <2>1, <2>2, StopIInv
  <2>3. CASE row' = go[g].run /\ UNCHANGED ledger
    <3>1. row' \in RunRows /\ RowFine'
      BY <2>1, <2>3, SaveRow
    <3>2. CASE Finish(g, "completed")
      <4>1. "completed" \in RunStatuses /\ "completed" # "waiting_approval"
        BY DEF RunStatuses
      <4> QED BY <1>1, <2>1, <2>3, <3>1, <3>2, <4>1, FinishIInv DEF TypeOK
    <3>3. CASE go[g].todo # <<>> /\ Goto(g, "call")
      <4>1. /\ go' \in [Slots -> Locals]
            /\ go'[g].pc = "call" /\ go'[g].run = go[g].run /\ go'[g].todo = go[g].todo
            /\ \A h \in Slots \ {g} : go'[h] = go[h]
        BY <1>1, <3>3, GotoTyped DEF RunPCs
      <4>2. TypeOK' /\ Keeps
        BY <1>1, <2>3, <3>1, <4>1 DEF TypeOK, Keeps
      <4>3. \A c \in Calls : InTodo(g, c)' => InLog(c)'
        BY <1>1, <1>5, <4>1, <4>2, KeepsFacts DEF GoFine, InTodo
      <4>4. Logged(go[g].run.transcript, Pending(g))' /\ go[g].run.status = "running"
        BY <1>1, <1>5, <2>1, <2>3, <4>1 DEF GoFine, Logged, Executing
      <4>5. GoFine(g)'
        BY <3>3, <4>1, <4>3, <4>4 DEF GoFine, Unlogged, AfterRecord, AfterEffect, Cancelling
      <4> QED BY <2>3, <3>1, <4>1, <4>2, <4>5, RecordedFrame, Frame
    <3> QED BY <1>5, <2>2, <2>3, <3>2, <3>3 DEF LogAssistant, SaveAssistant
  <2> QED BY <1>5, <2>2, <2>3 DEF LogAssistant, SaveAssistant
<1> QED BY <1>3, <1>4, <1>5 DEF LogAssistant, SaveAssistant

\* A call is recorded.
LEMMA RecordCallIInv ==
    ASSUME IInv, NEW g \in Slots, RecordCall(g)
    PROVE  IInv'
<1> USE DEF ledger, history
<1> DEFINE c == Head(go[g].todo)
<1>1. /\ TypeOK /\ GoFine(g) /\ go[g].todo \in Seq(Calls) /\ go[g].pc = "call"
      /\ go[g].todo # <<>> /\ Pending(g) = {} /\ go[g].pc \in Executing
  BY DEF IInv, TypeOK, Locals, RecordCall, GoFine, AtCall, Pending, Unlogged, Executing
<1>2. c \in Calls
  BY <1>1, TailFacts
<1>3. CASE Finish(g, "failed") /\ UNCHANGED <<row, ledger>>
  <2>1. "failed" \in RunStatuses /\ "failed" # "waiting_approval"
    BY DEF RunStatuses
  <2> QED BY <1>1, <1>3, <2>1, FinishIInv DEF TypeOK
<1>4. CASE /\ calls' = [calls EXCEPT ![c] = IF calls[c] = "none" THEN "running" ELSE calls[c]]
           /\ Goto(g, "execute")
           /\ UNCHANGED <<row, events, jobs, asked, texts, history>>
  <2>1. /\ go' \in [Slots -> Locals]
        /\ go'[g].pc = "execute" /\ go'[g].run = go[g].run /\ go'[g].todo = go[g].todo
        /\ \A h \in Slots \ {g} : go'[h] = go[h]
    BY <1>1, <1>4, GotoTyped DEF RunPCs
  <2> HIDE DEF c
  <2>2. /\ calls' \in [Calls -> {"none", "running", "completed"}] /\ calls'[c] # "none"
        /\ \A x \in Calls : calls[x] # "none" => calls'[x] # "none"
    BY <1>1, <1>2, <1>4 DEF TypeOK
  <2>3. TypeOK' /\ Keeps
    BY <1>1, <1>4, <2>1, <2>2 DEF TypeOK, Keeps
  <2>4. \A x \in Calls : InTodo(g, x)' => InLog(x)'
    BY <1>1, <2>1, <2>3, KeepsFacts DEF GoFine, Logged, Unlogged, Pending, AtCall, InTodo
  <2>5. calls'[Head(go'[g].todo)] # "none"
    BY <2>1, <2>2 DEF c
  <2>6. GoFine(g)'
    BY <1>1, <1>4, <2>1, <2>4, <2>5 DEF GoFine, Logged, Unlogged, Pending, AtCall, AfterEffect, Executing, Cancelling
  <2> QED BY <1>4, <2>1, <2>3, <2>6, RecordedFrame, Frame
<1> QED BY <1>3, <1>4 DEF RecordCall, RefuseCall, CreateAgentToolCall

\* The tool is executed: its result is the pending entry.
LEMMA ExecuteToolIInv ==
    ASSUME IInv, NEW g \in Slots, ExecuteTool(g)
    PROVE  IInv'
<1>1. PICK made \in SUBSET Workers :
        /\ (made # {} => Head(go[g].todo) \in Risky) /\ (Fails \/ errors' = errors)
        /\ jobs' = [jobs EXCEPT ![Head(go[g].todo)] =
                        [w \in Workers |-> IF w \in made THEN "waiting" ELSE jobs[Head(go[g].todo)][w]]]
        /\ go' = [go EXCEPT ![g].pc = "complete", ![g].paused = (made # {}),
                            ![g].run.transcript = Append(go[g].run.transcript,
                                                             ToolResult(texts + 1, Head(go[g].todo)))]
  BY DEF ExecuteTool, payloadNeedsApproval
<1>2. go[g].pc = "execute" /\ UNCHANGED <<row, calls, events, asked, lost, dropped>> /\ texts' = texts + 1
  BY DEF ExecuteTool
<1> DEFINE c == Head(go[g].todo)
           e == ToolResult(texts + 1, c)
           t == Append(go[g].run.transcript, e)
           run == [go[g].run EXCEPT !.transcript = t]
           l == [go[g] EXCEPT !.pc = "complete", !.paused = (made # {}), !.run = run]
<1>3. go' = [go EXCEPT ![g] = l]
  BY <1>1
<1>4. /\ TypeOK /\ GoFine(g) /\ go[g] \in Locals /\ go[g].todo \in Seq(Calls)
      /\ go[g].run \in RunRows /\ go[g].run.transcript \in Seq(Messages) /\ "complete" \in RunPCs
      /\ texts \in Nat
  BY DEF IInv, TypeOK, Locals, RunRows, RunPCs
<1>5. go[g].todo # <<>>
  BY <1>2, <1>4 DEF GoFine, Logged, Unlogged, Pending, AtCall
<1>6. c \in Calls /\ InTodo(g, c)
  BY <1>4, <1>5, TailFacts DEF InTodo
<1>7. calls[c] # "none" /\ InLog(c)
  BY <1>2, <1>4, <1>6 DEF GoFine, Logged, Unlogged, Pending, AtCall, AfterRecord
<1>8. jobs' = [jobs EXCEPT ![c] = [w \in Workers |-> IF w \in made THEN "waiting" ELSE jobs[c][w]]]
  BY <1>1
<1>c. c = Head(go[g].todo)
  OBVIOUS
<1> HIDE DEF c
<1>d. texts + 1 \in Contents
  BY <1>4 DEF Contents
<1>e. e \in Messages /\ e.kind = "tool" /\ e.call = c
  BY <1>6, <1>d, MessagesTyped
<1> HIDE DEF e
<1>9. /\ t \in Seq(Messages) /\ t # <<>> /\ t[Len(t)] = e
      /\ \E i \in DOMAIN t : t[i] = e
      /\ \A i \in DOMAIN t :
            t[i] = e \/ (i \in DOMAIN go[g].run.transcript /\ t[i] = go[g].run.transcript[i])
  <2> DEFINE tr == go[g].run.transcript
  <2>1. t = Append(tr, e) /\ tr \in Seq(Messages)
    BY <1>4
  <2> HIDE DEF t, tr
  <2>2. /\ t \in Seq(Messages) /\ t # <<>> /\ t[Len(t)] = e
        /\ \E i \in DOMAIN t : t[i] = e
        /\ \A i \in DOMAIN t : t[i] = e \/ (i \in DOMAIN tr /\ t[i] = tr[i])
    BY <1>e, <2>1, AppendFacts
  <2> QED BY <2>2 DEF tr
<1> HIDE DEF t
<1>10. run \in RunRows /\ run.transcript = t /\ run.status = go[g].run.status
  BY <1>4, <1>9 DEF RunRows
<1> HIDE DEF run
<1>11. l \in Locals /\ l.pc = "complete" /\ l.todo = go[g].todo /\ l.run = run /\ l.paused = (made # {})
  BY <1>4, <1>10 DEF Locals
<1> HIDE DEF l
<1>12. go' \in [Slots -> Locals] /\ go'[g] = l /\ \A h \in Slots \ {g} : go'[h] = go[h]
  BY <1>3, <1>4, <1>11 DEF TypeOK
<1>13. /\ jobs' \in [Calls -> [Workers -> JobStates]]
       /\ \A x \in Calls, w \in Workers : jobs[x][w] # "none" => jobs'[x][w] # "none"
       /\ \A x \in Calls \ {c}, w \in Workers : jobs'[x][w] = jobs[x][w]
       /\ \A w \in made : jobs'[c][w] # "none"
  BY <1>4, <1>6, <1>8 DEF TypeOK, JobStates
<1>14. TypeOK' /\ Keeps
  <2>1. errors' \in 0..Failures /\ texts' \in Nat
    <3>1. TypeOK /\ (Fails \/ errors' = errors)
      BY <1>1, <1>4
    <3>2. texts \in Nat /\ texts' = texts + 1
      BY <1>2, <1>4
    <3>3. texts' \in Nat
      BY <3>2
    <3> QED BY <3>1, <3>3, FailsTyped
  <2>2. row' = row /\ calls' = calls /\ events' = events /\ asked' = asked /\ lost' = lost /\ dropped' = dropped
    BY <1>2
  <2> QED BY <1>4, <1>12, <1>13, <2>1, <2>2 DEF TypeOK, Keeps
<1>15. RecordedBeforeEffect'
  <2>1. RecordedBeforeEffect' <=>
        \A x \in Calls : (\E w \in Workers : jobs'[x][w] # "none") => calls'[x] # "none" /\ InLog(x)'
    BY DEF RecordedBeforeEffect, InLog
  <2>2. calls'[c] # "none" /\ \A x \in Calls : InLog(x) => InLog(x)'
    BY <1>2, <1>4, <1>7, <1>14, KeepsFacts
  <2>3. InLog(c) => \A x \in Calls : x = c => InLog(x)'
    BY <2>2
  <2>4. ASSUME NEW x \in Calls, NEW w \in Workers, jobs'[x][w] # "none"
        PROVE  calls'[x] # "none" /\ InLog(x)'
    <3>1. CASE x = c
      BY <1>7, <2>2, <2>3, <3>1
    <3>2. CASE x # c
      BY <1>2, <1>13, <2>2, <2>4, <3>2 DEF IInv, RecordedBeforeEffect, InLog
    <3> QED BY <3>1, <3>2
  <2> QED BY <2>1, <2>4
<1>16. GoFine(g)'
  <2>0. Newest(g)' = e
    BY <1>9, <1>10, <1>11, <1>12 DEF Newest
  <2>1. Pending(g)' = {EventOf(e)}
    BY <1>11, <1>12, <2>0 DEF Pending, Unlogged, EventOf
  <2>2. \A i \in DOMAIN t : EventOf(t[i]) \in events \cup lost \cup {EventOf(e)}
    <3>1. \A i \in DOMAIN go[g].run.transcript : EventOf(go[g].run.transcript[i]) \in events \cup lost
      BY <1>2, <1>4 DEF GoFine, Pending, Unlogged, Logged
    <3> QED BY <1>9, <3>1
  <2>3. \A x \in Calls : InTodo(g, x)' => InLog(x)'
    BY <1>2, <1>4, <1>11, <1>12, <1>14, KeepsFacts DEF GoFine, Logged, Unlogged, Pending, AtCall, InTodo
  <2>4. run.status = "running" /\ calls' = calls
    BY <1>2, <1>4, <1>10 DEF GoFine, Executing
  <2>5. calls'[Head(go'[g].todo)] # "none"
    BY <1>c, <1>7, <1>11, <1>12, <2>4
  <2>6. go'[g].paused => Decidable(go[g].run.transcript)'
    <3>1. go'[g].run.transcript = t /\ go'[g].paused = (made # {})
      BY <1>10, <1>11, <1>12
    <3>2. made # {} => \E w \in Workers : jobs'[c][w] # "none"
      BY <1>13
    <3>3. \E i \in DOMAIN t : t[i].kind = "tool" /\ t[i].call = c
      BY <1>9, <1>e
    <3> QED BY <1>6, <3>1, <3>2, <3>3 DEF Decidable
  <2>7. go'[g].pc = "complete" /\ go'[g].todo # <<>> /\ go'[g].run.status = "running"
        /\ go'[g].run.transcript = t
    BY <1>5, <1>10, <1>11, <1>12, <2>4
  <2>8. Logged(go[g].run.transcript, Pending(g))' /\ go'[g].run.transcript # <<>>
    BY <1>2, <1>9, <2>1, <2>2, <2>7 DEF Logged
  <2> QED BY <2>3, <2>5, <2>6, <2>7, <2>8 DEF GoFine, Logged, Unlogged, Pending, AtCall, Cancelling
<1> QED BY <1>2, <1>12, <1>14, <1>15, <1>16, Frame

\* The result is recorded with the call and written to the log.
LEMMA LogResultIInv ==
    ASSUME IInv, NEW g \in Slots, CompleteCall(g) \/ LogTool(g)
    PROVE  IInv'
<1> USE DEF ledger, history
<1> DEFINE c == Head(go[g].todo)
<1>1. /\ TypeOK /\ GoFine(g) /\ go[g].todo \in Seq(Calls)
      /\ go[g].pc \in {"complete", "logTool"} /\ go[g].pc \in Executing
      /\ go[g].todo # <<>> /\ Pending(g) = {EventOf(Newest(g))}
  BY DEF Unlogged, IInv, TypeOK, Locals, CompleteCall, LogTool, GoFine, AtCall, Pending, Executing
<1>2. c \in Calls /\ EventOf(Newest(g)) \in Events
  BY <1>1, TailFacts, NewestTyped DEF Unlogged
<1>3. CASE StopWithError(g, {EventOf(Newest(g))})
  BY <1>1, <1>2, <1>3, StopIInv
<1>4. ASSUME NEW pc \in {"logTool", "saveTool"}, Goto(g, pc), TypeOK', Keeps,
             pc = "saveTool" => EventOf(Newest(g)) \in events',
             UNCHANGED <<row, jobs, lost>>
      PROVE  IInv'
  <2>1. /\ go'[g].pc = pc /\ go'[g].run = go[g].run /\ go'[g].todo = go[g].todo
        /\ go'[g].paused = go[g].paused /\ \A h \in Slots \ {g} : go'[h] = go[h]
    BY <1>1, <1>4, GotoTyped DEF RunPCs
  <2>2. \A x \in Calls : InTodo(g, x)' => InLog(x)'
    BY <1>1, <1>4, <2>1, KeepsFacts DEF GoFine, Logged, Unlogged, Pending, AtCall, InTodo
  <2>3. calls'[Head(go'[g].todo)] # "none"
    BY <1>1, <1>2, <1>4, <2>1 DEF GoFine, AfterRecord, Keeps
  <2>4. pc = "logTool" => Pending(g)' = {EventOf(Newest(g))}
    BY <2>1 DEF Pending, Unlogged, Newest, EventOf
  <2>5. Logged(go[g].run.transcript, Pending(g))' /\ go'[g].run.transcript # <<>>
    BY <1>1, <1>4, <2>1, <2>4 DEF GoFine, Keeps, Logged, Unlogged
  <2>6. go[g].run.status = "running" /\ (go[g].paused => Decidable(go[g].run.transcript))
    BY <1>1 DEF GoFine, AfterEffect
  <2>7. go'[g].paused => Decidable(go[g].run.transcript)'
    BY <1>4, <2>1, <2>6 DEF Decidable
  <2>8. GoFine(g)'
    BY <1>1, <2>1, <2>2, <2>3, <2>5, <2>6, <2>7 DEF GoFine, Cancelling
  <2> QED BY <1>4, <2>1, <2>8, RecordedFrame, Frame
<1>5. CASE /\ go[g].pc = "complete" /\ Goto(g, "logTool")
           /\ calls' = [calls EXCEPT ![c] = "completed"]
           /\ UNCHANGED <<row, events, jobs, asked, texts, history>>
  <2>1. go' \in [Slots -> Locals]
    BY <1>1, <1>5, GotoTyped DEF RunPCs
  <2> HIDE DEF c
  <2>2. TypeOK' /\ Keeps
    BY <1>1, <1>2, <1>5, <2>1 DEF TypeOK, Keeps
  <2> QED BY <1>4, <1>5, <2>2
<1>6. CASE /\ go[g].pc = "logTool" /\ Goto(g, "saveTool")
           /\ events' = events \cup {EventOf(Newest(g))}
           /\ UNCHANGED <<row, calls, jobs, asked, texts, history>>
  <2>1. go' \in [Slots -> Locals]
    BY <1>1, <1>6, GotoTyped DEF RunPCs
  <2> HIDE DEF c
  <2>2. TypeOK' /\ Keeps
    BY <1>1, <1>2, <1>6, <2>1 DEF TypeOK, Keeps
  <2> QED BY <1>4, <1>6, <2>2
<1> QED BY <1>3, <1>5, <1>6 DEF CompleteCall, CompleteAgentToolCall, LogTool

\* The transcript is saved after a tool result; the loop pauses or goes on.
LEMMA SaveToolIInv ==
    ASSUME IInv, NEW g \in Slots, SaveTool(g)
    PROVE  IInv'
<1> USE DEF ledger, history
<1> DEFINE rest == Tail(go[g].todo)
<1>1. /\ TypeOK /\ GoFine(g) /\ go[g] \in Locals /\ go[g].todo \in Seq(Calls)
      /\ go[g].pc = "saveTool" /\ go[g].pc \in Executing
      /\ go[g].todo # <<>> /\ Pending(g) = {} /\ go[g].run.status = "running"
  BY DEF IInv, TypeOK, Locals, SaveTool, GoFine, AtCall, Pending, Unlogged, Executing
<1>2. rest \in Seq(Calls) /\ \A i \in DOMAIN rest : i + 1 \in DOMAIN go[g].todo /\ rest[i] = go[g].todo[i + 1]
  BY <1>1, TailFacts
<1>3. CASE StopWithError(g, {})
  BY <1>1, <1>3, StopIInv
<1>4. CASE row' = go[g].run /\ UNCHANGED ledger
  <2>1. row' \in RunRows /\ RowFine'
    BY <1>1, <1>4, SaveRow
  <2>2. CASE go[g].paused /\ Finish(g, "waiting_approval")
    <3>1. Decidable(go[g].run.transcript) /\ "waiting_approval" \in RunStatuses
      BY <1>1, <2>2 DEF GoFine, AfterEffect, RunStatuses
    <3> QED BY <1>1, <1>4, <2>1, <2>2, <3>1, FinishIInv DEF TypeOK
  <2>3. ASSUME NEW l \in Locals, go' = [go EXCEPT ![g] = l], l.run = go[g].run,
               \/ l.pc = "model"
               \/ l.pc = "call" /\ l.todo = rest /\ rest # <<>>
        PROVE  IInv'
    <3>1. go' \in [Slots -> Locals] /\ go'[g] = l /\ \A h \in Slots \ {g} : go'[h] = go[h]
      BY <1>1, <2>3 DEF TypeOK
    <3>2. TypeOK' /\ Keeps
      BY <1>1, <1>4, <2>1, <3>1 DEF TypeOK, Keeps
    <3>3. l.pc = "call" => \A x \in Calls : InTodo(g, x)' => InTodo(g, x)
      <4> SUFFICES ASSUME l.pc = "call", NEW x \in Calls, NEW i \in DOMAIN go'[g].todo, go'[g].todo[i] = x
                   PROVE  InTodo(g, x)
        BY DEF InTodo
      <4>1. go'[g].todo = rest
        BY <2>3, <3>1
      <4>2. i + 1 \in DOMAIN go[g].todo /\ go[g].todo[i + 1] = x
        BY <1>2, <4>1
      <4> QED BY <4>2 DEF InTodo
    <3>4. l.pc = "call" => \A x \in Calls : InTodo(g, x)' => InLog(x)'
      BY <1>1, <3>2, <3>3, KeepsFacts DEF GoFine, Logged, Unlogged, Pending, AtCall
    <3>5. Logged(go[g].run.transcript, Pending(g))'
      BY <1>1, <1>4, <2>3, <3>1 DEF GoFine, Logged
    <3>6. GoFine(g)'
      BY <1>1, <2>3, <3>1, <3>4, <3>5 DEF GoFine, Logged, Unlogged, Pending, AtCall, AfterRecord, AfterEffect, Cancelling
    <3> QED BY <1>4, <2>1, <3>1, <3>2, <3>6, RecordedFrame, Frame
  <2>4. CASE rest # <<>> /\ go' = [go EXCEPT ![g].pc = "call", ![g].todo = rest]
    <3> DEFINE l == [go[g] EXCEPT !.pc = "call", !.todo = rest]
    <3>1. go' = [go EXCEPT ![g] = l]
      BY <2>4
    <3> HIDE DEF rest
    <3>2. l \in Locals /\ l.run = go[g].run /\ l.pc = "call" /\ l.todo = rest
      BY <1>1, <1>2 DEF Locals, RunPCs
    <3> HIDE DEF l
    <3> QED BY <2>3, <2>4, <3>1, <3>2
  <2>5. CASE go' = [go EXCEPT ![g].pc = "model", ![g].todo = <<>>, ![g].step = go[g].step + 1]
    <3> DEFINE l == [go[g] EXCEPT !.pc = "model", !.todo = <<>>, !.step = go[g].step + 1]
    <3>1. go' = [go EXCEPT ![g] = l]
      BY <2>5
    <3>2. go[g].step + 1 \in Nat /\ <<>> \in Seq(Calls)
      BY <1>1 DEF Locals
    <3>3. l \in Locals /\ l.run = go[g].run /\ l.pc = "model"
      BY <1>1, <3>2 DEF Locals, RunPCs
    <3> HIDE DEF l
    <3> QED BY <2>3, <3>1, <3>3
  <2> QED BY <1>3, <1>4, <2>2, <2>4, <2>5 DEF SaveTool
<1> QED BY <1>3, <1>4 DEF SaveTool

\* The end of the execution is saved.
LEMMA PersistOutcomeIInv ==
    ASSUME IInv, NEW g \in Slots, PersistOutcome(g)
    PROVE  IInv'
<1> USE DEF ledger, history
<1>1. CASE Abandon(g)
  BY <1>1, AbandonIInv
<1>2. CASE /\ go[g].pc = "final" /\ End(g) /\ UNCHANGED ledger
           /\ row' = [go[g].run EXCEPT !.status = go[g].outcome, !.nextStep = go[g].steps + 1]
  <2>1. /\ GoFine(g) /\ go[g].run \in RunRows /\ go[g].outcome \in RunStatuses
        /\ go[g].steps + 1 \in Nat
    BY DEF IInv, TypeOK, Locals
  <2>2. /\ row' \in RunRows /\ row'.status = go[g].outcome
        /\ row'.transcript = go[g].run.transcript
    BY <1>2, <2>1 DEF RunRows
  <2>3. \A i \in DOMAIN go[g].run.transcript : EventOf(go[g].run.transcript[i]) \in events \cup lost
    BY <1>2, <2>1 DEF GoFine, Pending, Unlogged, Logged
  <2>4. row'.status = "waiting_approval" => Decidable(go[g].run.transcript)
    BY <1>2, <2>1, <2>2 DEF GoFine
  <2>5. PausePointSaved'
    BY <1>2, <2>2, <2>4 DEF PausePointSaved, HasResult, Decidable
  <2>6. RowFine'
    BY <1>2, <2>2, <2>3, <2>5 DEF RowFine, TranscriptIsLogged
  <2> QED BY <1>2, <2>2, <2>6, EndIInv DEF IInv, TypeOK
<1> QED BY <1>1, <1>2 DEF PersistOutcome

\* A rejection or a cancellation.
LEMMA CancelIInv ==
    ASSUME IInv, NEW g \in Slots,
           GetRejected(g) \/ GetCancelled(g) \/ PutCancelled(g) \/ NoteCancelled(g)
    PROVE  IInv'
<1> USE DEF ledger, history
<1>1. TypeOK /\ GoFine(g)
  BY DEF IInv
<1>2. CASE End(g) /\ UNCHANGED <<row, calls, events, jobs, asked, texts, lost, dropped>> /\ (Fails \/ errors' = errors)
  BY <1>1, <1>2, EndIInv, FailsTyped DEF TypeOK
<1>3. CASE /\ Copy(g, "putRejected", "cancelled") \/ Copy(g, "putCancelled", "cancelled")
           /\ UNCHANGED <<row, ledger>>
  BY <1>3, CopyIInv DEF Cancelling
<1>4. CASE PutCancelled(g)
  <2>1. PICK pc \in {"noteRejected", "noteCancelled"} : Goto(g, pc)
    BY <1>4 DEF PutCancelled
  <2>2. /\ go' \in [Slots -> Locals]
        /\ go'[g].pc = pc /\ go'[g].run = go[g].run
        /\ \A h \in Slots \ {g} : go'[h] = go[h]
    BY <1>1, <2>1, GotoTyped DEF RunPCs
  <2>3. go[g].pc \in Cancelling /\ Pending(g) = {}
    BY <1>4 DEF PutCancelled, Cancelling, Pending, Unlogged
  <2>4. /\ UNCHANGED <<calls, events, jobs, asked, texts, lost, dropped>>
        /\ Fails \/ errors' = errors
        /\ row' = row \/ row' = go[g].run
    BY <1>4 DEF PutCancelled, Ignore
  <2>5. row' = row \/ (row' \in RunRows /\ RowFine')
    BY <2>3, <2>4, SaveRow
  <2>6. TypeOK' /\ Keeps
    BY <1>1, <2>2, <2>4, <2>5, FailsTyped DEF TypeOK, Keeps
  <2>7. GoFine(g)'
    BY <1>1, <2>2, <2>3, <2>4 DEF GoFine, Logged, Unlogged, Pending, AtCall, AfterRecord, AfterEffect, Executing, Cancelling
  <2> QED BY <2>2, <2>4, <2>5, <2>6, <2>7, RecordedFrame, Frame
<1>5. CASE NoteCancelled(g)
  <2>1. End(g) /\ row' = row /\ UNCHANGED <<calls, jobs, asked, texts, lost, dropped>>
    BY <1>5 DEF NoteCancelled, Ignore
  <2>2. events' = events \/ \E note \in Notes : events' = events \cup {[kind |-> note]}
    BY <1>5 DEF NoteCancelled, Ignore, Notes
  <2>3. events' \in SUBSET (Events \cup [kind : Notes]) /\ events \subseteq events'
    BY <1>1, <2>2 DEF TypeOK
  <2>4. errors' \in 0..Failures
    BY <1>1, <1>5, FailsTyped DEF NoteCancelled, Ignore
  <2>5. TypeOK' /\ Keeps
    BY <1>1, <2>1, <2>3, <2>4, EndTyped DEF TypeOK, Keeps
  <2> QED BY <1>1, <2>1, <2>5, EndTyped, RecordedFrame, Frame
<1> QED BY <1>2, <1>3, <1>4, <1>5 DEF GetRejected, GetCancelled, Ignore

\* Every step of every goroutine keeps the invariant.
LEMMA NextIInv == IInv /\ [Next]_vars => IInv'
<1> SUFFICES ASSUME IInv, [Next]_vars PROVE IInv'
  OBVIOUS
<1>1. ASSUME NEW g \in Slots, Execute(g) PROVE IInv'
  BY <1>1, BeforeIInv, AskModelIInv, AssistantIInv, RecordCallIInv, ExecuteToolIInv, LogResultIInv,
     SaveToolIInv, PersistOutcomeIInv, CancelIInv DEF Execute
<1>2. ASSUME NEW g \in Slots, Users(g) \/ Restart(g) PROVE IInv'
  BY <1>2, UsersIInv, RestartIInv
<1>3. CASE UNCHANGED vars
  <2>1. TypeOK' /\ Keeps
    BY <1>3 DEF IInv, TypeOK, Keeps, vars, ledger, history
  <2> QED BY <1>3, <2>1, RecordedFrame, Frame DEF vars, ledger
<1> QED BY <1>1, <1>2, <1>3 DEF Next

-----------------------------------------------------------------------------

\* The inductive invariant holds in every state.
LEMMA InvariantHolds == Spec => []IInv
BY InitIInv, NextIInv, PTL DEF Spec

\* The row, the ledger and the goroutines keep their types.
THEOREM RunTypeCorrect == Spec => []TypeOK
<1>1. IInv => TypeOK
  BY DEF IInv
<1> QED BY <1>1, InvariantHolds, PTL

\* However many goroutines execute the run at the same time, and whatever fails
\* or crashes, no call has an effect before it is recorded and its answer logged.
THEOREM RecordedBeforeEffectAlways == Spec => []RecordedBeforeEffect
<1>1. IInv => RecordedBeforeEffect
  BY DEF IInv
<1> QED BY <1>1, InvariantHolds, PTL

\* The event log covers the saved transcript, but for the entries whose event
\* could not be written.
THEOREM TranscriptIsLoggedAlways == Spec => []TranscriptIsLogged
<1>1. IInv => TranscriptIsLogged
  BY DEF IInv, RowFine
<1> QED BY <1>1, InvariantHolds, PTL

\* A run that waits for approval has put something up for decision.
THEOREM PausePointSavedAlways == Spec => []PausePointSaved
<1>1. IInv => PausePointSaved
  BY DEF IInv, RowFine
<1> QED BY <1>1, InvariantHolds, PTL

\* A run that has ended and that nobody executes: whoever still writes its row
\* cancels it.
Ended == HasEnded /\ \A g \in Slots : go[g].pc \notin Executing

\* Nobody begins to execute a run that has ended.
LEMMA EndedStep == IInv /\ Ended /\ [Next]_vars => Ended'
<1> SUFFICES ASSUME IInv, Ended, [Next]_vars PROVE Ended'
  OBVIOUS
<1>0. TypeOK /\ HasEnded /\ row.status # "none" /\ \A g \in Slots : go[g].pc \notin Executing
  BY DEF IInv, Ended, HasEnded
<1>1. ASSUME NEW g \in Slots, NEW pc \in RunPCs \ Executing, Goto(g, pc), row' = row \/ row'.status = "cancelled"
      PROVE  Ended'
  BY <1>0, <1>1, GotoTyped DEF Ended, HasEnded
<1>2. ASSUME NEW g \in Slots, End(g), row' = row PROVE Ended'
  <2>1. /\ go'[g].pc = "done" /\ \A h \in Slots \ {g} : go'[h] = go[h]
    BY <1>0, <1>2, StartingTyped DEF End, TypeOK, RunPCs
  <2> QED BY <1>0, <1>2, <2>1 DEF Ended, HasEnded, Executing
<1>3. ASSUME NEW g \in Slots, NEW pc \in Cancelling, NEW status, Copy(g, pc, status), row' = row PROVE Ended'
  <2>1. /\ go'[g].pc = pc /\ \A h \in Slots \ {g} : go'[h] = go[h]
    BY <1>0, <1>3 DEF Copy, TypeOK, Locals
  <2> QED BY <1>0, <1>3, <2>1 DEF Ended, HasEnded, Executing, Cancelling
<1>4. ASSUME NEW g \in Slots, Execute(g) PROVE Ended'
  <2>1. Scan(g) \/ GetRun(g) \/ GetRejected(g) \/ GetCancelled(g) \/ PutCancelled(g) \/ NoteCancelled(g)
    BY <1>0, <1>4 DEF Execute, Executing, MarkRunning, AskModel, LogAssistant, SaveAssistant, RecordCall,
       ExecuteTool, CompleteCall, LogTool, SaveTool, PersistOutcome
  <2>2. CASE Scan(g)
    BY <1>0, <1>2, <2>2 DEF Scan, ListAgentRunsByStatus, HasEnded, Abandon
  <2>3. CASE GetRun(g)
    BY <1>0, <1>2, <2>3 DEF GetRun, HasEnded, Abandon
  <2>4. CASE GetRejected(g) \/ GetCancelled(g)
    BY <1>0, <1>2, <1>3, <2>4 DEF GetRejected, GetCancelled, Cancelling
  <2>5. CASE PutCancelled(g)
    <3>1. go[g].run.status = "cancelled"
      BY <2>5 DEF PutCancelled, IInv, GoFine, Cancelling
    <3>2. PICK pc \in RunPCs \ Executing : Goto(g, pc)
      BY <2>5 DEF PutCancelled, RunPCs, Executing
    <3> QED BY <1>1, <2>5, <3>1, <3>2 DEF PutCancelled
  <2>6. CASE NoteCancelled(g)
    BY <1>2, <2>6 DEF NoteCancelled
  <2> QED BY <2>1, <2>2, <2>3, <2>4, <2>5, <2>6
<1>5. ASSUME NEW g \in Slots, Users(g) PROVE Ended'
  <2>1. {"get", "getRejected", "getCancelled"} \subseteq RunPCs \ Executing
    BY DEF RunPCs, Executing
  <2> QED BY <1>0, <1>1, <1>5, <2>1 DEF Users, CreateRun, Approve, Reject, Cancel
<1>6. ASSUME NEW g \in Slots, Restart(g) PROVE Ended'
  <2>1. ASSUME NEW h \in Slots PROVE go'[h].pc \in {"scan", "idle", "done"}
    BY <1>6, StartingTyped DEF Restart, RunPCs
  <2> QED BY <1>0, <1>6, <2>1 DEF Restart, Ended, HasEnded, Executing
<1>7. CASE UNCHANGED vars
  BY <1>7 DEF vars, Ended, HasEnded
<1> QED BY <1>4, <1>5, <1>6, <1>7 DEF Next

\* A run that has ended, and of whose row no goroutine holds a copy, is ended for
\* good, for any number of later approvals, cancellations and restarts.
THEOREM SettledEndStaysAlways == Spec => SettledEndStays
<1>1. EndedForGood => Ended
  BY DEF EndedForGood, Ended, Holding, Executing
<1>2. Ended => HasEnded
  BY DEF Ended
<1> QED BY <1>1, <1>2, EndedStep, InvariantHolds, PTL DEF Spec, SettledEndStays
=============================================================================
