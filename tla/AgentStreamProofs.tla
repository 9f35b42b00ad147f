------------------------- MODULE AgentStreamProofs -------------------------
(***************************************************************************)
(* Proofs about a request to the agent: the types, that tools are executed *)
(* as the model sent them, that the text of an answer arrives whole, and   *)
(* that the conversation is complete when the client has the last event.   *)
(***************************************************************************)
EXTENDS AgentStream, SelectionProofs

-----------------------------------------------------------------------------
(* The inductive invariant.                                                *)

\* The run has not returned: its steps are being taken, or not even begun.
Open == run.pc \in {"setup", "model", "delta", "assistant", "tool"}
Asking == run.pc \in {"setup", "model", "delta"}

Nothing == [text |-> 0, calls |-> NoCalls]

\* Of an answer being read, the locals hold what the model has sent; no call has
\* begun before the ones in front of it; and nothing was sent for later steps.
ReadInv ==
    /\ run.pc = "setup" => events = <<>> /\ run = Fresh
    /\ Asking => /\ said[run.step] = [text |-> run.text, calls |-> run.calls]
                 /\ \A i, j \in Calls : j < i /\ run.calls[i] # {} => run.calls[j] # {}
    /\ Open => \A step \in Steps : step > run.step => said[step] = Nothing

\* The calls of step are complete, and include the ones of todo.
CallsReady(step, todo) ==
    /\ \A c \in Calls : said[step].calls[c] \in {{}, Parts}
    /\ \A j \in 1..Len(todo) : Whole(said[step].calls, todo[j])

\* The events are of the steps taken, and the next tool follows on the last.
ExecInv ==
    /\ (Asking \/ run.pc = "assistant") => \A i \in DOMAIN events : events[i].step < run.step
    /\ run.pc = "assistant" =>
        /\ CallsReady(run.step, run.todo)
        /\ \A j \in 1..Len(run.todo) : run.todo[j] = j
    /\ run.pc = "tool" =>
        /\ run.todo # <<>>
        /\ CallsReady(run.step, run.todo)
        /\ \A j \in 1..Len(run.todo) : run.todo[j] = run.todo[1] + (j - 1)
        /\ \A i \in DOMAIN events : events[i].step <= run.step
        /\ events # <<>>
        /\ events[Len(events)] = IF run.todo[1] = 1 THEN Event("assistant", run.step, 0)
                                 ELSE Event("tool", run.step, run.todo[1] - 1)

\* What the conversation holds at each point, unless it was deleted or a message
\* could not be added.
Failed == mode = "plain" /\ run.outcome = "error"
Saved == IF Failed THEN <<>> ELSE SubSeq(ToolEvents, 1, run.saved)

ConvInv ==
    /\ run.saved <= Len(ToolEvents)
    /\ Open => run.saved = 0
    /\ exists /\ errors = 0 =>
        /\ run.pc = "setup" => conv = <<>>
        /\ run.pc # "setup" /\ Open => conv = <<Message("user")>>
        /\ run.pc = "persist" => conv = <<Message("user")>> \o Saved
        /\ run.pc \in {"final", "audit", "closed"} => conv = Exchange

\* The last event is sent after the conversation is written.
DoneInv ==
    run.pc \notin {"audit", "closed"} =>
        /\ \A i \in DOMAIN got : got[i].type # "done"
        /\ \A i \in DOMAIN chan : chan[i].type # "done"

\* What is on its way to the client, or with it.
Pipe == got \o chan

\* The first n fragments of the text of a step.
Text(step, n) == [i \in 1..n |-> Event("delta", step, i)]

\* Whatever follows the answers of the steps A in p has their text, as much as t says,
\* in front of it.
Placed(p, A, t) ==
    \A i \in DOMAIN p : p[i].type # "delta" =>
        \A step \in A :
            p[i].type = "done" \/ step <= p[i].step =>
                Fragments(SubSeq(p, 1, i), step) = Text(step, t[step])

\* p holds the text of the steps D.
Full(p, D, t) == \A step \in D : Fragments(p, step) = Text(step, t[step])

\* The events in p, but for text, are of steps before n.
Below(p, n) ==
    \A i \in DOMAIN p : p[i].type # "delta" => p[i].type # "done" /\ p[i].step < n

AnsweredSteps == {step \in Steps : Answered(step)}
Due == {step \in Steps : Answered(step) \/ (Open /\ step >= run.step)}

\* The text that was read, and the text that was sent: onDelta may hold a fragment.
Texts == [step \in Steps |-> said[step].text]
SentTexts ==
    [step \in Steps |-> IF run.pc = "delta" /\ step = run.step THEN said[step].text - 1
                        ELSE said[step].text]

PipeInv ==
    /\ Placed(Pipe, AnsweredSteps, Texts)
    /\ Full(Pipe, Due, SentTexts)
    /\ Open => Below(Pipe, IF run.pc = "tool" THEN run.step + 1 ELSE run.step)

TextInv ==
    /\ run.pc = "delta" => run.text > 0
    /\ client = "gone" => got = <<>>
    /\ mode = "stream" /\ client = "reading" => PipeInv

StreamInv == TypeOK /\ ReadInv /\ ExecInv /\ ExecutedAsSent /\ ConvInv /\ DoneInv /\ TextInv

-----------------------------------------------------------------------------
(* Types.                                                                  *)

Runs == [pc : PCs, step : Steps, text : 0..MaxText, calls : [Calls -> SUBSET Parts],
         todo : Seq(Calls), saved : Nat,
         outcome : {"none", "refused", "answer", "pending", "error"}]

\* Append keeps the type of a sequence.
LEMMA AppendTyped ==
    ASSUME NEW T, NEW s \in Seq(T), NEW e \in T
    PROVE  Append(s, e) \in Seq(T)
OBVIOUS

\* Appending commutes with what stands in front.
LEMMA ConcatAppend ==
    ASSUME NEW T, NEW s \in Seq(T), NEW t \in Seq(T), NEW e \in T
    PROVE  Append(s \o t, e) = s \o Append(t, e)
OBVIOUS

\* The fields of a fresh run.
LEMMA FreshType ==
    /\ Fresh.pc = "setup" /\ Fresh.step = 1 /\ Fresh.text = 0 /\ Fresh.calls = NoCalls
    /\ Fresh.todo = <<>> /\ Fresh.saved = 0 /\ Fresh.outcome = "none"
    /\ Fresh \in Runs /\ NoCalls \in [Calls -> SUBSET Parts]
BY StreamAssumption DEF Fresh, Runs, NoCalls, Steps, PCs

\* The run as its helpers leave it.
Starts(step) ==
    /\ run'.pc = "model" /\ run'.step = step /\ run'.text = 0 /\ run'.calls = NoCalls
    /\ run'.todo = <<>> /\ run'.saved = 0 /\ run'.outcome = "none" /\ run' \in Runs

Returns(pc, outcome) ==
    /\ run'.pc = pc /\ run'.step = 1 /\ run'.text = 0 /\ run'.calls = NoCalls
    /\ run'.todo = <<>> /\ run'.saved = 0 /\ run'.outcome = outcome /\ run' \in Runs

Moves(pc) ==
    /\ run'.pc = pc /\ run'.step = run.step /\ run'.text = run.text /\ run'.calls = run.calls
    /\ run'.todo = run.todo /\ run'.saved = run.saved /\ run'.outcome = run.outcome
    /\ run' \in Runs

\* Ask starts a step.
LEMMA AskStarts ==
    ASSUME NEW step \in Steps, Ask(step)
    PROVE  Starts(step)
BY FreshType, StreamAssumption DEF Ask, Starts, Runs, PCs, Steps

\* Finish returns from the run.
LEMMA FinishReturns ==
    ASSUME NEW outcome \in {"none", "refused", "answer", "pending", "error"}, Finish(outcome)
    PROVE  Returns("persist", outcome)
BY FreshType, StreamAssumption DEF Finish, Returns, Runs, PCs, Steps

\* Goto moves the run and nothing else.
LEMMA GotoMoves ==
    ASSUME NEW pc \in PCs, run \in Runs, Goto(pc)
    PROVE  Moves(pc)
BY DEF Goto, Moves, Runs

\* An answer is turned into the calls to make.
Answers(n) ==
    /\ run'.pc = "assistant" /\ run'.step = run.step /\ run'.text = 0 /\ run'.calls = NoCalls
    /\ run'.todo = [i \in 1..n |-> i] /\ run'.saved = 0 /\ run'.outcome = "none"
    /\ run' \in Runs

\* Answer leaves the calls in the order of their indices.
LEMMA AnswerAnswers ==
    ASSUME NEW n \in 0..MaxCalls, run \in Runs, Answer(n)
    PROVE  Answers(n)
<1>1. [i \in 1..n |-> i] \in Seq(Calls)
  BY StreamAssumption DEF Calls
<1>2. run.step \in Steps
  BY DEF Runs
<1> QED BY <1>1, <1>2, FreshType, StreamAssumption DEF Answer, Answers, Runs, PCs

\* Setup either refuses the run, or starts it.
LEMMA SetupTurns ==
    ASSUME TypeOK, Setup
    PROVE  \/ Starts(1)
           \/ Returns("persist", "pending")
           \/ Returns("persist", "refused")
           \/ mode = "plain" /\ Returns("audit", "refused")
<1>1. 1 \in Steps
  BY StreamAssumption DEF Steps
<1>2. CASE Ask(1)
  BY <1>1, <1>2, AskStarts
<1>3. CASE Finish("pending")
  BY <1>3, FinishReturns
<1>4. CASE run' = [Fresh EXCEPT !.pc = IF mode = "plain" THEN "audit" ELSE "persist",
                              !.outcome = "refused"]
  BY <1>1, <1>4, FreshType DEF Returns, Runs, PCs
<1> QED BY <1>2, <1>3, <1>4 DEF Setup

\* An offered event keeps the channel within its buffer.
LEMMA OfferType ==
    ASSUME NEW e \in Events, chan \in Seq(Events), Len(chan) <= Cap, Offer(e)
    PROVE  chan' \in Seq(Events) /\ Len(chan') <= Cap
<1>1. CASE mode = "stream" /\ Len(chan) < Cap
  <2>1. chan' = Append(chan, e)
    BY <1>1 DEF Offer
  <2>2. Len(chan') = Len(chan) + 1 /\ chan' \in Seq(Events)
    BY <2>1
  <2> QED BY <1>1, <2>2, StreamAssumption
<1>2. CASE ~(mode = "stream" /\ Len(chan) < Cap)
  BY <1>2 DEF Offer
<1> QED BY <1>1, <1>2

\* A message that is added, or not, keeps the types of the conversation.
LEMMA AddMessageType ==
    ASSUME NEW m \in Messages, TypeOK, AddConversationMessage(m)
    PROVE  exists' \in BOOLEAN /\ conv' \in Seq(Messages) /\ errors' \in 0..Failures
<1>1. conv' = Append(conv, m) \/ conv' = conv
  BY DEF AddConversationMessage
<1>2. errors' = errors \/ (errors < Failures /\ errors' = errors + 1)
  BY DEF AddConversationMessage
<1>3. exists' = exists
  BY DEF AddConversationMessage
<1>4. conv' \in Seq(Messages)
  <2>1. conv \in Seq(Messages)
    BY DEF TypeOK
  <2> QED BY <1>1, <2>1, AppendTyped, Zenon
<1>5. errors' \in 0..Failures
  BY <1>2, StreamAssumption DEF TypeOK
<1> QED BY <1>3, <1>4, <1>5, Zenon DEF TypeOK

\* The tool events are tool events.
LEMMA ToolEventsType ==
    ASSUME events \in Seq(RunEvents)
    PROVE  ToolEvents \in Seq(ToolCalls) /\ Len(ToolEvents) \in Nat
<1>1. RunEvents \cap ToolCalls = ToolCalls
  BY DEF RunEvents
<1>2. ToolEvents \in Seq(ToolCalls)
  BY <1>1, OnlyInType DEF ToolEvents
<1> QED BY <1>2

\* The events and the messages that the actions make are of their types.
LEMMA EventTypes ==
    /\ \A step \in Steps : Event("assistant", step, 0) \in RunEvents
    /\ \A step \in Steps, n \in Calls : Event("tool", step, n) \in ToolCalls
    /\ \A step \in Steps, n \in 1..MaxText : Event("delta", step, n) \in Events
    /\ Event("done", 0, 0) \in Events
    /\ RunEvents \subseteq Events /\ ToolCalls \subseteq RunEvents
    /\ ToolCalls \subseteq Messages
    /\ \A role \in {"user", "assistant", "error"} : Message(role) \in Messages
BY DEF Event, RunEvents, ToolCalls, Events, Messages, Message

\* The type of the run, by its name.
LEMMA RunTyped == TypeOK => run \in Runs
BY DEF TypeOK, Runs

\* What the reading of the answer does to the locals.
LEMMA ReadTextReads ==
    ASSUME TypeOK, ReadText
    PROVE  /\ run' \in Runs
           /\ run'.pc = "delta" /\ run'.step = run.step /\ run'.text = run.text + 1
           /\ run'.calls = run.calls /\ run'.todo = run.todo
           /\ run'.saved = run.saved /\ run'.outcome = run.outcome
<1>1. run \in Runs /\ run.text < MaxText
  BY RunTyped DEF ReadText
<1>2. run.text + 1 \in 0..MaxText
  BY <1>1, StreamAssumption DEF Runs
<1>3. run' = [run EXCEPT !.pc = "delta", !.text = run.text + 1]
  BY DEF ReadText
<1> QED BY <1>1, <1>2, <1>3 DEF Runs, PCs

\* A fragment of a call changes that call alone.
LEMMA ReadCallReads ==
    ASSUME TypeOK, NEW i \in Calls, NEW part \in Parts, ReadCall(i, part)
    PROVE  /\ run' \in Runs
           /\ run'.pc = "model" /\ run'.step = run.step /\ run'.text = run.text
           /\ run'.calls = [run.calls EXCEPT ![i] = @ \cup {part}]
           /\ run'.todo = run.todo /\ run'.saved = run.saved /\ run'.outcome = run.outcome
BY DEF TypeOK, ReadCall, Runs

\* A tool event that is added advances the count.
LEMMA PersistToolSaves ==
    ASSUME TypeOK, PersistTool
    PROVE  /\ run' \in Runs
           /\ run'.pc = "persist" /\ run'.step = run.step /\ run'.text = run.text
           /\ run'.calls = run.calls /\ run'.todo = run.todo
           /\ run'.saved = run.saved + 1 /\ run'.outcome = run.outcome
<1>1. run \in Runs /\ run.pc = "persist"
  BY RunTyped DEF PersistTool
<1>2. run.saved + 1 \in Nat
  BY <1>1 DEF Runs
<1>3. run' = [run EXCEPT !.saved = run.saved + 1]
  BY DEF PersistTool
<1> QED BY <1>1, <1>2, <1>3 DEF Runs

\* A tool leaves the rest of the calls to make, starts the next step, or ends the run.
ToolTurns ==
    \/ Returns("persist", "pending")
    \/ /\ Len(run.todo) > 1
       /\ run'.pc = "tool" /\ run'.step = run.step /\ run'.text = run.text
       /\ run'.calls = run.calls /\ run'.todo = Tail(run.todo)
       /\ run'.saved = run.saved /\ run'.outcome = run.outcome /\ run' \in Runs
    \/ run.step + 1 \in Steps /\ Len(run.todo) = 1 /\ Starts(run.step + 1)
    \/ Len(run.todo) = 1 /\ Returns("persist", "error")

\* ExecuteTool takes one of these turns.
LEMMA ExecuteToolTurns == ASSUME TypeOK, ExecuteTool, run.todo # <<>> PROVE ToolTurns
<1>1. run \in Runs /\ Tail(run.todo) \in Seq(Calls)
  BY DEF TypeOK, Runs
<1>2. CASE Finish("pending")
  BY <1>2, FinishReturns DEF ToolTurns
<1>3. CASE Len(run.todo) > 1 /\ run' = [run EXCEPT !.todo = Tail(@)]
  BY <1>1, <1>3 DEF Runs, ToolTurns, ExecuteTool
<1>4. CASE Len(run.todo) = 1 /\ run.step < MaxSteps /\ Ask(run.step + 1)
  <2>1. run.step + 1 \in Steps
    BY <1>1, <1>4, StreamAssumption DEF Runs, Steps
  <2> QED BY <1>4, <2>1, AskStarts DEF ToolTurns
<1>5. CASE Len(run.todo) = 1 /\ Finish("error")
  BY <1>5, FinishReturns DEF ToolTurns
<1> QED BY <1>2, <1>3, <1>4, <1>5 DEF ExecuteTool

\* An answer has calls to make, or ends the run.
LEMMA AssistantTurns ==
    ASSUME TypeOK, Assistant
    PROVE  \/ run.todo = <<>> /\ Returns("persist", "answer")
           \/ run.todo # <<>> /\ Moves("tool")
<1>1. "tool" \in PCs /\ run \in Runs
  BY RunTyped DEF PCs
<1> QED BY <1>1, FinishReturns, GotoMoves DEF Assistant

\* The end of the model's stream.
LEMMA ReadEndTurns ==
    ASSUME TypeOK, ReadEnd
    PROVE  \/ Returns("persist", "error")
           \/ \E n \in 0..MaxCalls :
                Assembled(n) /\ Answers(n) /\ \A i \in 1..n : Whole(run.calls, i)
BY RunTyped, FinishReturns, AnswerAnswers DEF ReadEnd, Assemble

\* A step of the producer leaves a run; only the tools need to know that there is a
\* call to make.
LEMMA ProduceRuns ==
    ASSUME TypeOK, Produce, run.pc = "tool" => run.todo # <<>>
    PROVE  run' \in Runs
<1>0. run \in Runs /\ \A pc \in {"model", "audit", "final", "closed"} : pc \in PCs
  BY RunTyped DEF PCs
<1>1. CASE Setup
  BY <1>1, SetupTurns DEF Starts, Returns
<1>2. CASE ReadText
  BY <1>2, ReadTextReads
<1>3. CASE SendDelta
  BY <1>0, <1>3, GotoMoves DEF SendDelta, Moves
<1>4. CASE CancelDelta
  BY <1>4, FinishReturns DEF CancelDelta, Returns
<1>5. CASE \E i \in Calls, part \in Parts : ReadCall(i, part)
  BY <1>5, ReadCallReads
<1>6. CASE ReadEnd
  BY <1>6, ReadEndTurns DEF Returns, Answers
<1>7. CASE \E n \in 0..MaxCalls : Complete(n)
  BY <1>0, <1>7, AnswerAnswers DEF Complete, Answers
<1>8. CASE Abort
  BY <1>8, FinishReturns DEF Abort, Returns
<1>9. CASE Assistant
  BY <1>9, AssistantTurns DEF Returns, Moves
<1>10. CASE ExecuteTool
  <2>1. run.todo # <<>>
    BY <1>10 DEF ExecuteTool
  <2> QED BY <1>10, <2>1, ExecuteToolTurns DEF ToolTurns, Returns, Starts
<1>11. CASE PersistTool
  BY <1>11, PersistToolSaves
<1>12. CASE PersistAnswer
  BY <1>0, <1>12, GotoMoves DEF PersistAnswer, Moves
<1>13. CASE SendDone
  BY <1>0, <1>13, GotoMoves DEF SendDone, Moves
<1>14. CASE Close
  BY <1>0, <1>14, GotoMoves DEF Close, Moves
<1> QED BY <1>1, <1>2, <1>3, <1>4, <1>5, <1>6, <1>7, <1>8, <1>9, <1>10, <1>11, <1>12,
           <1>13, <1>14 DEF Produce

\* ... and the messages, the events and what was said keep their types.
LEMMA ProduceTypes ==
    ASSUME TypeOK, Produce, run.pc = "tool" => run.todo # <<>>,
           run.pc = "model" => said[run.step].text = run.text,
           run.pc = "delta" => run.text > 0
    PROVE  TypeOK'
<1>0. run' \in Runs
  BY ProduceRuns
<1>1. CASE Setup
  <2>1. exists' \in BOOLEAN /\ conv' \in Seq(Messages) /\ errors' \in 0..Failures
    BY <1>1, AddMessageType, EventTypes DEF Setup
  <2> QED BY <1>0, <1>1, <2>1 DEF TypeOK, Setup, peers, Runs
<1>2. CASE ReadText
  <2>1. said' \in [Steps -> [text : 0..MaxText, calls : [Calls -> SUBSET Parts]]]
    <3>1. said[run.step].text + 1 \in 0..MaxText /\ run.step \in Steps
      BY <1>2, StreamAssumption DEF TypeOK, ReadText
    <3>2. said' = [said EXCEPT ![run.step].text = said[run.step].text + 1]
      BY <1>2 DEF ReadText
    <3> QED BY <3>1, <3>2 DEF TypeOK
  <2> QED BY <1>0, <1>2, <2>1 DEF TypeOK, ReadText, peers, conversation, Runs
<1>3. CASE SendDelta
  <2>1. Event("delta", run.step, run.text) \in Events
    <3>1. run.step \in Steps /\ run.text \in 1..MaxText
      BY <1>3, StreamAssumption DEF TypeOK, SendDelta
    <3> QED BY <3>1, EventTypes
  <2>2. chan' \in Seq(Events) /\ Len(chan') <= Cap
    BY <1>3, <2>1, StreamAssumption DEF TypeOK, SendDelta
  <2> QED BY <1>0, <1>3, <2>2 DEF TypeOK, SendDelta, peers, conversation, Runs
<1>4. CASE CancelDelta
  BY <1>0, <1>4 DEF TypeOK, CancelDelta, peers, conversation, Runs
<1>5. CASE \E i \in Calls, part \in Parts : ReadCall(i, part)
  <2>1. said' \in [Steps -> [text : 0..MaxText, calls : [Calls -> SUBSET Parts]]]
    <3>1. PICK i \in Calls, part \in Parts : ReadCall(i, part)
      BY <1>5
    <3> QED BY <3>1 DEF TypeOK, ReadCall
  <2> QED BY <1>0, <1>5, <2>1 DEF TypeOK, ReadCall, peers, conversation, Runs
<1>6. CASE ReadEnd
  BY <1>0, <1>6 DEF TypeOK, ReadEnd, peers, conversation, Runs
<1>7. CASE \E n \in 0..MaxCalls : Complete(n)
  <2>1. said' \in [Steps -> [text : 0..MaxText, calls : [Calls -> SUBSET Parts]]]
    <3>1. PICK n \in 0..MaxCalls : Complete(n)
      BY <1>7
    <3>2. [i \in Calls |-> IF i <= n THEN Parts ELSE {}] \in [Calls -> SUBSET Parts]
      OBVIOUS
    <3> QED BY <3>1, <3>2 DEF TypeOK, Complete
  <2> QED BY <1>0, <1>7, <2>1 DEF TypeOK, Complete, peers, conversation, Runs
<1>8. CASE Abort
  BY <1>0, <1>8 DEF TypeOK, Abort, peers, conversation, Runs
<1>9. CASE Assistant
  <2> DEFINE e == Event("assistant", run.step, 0)
  <2>1. e \in RunEvents /\ e \in Events
    BY RunTyped, EventTypes DEF Runs
  <2>2. events' \in Seq(RunEvents)
    BY <1>9, <2>1 DEF TypeOK, Assistant
  <2>3. chan' \in Seq(Events) /\ Len(chan') <= Cap
    BY <1>9, <2>1, OfferType DEF TypeOK, Assistant
  <2> QED BY <1>0, <1>9, <2>2, <2>3 DEF TypeOK, Assistant, peers, conversation, Runs
<1>10. CASE ExecuteTool
  <2> DEFINE e == Event("tool", run.step, Head(run.todo))
  <2>1. run.step \in Steps /\ Head(run.todo) \in Calls
    BY <1>10 DEF TypeOK, ExecuteTool
  <2>2. e \in RunEvents /\ e \in Events
    BY <2>1, EventTypes
  <2>3. events' \in Seq(RunEvents)
    BY <1>10, <2>2 DEF TypeOK, ExecuteTool
  <2>4. chan' \in Seq(Events) /\ Len(chan') <= Cap
    BY <1>10, <2>2, OfferType DEF TypeOK, ExecuteTool
  <2> QED BY <1>0, <1>10, <2>3, <2>4 DEF TypeOK, ExecuteTool, peers, conversation, Runs
<1>11. CASE PersistTool
  <2>1. ToolEvents[run.saved + 1] \in Messages
    <3>1. /\ ToolEvents \in Seq(ToolCalls) /\ run.saved \in Nat
          /\ run.saved < Len(ToolEvents)
      BY <1>11, ToolEventsType DEF TypeOK, PersistTool
    <3>2. ToolEvents[run.saved + 1] \in ToolCalls
      BY <3>1
    <3> QED BY <3>2, EventTypes
  <2>2. exists' \in BOOLEAN /\ conv' \in Seq(Messages) /\ errors' \in 0..Failures
    BY <1>11, <2>1, AddMessageType DEF PersistTool
  <2> QED BY <1>0, <1>11, <2>2 DEF TypeOK, PersistTool, peers, Runs
<1>12. CASE PersistAnswer
  <2>1. exists' \in BOOLEAN /\ conv' \in Seq(Messages) /\ errors' \in 0..Failures
    <3>1. CASE UNCHANGED conversation
      BY <3>1 DEF TypeOK, conversation
    <3>2. CASE AddConversationMessage(Message("error")) \/ AddConversationMessage(Message("assistant"))
      BY <3>2, AddMessageType, EventTypes
    <3> QED BY <1>12, <3>1, <3>2 DEF PersistAnswer
  <2> QED BY <1>0, <1>12, <2>1 DEF TypeOK, PersistAnswer, peers, Runs
<1>13. CASE SendDone
  <2>1. Event("done", 0, 0) \in Events
    BY EventTypes
  <2>2. chan' \in Seq(Events) /\ Len(chan') <= Cap
    BY <1>13, <2>1, StreamAssumption DEF TypeOK, SendDone
  <2> QED BY <1>0, <1>13, <2>2 DEF TypeOK, SendDone, peers, conversation, Runs
<1>14. CASE Close
  <2>1. Event("done", 0, 0) \in Events
    BY EventTypes
  <2>2. handler' \in {"range", "wait", "returned"}
    BY <1>14 DEF TypeOK, Close
  <2>3. got' = <<Event("done", 0, 0)>> \/ got' = got
    BY <1>14 DEF Close
  <2>4. got' \in Seq(Events)
    <3>1. got \in Seq(Events) /\ <<Event("done", 0, 0)>> \in Seq(Events)
      BY <2>1 DEF TypeOK
    <3> QED BY <2>3, <3>1, Zenon
  <2> QED BY <1>0, <1>14, <2>2, <2>4 DEF TypeOK, Close, conversation, Runs
<1> QED BY <1>1, <1>2, <1>3, <1>4, <1>5, <1>6, <1>7, <1>8, <1>9, <1>10, <1>11, <1>12,
           <1>13, <1>14 DEF Produce

\* The handler, its client and the others.
LEMMA OthersType ==
    ASSUME TypeOK,
           Forward \/ HandlerReturns \/ Leave \/ NoticeLeave \/ Expire \/ DeleteConversation
    PROVE  TypeOK'
<1>1. CASE Forward
  <2>1. chan \in Seq(Events) /\ chan # <<>> /\ Len(chan) <= Cap
    BY <1>1 DEF Forward, TypeOK
  <2>2. /\ Tail(chan) \in Seq(Events) /\ Len(Tail(chan)) = Len(chan) - 1
        /\ Head(chan) \in Events
    BY <2>1
  <2>3. chan' \in Seq(Events) /\ Len(chan') <= Cap
    BY <1>1, <2>1, <2>2, StreamAssumption DEF Forward
  <2>4. got' \in Seq(Events)
    <3>1. got' = Append(got, Head(chan)) \/ got' = got
      BY <1>1 DEF Forward
    <3>2. got \in Seq(Events)
      BY DEF TypeOK
    <3> QED BY <2>2, <3>1, <3>2, AppendTyped, Zenon
  <2>5. handler' \in {"range", "wait", "returned"}
    BY <1>1 DEF Forward, TypeOK
  <2> QED BY <1>1, <2>3, <2>4, <2>5 DEF TypeOK, Forward, process, conversation
<1>2. CASE HandlerReturns
  BY <1>2 DEF TypeOK, HandlerReturns, process, conversation
<1>3. CASE Leave
  BY <1>3 DEF TypeOK, Leave, conversation
<1>4. CASE NoticeLeave
  BY <1>4 DEF TypeOK, NoticeLeave, conversation
<1>5. CASE Expire
  BY <1>5 DEF TypeOK, Expire, conversation
<1>6. CASE DeleteConversation
  <2>1. conv' = <<>> /\ exists' = FALSE
    BY <1>6 DEF DeleteConversation
  <2>2. <<>> \in Seq(Messages)
    OBVIOUS
  <2> QED BY <1>6, <2>1, <2>2 DEF TypeOK, DeleteConversation
<1> QED BY <1>1, <1>2, <1>3, <1>4, <1>5, <1>6

-----------------------------------------------------------------------------
(* The reading of an answer, and the execution of its calls.               *)

\* A run that has returned reads and executes nothing any more.
LEMMA ReturnedIdle == ASSUME ~Open' PROVE ReadInv' /\ ExecInv'
BY DEF Open, ReadInv, ExecInv, Asking

\* A step that neither moves the run, nor changes what was said or the events.
LEMMA SameReads ==
    ASSUME ReadInv, ExecInv, ExecutedAsSent, run' = run, said' = said, events' = events
    PROVE  ReadInv' /\ ExecInv' /\ ExecutedAsSent'
BY DEF ReadInv, ExecInv, ExecutedAsSent, Open, Asking, CallsReady

\* Neither the events nor what was said has changed.
LEMMA SameEvents ==
    ASSUME ExecutedAsSent, said' = said, events' = events
    PROVE  ExecutedAsSent'
BY DEF ExecutedAsSent

\* What was said of the steps of the events stays as it is while an answer is read.
LEMMA SaidLater ==
    ASSUME TypeOK, ExecutedAsSent, events' = events,
           \A i \in DOMAIN events : said'[events[i].step].calls = said[events[i].step].calls
    PROVE  ExecutedAsSent'
BY DEF ExecutedAsSent

\* Setup: nothing was said or executed.
LEMMA SetupReads ==
    ASSUME TypeOK, ReadInv, ExecInv, ExecutedAsSent, Setup
    PROVE  ReadInv' /\ ExecInv' /\ ExecutedAsSent'
<1>1. said' = said /\ events' = events /\ run.pc = "setup" /\ run = Fresh /\ events = <<>>
  BY DEF Setup, ReadInv
<1>2. ExecutedAsSent'
  BY <1>1, SameEvents
<1>3. CASE Starts(1)
  <2>1. run.step = 1 /\ run.text = 0 /\ run.calls = NoCalls
    BY <1>1, FreshType
  <2>2. ReadInv'
    BY <1>1, <1>3, <2>1 DEF Starts, ReadInv, Open, Asking
  <2>3. ExecInv'
    BY <1>1, <1>3 DEF Starts, ExecInv, Asking
  <2> QED BY <1>2, <2>2, <2>3
<1>4. CASE ~Open'
  BY <1>2, <1>4, ReturnedIdle
<1> QED BY <1>3, <1>4, SetupTurns DEF Returns, Open

\* ReadText: the locals follow what was said, and no event is of this step.
LEMMA ReadTextReading ==
    ASSUME TypeOK, ReadInv, ExecInv, ExecutedAsSent, ReadText
    PROVE  ReadInv' /\ ExecInv' /\ ExecutedAsSent'
<1>1. /\ run'.pc = "delta" /\ run'.step = run.step /\ run'.text = run.text + 1
      /\ run'.calls = run.calls
  BY ReadTextReads
<1>2. run.pc = "model" /\ events' = events /\ run.step \in Steps
  BY DEF ReadText, TypeOK
<1>3. /\ said'[run.step] = [text |-> said[run.step].text + 1, calls |-> said[run.step].calls]
      /\ \A step \in Steps : step # run.step => said'[step] = said[step]
      /\ \A step \in Steps : said'[step].calls = said[step].calls
  BY <1>2 DEF ReadText, TypeOK
<1>4. said[run.step] = [text |-> run.text, calls |-> run.calls]
  BY <1>2 DEF ReadInv, Asking
<1>5. ReadInv'
  <2>1. said'[run.step] = [text |-> run.text + 1, calls |-> run.calls]
    BY <1>3, <1>4
  <2>2. \A step \in Steps : step > run.step => said'[step] = Nothing
    BY <1>2, <1>3 DEF ReadInv, Open, Steps
  <2>3. \A i, j \in Calls : j < i /\ run.calls[i] # {} => run.calls[j] # {}
    BY <1>2 DEF ReadInv, Asking
  <2> QED BY <1>1, <2>1, <2>2, <2>3 DEF ReadInv, Open, Asking
<1>6. ExecInv'
  BY <1>1, <1>2 DEF ExecInv, Asking
<1>7. \A i \in DOMAIN events : events[i].step \in Steps
  BY DEF TypeOK, RunEvents, ToolCalls
<1>8. ExecutedAsSent'
  BY <1>2, <1>3, <1>7, SaidLater
<1> QED BY <1>5, <1>6, <1>8

\* ReadCall: likewise, and a call begins only behind others that have begun.
LEMMA ReadCallReading ==
    ASSUME TypeOK, ReadInv, ExecInv, ExecutedAsSent,
           NEW i \in Calls, NEW part \in Parts, ReadCall(i, part)
    PROVE  ReadInv' /\ ExecInv' /\ ExecutedAsSent'
<1>1. /\ run'.pc = "model" /\ run'.step = run.step /\ run'.text = run.text
      /\ run'.calls = [run.calls EXCEPT ![i] = @ \cup {part}]
  BY ReadCallReads
<1>2. /\ run.pc = "model" /\ events' = events /\ run.step \in Steps
      /\ run.calls \in [Calls -> SUBSET Parts]
  BY DEF ReadCall, TypeOK
<1>3. said[run.step] = [text |-> run.text, calls |-> run.calls]
  BY <1>2 DEF ReadInv, Asking
<1>4. /\ said'[run.step] = [text |-> run.text, calls |-> run'.calls]
      /\ \A step \in Steps : step # run.step => said'[step] = said[step]
  <2> DEFINE before == said[run.step]
             after == [before EXCEPT !.calls[i] = before.calls[i] \cup {part}]
  <2>1. said' = [said EXCEPT ![run.step] = after]
    BY DEF ReadCall
  <2>2. said \in [Steps -> [text : 0..MaxText, calls : [Calls -> SUBSET Parts]]]
    BY DEF TypeOK
  <2>3. after = [text |-> run.text, calls |-> run'.calls]
    <3>1. before.calls = run.calls /\ before.text = run.text
      BY <1>3
    <3>2. after = [before EXCEPT !.calls = [before.calls EXCEPT ![i] = before.calls[i] \cup {part}]]
      OBVIOUS
    <3>3. [before.calls EXCEPT ![i] = before.calls[i] \cup {part}] = run'.calls
      BY <1>1, <1>2, <3>1
    <3>4. before = [text |-> run.text, calls |-> run.calls]
      BY <1>3
    <3> HIDE DEF before, after
    <3> QED BY <3>2, <3>3, <3>4
  <2> HIDE DEF after
  <2> QED BY <1>2, <2>1, <2>2, <2>3
<1>5. ReadInv'
  <2>1. \A step \in Steps : step > run.step => said'[step] = Nothing
    BY <1>2, <1>4 DEF ReadInv, Open, Steps
  <2>2. ASSUME NEW k \in Calls, NEW j \in Calls, j < k, run'.calls[k] # {}
        PROVE  run'.calls[j] # {}
    <3>1. run.calls[j] # {} => run'.calls[j] # {}
      BY <1>1, <1>2
    <3>2. CASE run.calls[k] # {}
      BY <1>2, <2>2, <3>1, <3>2 DEF ReadInv, Asking
    <3>3. CASE run.calls[k] = {}
      <4>1. k = i
        BY <1>1, <1>2, <2>2, <3>3
      <4>2. j \in 1..(i - 1)
        BY <2>2, <4>1, StreamAssumption DEF Calls
      <4> QED BY <3>1, <3>3, <4>1, <4>2 DEF ReadCall
    <3> QED BY <3>2, <3>3
  <2> QED BY <1>1, <1>4, <2>1, <2>2 DEF ReadInv, Open, Asking
<1>6. ExecInv'
  BY <1>1, <1>2 DEF ExecInv, Asking
<1>7. \A k \in DOMAIN events : events[k].step \in Steps /\ events[k].step < run.step
  BY <1>2 DEF TypeOK, RunEvents, ToolCalls, ExecInv, Asking
<1>8. \A k \in DOMAIN events : events[k].step # run.step
  BY <1>2, <1>7 DEF Steps
<1>9. ExecutedAsSent'
  BY <1>2, <1>4, <1>7, <1>8, SaidLater
<1> QED BY <1>5, <1>6, <1>9

\* A call that has begun stands in front of the first that has not.
LEMMA AssembledAll ==
    ASSUME TypeOK, ReadInv, run.pc = "model", NEW n \in 0..MaxCalls, Assembled(n),
           NEW c \in Calls, run.calls[c] # {}
    PROVE  c <= n
<1>1. CASE n < MaxCalls /\ c > n
  <2>1. n + 1 \in Calls /\ (c = n + 1 \/ n + 1 < c)
    BY <1>1, StreamAssumption DEF Calls
  <2>2. run.calls[n + 1] = {}
    BY <1>1 DEF Assembled
  <2> QED BY <2>1, <2>2 DEF ReadInv, Asking
<1>2. CASE n = MaxCalls
  BY <1>2, StreamAssumption DEF Calls
<1> QED BY <1>1, <1>2, StreamAssumption DEF Calls

\* An answer of which the calls up to n are complete and no other has begun.
LEMMA AnsweredReads ==
    ASSUME TypeOK, ReadInv, ExecInv, NEW n \in 0..MaxCalls, run.pc = "model", Answers(n),
           events' = events,
           \A step \in Steps : step # run.step => said'[step] = said[step],
           \A c \in Calls : said'[run.step].calls[c] = IF c <= n THEN Parts ELSE {}
    PROVE  ReadInv' /\ ExecInv'
<1>0. run.step \in Steps /\ run'.step = run.step /\ run'.pc = "assistant"
  BY DEF TypeOK, Answers
<1>1. ReadInv'
  BY <1>0 DEF ReadInv, Open, Asking, Steps
<1>2. run'.todo = [i \in 1..n |-> i]
  BY DEF Answers
<1>3. Len(run'.todo) = n /\ \A j \in 1..n : run'.todo[j] = j /\ j \in Calls
  BY <1>2, StreamAssumption DEF Calls
<1>4. CallsReady(run.step, run.todo)'
  BY <1>0, <1>3, StreamAssumption DEF CallsReady, Whole, Calls
<1>5. ExecInv'
  BY <1>0, <1>3, <1>4 DEF ExecInv, Asking
<1> QED BY <1>1, <1>5

\* ReadEnd: only complete calls go on.
LEMMA ReadEndReading ==
    ASSUME TypeOK, ReadInv, ExecInv, ExecutedAsSent, ReadEnd
    PROVE  ReadInv' /\ ExecInv' /\ ExecutedAsSent'
<1>1. said' = said /\ events' = events /\ run.pc = "model" /\ run.step \in Steps
  BY DEF ReadEnd, TypeOK
<1>2. ExecutedAsSent'
  BY <1>1, SameEvents
<1>3. CASE Returns("persist", "error")
  BY <1>2, <1>3, ReturnedIdle DEF Returns, Open
<1>4. ASSUME NEW n \in 0..MaxCalls, Assembled(n), Answers(n),
             \A i \in 1..n : Whole(run.calls, i)
      PROVE  ReadInv' /\ ExecInv'
  <2>1. said[run.step].calls = run.calls
    BY <1>1 DEF ReadInv, Asking
  <2>2. ASSUME NEW c \in Calls
        PROVE  run.calls[c] = IF c <= n THEN Parts ELSE {}
    <3>1. CASE c <= n
      BY <1>4, <3>1 DEF Whole, Calls
    <3>2. CASE ~(c <= n)
      BY <1>1, <1>4, <3>2, AssembledAll
    <3> QED BY <3>1, <3>2
  <2> QED BY <1>1, <1>4, <2>1, <2>2, AnsweredReads
<1> QED BY <1>2, <1>3, <1>4, ReadEndTurns

\* Complete: an answer in one piece is complete.
LEMMA CompleteReading ==
    ASSUME TypeOK, ReadInv, ExecInv, ExecutedAsSent, NEW n \in 0..MaxCalls, Complete(n)
    PROVE  ReadInv' /\ ExecInv' /\ ExecutedAsSent'
<1>1. run.pc = "model" /\ events' = events /\ Answers(n) /\ run.step \in Steps
  BY RunTyped, AnswerAnswers DEF Complete, TypeOK
<1>2. /\ \A step \in Steps : step # run.step => said'[step] = said[step]
      /\ \A c \in Calls : said'[run.step].calls[c] = IF c <= n THEN Parts ELSE {}
  BY <1>1 DEF Complete, TypeOK
<1>3. ReadInv' /\ ExecInv'
  BY <1>1, <1>2, AnsweredReads
<1>4. \A k \in DOMAIN events : events[k].step \in Steps /\ events[k].step < run.step
  BY <1>1 DEF TypeOK, RunEvents, ToolCalls, ExecInv, Asking
<1>5. \A k \in DOMAIN events : events[k].step # run.step
  BY <1>1, <1>4 DEF Steps
<1>6. ExecutedAsSent'
  BY <1>1, <1>2, <1>4, <1>5, SaidLater
<1> QED BY <1>3, <1>6

\* What ExecutedAsSent says of one event.
Follows(s, i) ==
    LET e == s[i] IN
    /\ e.type = "tool" =>
        /\ \A c \in Calls : said[e.step].calls[c] \in {{}, Parts}
        /\ Whole(said[e.step].calls, e.n)
        /\ i > 1
        /\ s[i - 1] = IF e.n = 1 THEN Event("assistant", e.step, 0)
                      ELSE Event("tool", e.step, e.n - 1)
    /\ e.type = "assistant" => \A j \in 1..(i - 1) : s[j].step < e.step

\* An event that is appended leaves the others where they are.
LEMMA EventAppended ==
    ASSUME TypeOK, ExecutedAsSent, NEW e \in RunEvents, events' = Append(events, e), said' = said,
           e.type = "tool" =>
                /\ \A c \in Calls : said[e.step].calls[c] \in {{}, Parts}
                /\ Whole(said[e.step].calls, e.n)
                /\ events # <<>>
                /\ events[Len(events)] = IF e.n = 1 THEN Event("assistant", e.step, 0)
                                         ELSE Event("tool", e.step, e.n - 1),
           e.type = "assistant" => \A j \in DOMAIN events : events[j].step < e.step
    PROVE  ExecutedAsSent'
<1> DEFINE n == Len(events)
<1>1. events \in Seq(RunEvents)
  BY DEF TypeOK
<1>2. /\ n \in Nat /\ DOMAIN events = 1..n /\ DOMAIN events' = 1..(n + 1)
      /\ \A i \in 1..n : events'[i] = events[i]
      /\ events'[n + 1] = e
      /\ events # <<>> => n > 0
  BY <1>1
<1> HIDE DEF n
<1>3. ASSUME NEW i \in 1..n PROVE Follows(events', i)
  <2>1. i \in DOMAIN events /\ events'[i] = events[i]
    BY <1>2
  <2>2. i > 1 => events'[i - 1] = events[i - 1]
    BY <1>2
  <2>3. \A j \in 1..(i - 1) : events'[j] = events[j]
    BY <1>2
  <2>4. Follows(events, i)
    BY <2>1 DEF ExecutedAsSent, Follows
  <2> QED BY <2>1, <2>2, <2>3, <2>4 DEF Follows
<1>4. Len(events) = n /\ (n > 0 => events'[n] = events[n])
  <2>1. n > 0 => n \in 1..n
    BY <1>2
  <2> QED BY <1>2, <2>1 DEF n
<1>5. \A i \in DOMAIN events' : i \in 1..n \/ i = n + 1
  BY <1>2
<1>6. Follows(events', n + 1)
  <2>1. (n + 1) - 1 = n /\ (n > 0 => n + 1 > 1)
    BY <1>2
  <2> QED BY <1>2, <1>4, <2>1 DEF Follows
<1>7. \A i \in DOMAIN events' : Follows(events', i)
  BY <1>3, <1>5, <1>6
<1> QED BY <1>7 DEF ExecutedAsSent, Follows

\* Assistant: the summary precedes the tools of its step.
LEMMA AssistantReads ==
    ASSUME TypeOK, ReadInv, ExecInv, ExecutedAsSent, Assistant
    PROVE  ReadInv' /\ ExecInv' /\ ExecutedAsSent'
<1> DEFINE e == Event("assistant", run.step, 0)
<1>0. /\ run.pc = "assistant" /\ said' = said /\ events' = Append(events, e)
      /\ run.step \in Steps /\ events \in Seq(RunEvents) /\ run.todo \in Seq(Calls)
  BY DEF Assistant, TypeOK
<1>1. e \in RunEvents /\ e.type = "assistant" /\ e.step = run.step
  BY <1>0, EventTypes DEF Event
<1>2. \A j \in DOMAIN events : events[j].step < run.step
  BY <1>0 DEF ExecInv
<1> HIDE DEF e
<1>3. ExecutedAsSent'
  BY <1>0, <1>1, <1>2, EventAppended
<1>4. CASE Returns("persist", "answer")
  BY <1>3, <1>4, ReturnedIdle DEF Returns, Open
<1>5. CASE run.todo # <<>> /\ Moves("tool")
  <2>1. run'.pc = "tool" /\ run'.step = run.step /\ run'.todo = run.todo
    BY <1>5 DEF Moves
  <2>2. ReadInv'
    BY <1>0, <2>1 DEF ReadInv, Open, Asking
  <2>3. /\ DOMAIN events' = 1..(Len(events) + 1) /\ Len(events') = Len(events) + 1
        /\ \A i \in DOMAIN events' : events'[i] = e \/ (i \in DOMAIN events /\ events'[i] = events[i])
        /\ events'[Len(events')] = e
        /\ events' # <<>>
    BY <1>0, <1>1
  <2>4. \A i \in DOMAIN events' : events'[i].step <= run.step
    BY <1>0, <1>1, <1>2, <2>3 DEF TypeOK, RunEvents, ToolCalls, Steps
  <2>5. /\ CallsReady(run.step, run.todo)
        /\ \A j \in 1..Len(run.todo) : run.todo[j] = j
    BY <1>0 DEF ExecInv
  <2>6. run.todo[1] = 1 /\ \A j \in 1..Len(run.todo) : run.todo[j] = run.todo[1] + (j - 1)
    BY <1>0, <1>5, <2>5
  <2>7. CallsReady(run.step, run.todo)'
    BY <1>0, <2>1, <2>5 DEF CallsReady
  <2>8. ExecInv'
    BY <1>5, <2>1, <2>3, <2>4, <2>6, <2>7 DEF ExecInv, Asking, e
  <2> QED BY <1>3, <2>2, <2>8
<1> QED BY <1>4, <1>5, AssistantTurns

\* ExecuteTool: every call follows on the one before it.
LEMMA ExecuteToolReads ==
    ASSUME TypeOK, ReadInv, ExecInv, ExecutedAsSent, ExecuteTool
    PROVE  ReadInv' /\ ExecInv' /\ ExecutedAsSent'
<1> DEFINE e == Event("tool", run.step, Head(run.todo))
<1>0. /\ run.pc = "tool" /\ said' = said /\ events' = Append(events, e)
      /\ run.step \in Steps /\ events \in Seq(RunEvents) /\ run.todo \in Seq(Calls)
  BY DEF ExecuteTool, TypeOK
<1>1. /\ run.todo # <<>> /\ events # <<>>
      /\ CallsReady(run.step, run.todo)
      /\ \A j \in 1..Len(run.todo) : run.todo[j] = run.todo[1] + (j - 1)
      /\ \A i \in DOMAIN events : events[i].step <= run.step
      /\ events[Len(events)] = IF run.todo[1] = 1 THEN Event("assistant", run.step, 0)
                               ELSE Event("tool", run.step, run.todo[1] - 1)
  BY <1>0 DEF ExecInv
<1>2. Head(run.todo) = run.todo[1] /\ run.todo[1] \in Calls /\ Len(run.todo) >= 1
  BY <1>0, <1>1
<1>3. e \in RunEvents /\ e.type = "tool" /\ e.step = run.step /\ e.n = run.todo[1]
  BY <1>0, <1>2, EventTypes DEF Event
<1> HIDE DEF e
<1>4. ExecutedAsSent'
  <2>1. Whole(said[run.step].calls, run.todo[1])
    BY <1>0, <1>1, <1>2 DEF CallsReady
  <2> QED BY <1>0, <1>1, <1>3, <2>1, EventAppended DEF CallsReady
<1>5. /\ DOMAIN events' = 1..(Len(events) + 1) /\ Len(events') = Len(events) + 1
      /\ \A i \in DOMAIN events' : events'[i] = e \/ (i \in DOMAIN events /\ events'[i] = events[i])
      /\ events'[Len(events')] = e
      /\ events' # <<>>
  BY <1>0, <1>3
<1>6. \A i \in DOMAIN events' : events'[i].step <= run.step
  BY <1>0, <1>1, <1>3, <1>5 DEF TypeOK, RunEvents, ToolCalls, Steps
<1>7. CASE ~Open'
  BY <1>4, <1>7, ReturnedIdle
<1>8. CASE /\ Len(run.todo) > 1
           /\ run'.pc = "tool" /\ run'.step = run.step /\ run'.todo = Tail(run.todo)
  <2>1. ReadInv'
    BY <1>0, <1>8 DEF ReadInv, Open, Asking
  <2>2. /\ Len(run'.todo) = Len(run.todo) - 1 /\ run'.todo # <<>>
        /\ \A j \in 1..Len(run'.todo) : run'.todo[j] = run.todo[j + 1]
    BY <1>0, <1>8
  <2>3. \A j \in 1..Len(run'.todo) : j + 1 \in 1..Len(run.todo)
    BY <1>0, <2>2
  <2>4. CallsReady(run.step, run.todo)'
    BY <1>0, <1>1, <1>8, <2>2, <2>3 DEF CallsReady
  <2>5. /\ \A j \in 1..Len(run'.todo) : run'.todo[j] = run'.todo[1] + (j - 1)
        /\ run'.todo[1] = run.todo[1] + 1
    BY <1>0, <1>1, <1>2, <1>8, <2>2, <2>3 DEF Calls
  <2>6. e = Event("tool", run'.step, run'.todo[1] - 1) /\ run'.todo[1] # 1
    BY <1>2, <1>8, <2>5, StreamAssumption DEF Calls, e
  <2>7. ExecInv'
    BY <1>5, <1>6, <1>8, <2>2, <2>4, <2>5, <2>6 DEF ExecInv, Asking
  <2> QED BY <1>4, <2>1, <2>7
<1>9. CASE run.step + 1 \in Steps /\ Starts(run.step + 1)
  <2>1. /\ run'.pc = "model" /\ run'.step = run.step + 1 /\ run'.text = 0
        /\ run'.calls = NoCalls
    BY <1>9 DEF Starts
  <2>2. \A step \in Steps : step > run.step => said[step] = Nothing
    BY <1>0 DEF ReadInv, Open
  <2>3. ReadInv'
    <3>1. said[run.step + 1] = [text |-> 0, calls |-> NoCalls]
      BY <1>0, <1>9, <2>2 DEF Steps, Nothing
    <3>2. \A step \in Steps : step > run.step + 1 => said[step] = Nothing
      BY <1>0, <2>2 DEF Steps
    <3> QED BY <1>0, <2>1, <3>1, <3>2 DEF ReadInv, Open, Asking, NoCalls
  <2>4. \A i \in DOMAIN events' : events'[i].step < run.step + 1
    <3>1. \A i \in DOMAIN events' : events'[i].step \in Nat
      <4>1. \A f \in RunEvents : f.step \in Nat
        BY DEF RunEvents, ToolCalls, Steps
      <4> QED BY <1>0, <1>3, <1>5, <4>1
    <3> QED BY <1>0, <1>6, <3>1 DEF Steps
  <2>5. ExecInv'
    BY <2>1, <2>4 DEF ExecInv, Asking
  <2> QED BY <1>4, <2>3, <2>5
<1> QED BY <1>1, <1>7, <1>8, <1>9, ExecuteToolTurns DEF ToolTurns, Returns, Open

-----------------------------------------------------------------------------
(* The conversation, and the last event.                                   *)

\* A message is in the conversation, or an error is counted, or nobody sees it.
LEMMA MessageAdded ==
    ASSUME TypeOK, NEW m, AddConversationMessage(m), exists', errors' = 0
    PROVE  exists /\ errors = 0 /\ conv' = Append(conv, m)
<1>1. errors \in Nat
  BY StreamAssumption DEF TypeOK
<1> QED BY <1>1 DEF AddConversationMessage

\* A run that has just returned has saved nothing.
LEMMA ReturnedConv ==
    ASSUME events \in Seq(RunEvents), events' \in Seq(RunEvents), ConvInv,
           run.pc # "setup", Open, UNCHANGED <<exists, conv, errors>>,
           NEW outcome, Returns("persist", outcome)
    PROVE  ConvInv'
<1>1. ToolEvents' \in Seq(ToolCalls) /\ Len(ToolEvents') \in Nat
  <2>1. RunEvents \cap ToolCalls = ToolCalls
    BY DEF RunEvents
  <2>2. ToolEvents' \in Seq(ToolCalls)
    BY <2>1, OnlyInType DEF ToolEvents
  <2> QED BY <2>2
<1>2. run'.pc = "persist" /\ run'.saved = 0
  BY DEF Returns
<1>3. Saved' = <<>>
  <2>1. SubSeq(ToolEvents', 1, 0) = <<>>
    BY <1>1
  <2> QED BY <1>2, <2>1 DEF Saved
<1>4. <<Message("user")>> \o <<>> = <<Message("user")>>
  OBVIOUS
<1> QED BY <1>1, <1>2, <1>3, <1>4 DEF ConvInv, Open

\* A run that goes on has saved nothing yet.
LEMMA OpenConv ==
    ASSUME events' \in Seq(RunEvents), ConvInv, run.pc # "setup", Open,
           UNCHANGED <<exists, conv, errors>>,
           Open', run'.pc # "setup", run'.saved = 0
    PROVE  ConvInv'
<1>1. Len(ToolEvents') \in Nat
  <2>1. ToolEvents' \in Seq(RunEvents \cap ToolCalls)
    BY OnlyInType DEF ToolEvents
  <2> QED BY <2>1
<1> QED BY <1>1 DEF ConvInv, Open

\* Setup: the input is the first message.
LEMMA SetupConv == ASSUME TypeOK, ReadInv, ConvInv, Setup PROVE ConvInv'
<1>1. /\ run.pc = "setup" /\ events = <<>> /\ events' = <<>> /\ mode' = mode
  BY DEF Setup, ReadInv, peers
<1>2. ToolEvents' = <<>>
  BY <1>1, OnlyInEmpty DEF ToolEvents
<1>3. run'.saved = 0 /\ run'.outcome \in {"none", "pending", "refused"}
  BY SetupTurns DEF Starts, Returns
<1>4. Len(<<>>) = 0 /\ SubSeq(<<>>, 1, 0) = <<>>
  OBVIOUS
<1>5. run'.saved <= Len(ToolEvents')
  BY <1>2, <1>3, <1>4
<1>6. exists' /\ errors' = 0 => conv' = <<Message("user")>>
  <2> SUFFICES ASSUME exists', errors' = 0 PROVE conv' = <<Message("user")>>
    OBVIOUS
  <2>1. exists /\ errors = 0 /\ conv' = Append(conv, Message("user"))
    BY MessageAdded DEF Setup
  <2>2. conv = <<>>
    BY <1>1, <2>1 DEF ConvInv
  <2> QED BY <2>1, <2>2
<1>7. <<Message("user")>> \o <<>> = <<Message("user")>> /\ <<>> \o <<>> = <<>>
  OBVIOUS
<1>8. Saved' = <<>>
  BY <1>2, <1>3, <1>4 DEF Saved
<1>9. Exchange' = <<Message("user")>>
  BY <1>2, <1>3, <1>7 DEF Exchange
<1>10. run'.pc # "setup"
  BY SetupTurns DEF Starts, Returns
<1> QED BY <1>3, <1>5, <1>6, <1>7, <1>8, <1>9, <1>10 DEF ConvInv

\* PersistTool: the tool events follow, in their order.
LEMMA PersistToolConv == ASSUME TypeOK, ConvInv, PersistTool PROVE ConvInv'
<1> DEFINE T == ToolEvents
           k == run.saved
           u == <<Message("user")>>
<1>1. /\ run.pc = "persist" /\ events' = events /\ mode' = mode
      /\ k < Len(T) /\ ~Failed /\ k \in Nat
  BY DEF PersistTool, peers, TypeOK, Failed
<1>2. run'.pc = "persist" /\ run'.saved = k + 1 /\ run'.outcome = run.outcome
  BY PersistToolSaves
<1>3. T' = T /\ ~Failed' /\ T \in Seq(ToolCalls) /\ Len(T) \in Nat
  BY <1>1, <1>2, ToolEventsType DEF ToolEvents, Failed, TypeOK
<1>4. run'.saved <= Len(ToolEvents')
  BY <1>1, <1>2, <1>3
<1>5. ASSUME exists', errors' = 0
      PROVE  conv' = u \o Saved'
  <2>1. exists /\ errors = 0 /\ conv' = Append(conv, T[k + 1])
    BY <1>5, MessageAdded DEF PersistTool
  <2>2. conv = u \o SubSeq(T, 1, k)
    BY <1>1, <2>1 DEF ConvInv, Saved
  <2>3. Append(SubSeq(T, 1, k), T[k + 1]) = SubSeq(T, 1, k + 1)
    <3> HIDE DEF T, k
    <3> QED BY <1>1, <1>3
  <2>4. Saved' = SubSeq(T, 1, k + 1)
    BY <1>2, <1>3 DEF Saved
  <2>5. /\ u \in Seq({Message("user")} \cup ToolCalls)
        /\ SubSeq(T, 1, k) \in Seq({Message("user")} \cup ToolCalls)
        /\ T[k + 1] \in {Message("user")} \cup ToolCalls
    <3>1. u \in Seq({Message("user")} \cup ToolCalls)
      OBVIOUS
    <3> HIDE DEF T, k, u
    <3> QED BY <1>1, <1>3, <3>1
  <2>6. Append(u \o SubSeq(T, 1, k), T[k + 1]) = u \o Append(SubSeq(T, 1, k), T[k + 1])
    BY <2>5, ConcatAppend
  <2> QED BY <2>1, <2>2, <2>3, <2>4, <2>6
<1> QED BY <1>2, <1>4, <1>5 DEF ConvInv, Open

\* PersistAnswer: the exchange is complete.
LEMMA PersistAnswerConv == ASSUME TypeOK, ConvInv, PersistAnswer PROVE ConvInv'
<1> DEFINE T == ToolEvents
           u == <<Message("user")>>
           M == {Message("user"), Message("assistant"), Message("error")} \cup ToolCalls
<1>1. /\ run.pc = "persist" /\ events' = events /\ mode' = mode
      /\ Failed \/ run.saved = Len(T)
      /\ run.saved \in Nat
  BY DEF PersistAnswer, peers, TypeOK, Failed
<1>2. /\ run'.pc \in {"audit", "final"} /\ run'.saved = run.saved
      /\ run'.outcome = run.outcome
  <2>1. "audit" \in PCs /\ "final" \in PCs /\ run \in Runs
    BY RunTyped DEF PCs
  <2> QED BY <2>1, GotoMoves DEF PersistAnswer, Moves
<1>3. T' = T /\ (Failed' <=> Failed) /\ T \in Seq(ToolCalls) /\ Len(T) \in Nat
  BY <1>1, <1>2, ToolEventsType DEF ToolEvents, Failed, TypeOK
<1>4. run'.saved <= Len(ToolEvents')
  BY <1>2, <1>3 DEF ConvInv
<1>5. /\ u \in Seq(M) /\ T \in Seq(M) /\ Message("assistant") \in M /\ Message("error") \in M
      /\ <<>> \in Seq(M)
  <2>1. /\ Message("user") \in M /\ Message("assistant") \in M /\ Message("error") \in M
        /\ ToolCalls \subseteq M
    OBVIOUS
  <2> HIDE DEF M, T
  <2> QED BY <1>3, <2>1
<1>6. ASSUME exists', errors' = 0
      PROVE  conv' = Exchange'
  <2>1. Exchange' = u \o (IF Failed THEN <<Message("error")>>
                          ELSE T \o (IF run.outcome = "answer" THEN <<Message("assistant")>> ELSE <<>>))
    BY <1>1, <1>2, <1>3 DEF Exchange, Failed
  <2>2. CASE Failed
    <3>1. AddConversationMessage(Message("error"))
      BY <2>2 DEF PersistAnswer, Failed
    <3>2. exists /\ errors = 0 /\ conv' = Append(conv, Message("error"))
      BY <1>6, <3>1, MessageAdded
    <3>3. conv = u \o <<>>
      BY <1>1, <2>2, <3>2 DEF ConvInv, Saved
    <3>4. Append(u \o <<>>, Message("error")) = u \o <<Message("error")>>
      OBVIOUS
    <3> QED BY <2>1, <2>2, <3>2, <3>3, <3>4
  <2>3. CASE ~Failed
    <3>0. SubSeq(T, 1, Len(T)) = T
      <4> HIDE DEF T
      <4> QED BY <1>3
    <3>1. exists /\ errors = 0 => conv = u \o T
      BY <1>1, <2>3, <3>0 DEF ConvInv, Saved
    <3>2. CASE run.outcome = "answer"
      <4>1. AddConversationMessage(Message("assistant"))
        BY <2>3, <3>2 DEF PersistAnswer, Failed
      <4>2. exists /\ errors = 0 /\ conv' = Append(conv, Message("assistant"))
        BY <1>6, <4>1, MessageAdded
      <4>3. Append(u \o T, Message("assistant")) = u \o (T \o <<Message("assistant")>>)
        <5>1. Append(u \o T, Message("assistant")) = u \o Append(T, Message("assistant"))
          BY <1>5, ConcatAppend
        <5>2. Append(T, Message("assistant")) = T \o <<Message("assistant")>>
          <6> HIDE DEF T, M
          <6> QED BY <1>5
        <5> QED BY <5>1, <5>2
      <4> QED BY <2>1, <2>3, <3>1, <3>2, <4>2, <4>3
    <3>3. CASE run.outcome # "answer"
      <4>1. UNCHANGED conversation
        BY <2>3, <3>3 DEF PersistAnswer, Failed
      <4>2. conv' = u \o T
        BY <1>6, <3>1, <4>1 DEF conversation
      <4>3. T \o <<>> = T
        <5> HIDE DEF T
        <5> QED BY <1>3
      <4> QED BY <2>1, <2>3, <3>3, <4>2, <4>3
    <3> QED BY <3>2, <3>3
  <2> QED BY <2>2, <2>3
<1> QED BY <1>2, <1>4, <1>6 DEF ConvInv, Open

-----------------------------------------------------------------------------
(* The text.                                                               *)

\* Text that is appended is text of its step alone.
LEMMA FragmentsAppend ==
    ASSUME NEW p \in Seq(Events), NEW e \in Events, NEW step
    PROVE  /\ e.type # "delta" => Fragments(Append(p, e), step) = Fragments(p, step)
           /\ e.type = "delta" /\ e.step # step => Fragments(Append(p, e), step) = Fragments(p, step)
           /\ e.type = "delta" /\ e.step = step =>
                Fragments(Append(p, e), step) = Append(Fragments(p, step), e)
<1>1. Fragments(Append(p, e), step) = IF e \in Deltas(step) THEN Append(Fragments(p, step), e)
                                      ELSE Fragments(p, step)
  BY OnlyInAppend DEF Fragments
<1>2. e \in Deltas(step) => e.type = "delta" /\ e.step = step
  BY DEF Deltas
<1>3. e.type = "delta" /\ e.step = step => e \in Deltas(step)
  BY DEF Events, RunEvents, ToolCalls, Deltas
<1> QED BY <1>1, <1>2, <1>3

\* The prefixes of a sequence to which an element is appended.
LEMMA PrefixAppend ==
    ASSUME NEW T, NEW p \in Seq(T), NEW e \in T
    PROVE  /\ DOMAIN Append(p, e) = 1..(Len(p) + 1) /\ DOMAIN p = 1..Len(p) /\ Len(p) \in Nat
           /\ \A i \in 1..Len(p) : /\ Append(p, e)[i] = p[i]
                                   /\ SubSeq(Append(p, e), 1, i) = SubSeq(p, 1, i)
           /\ Append(p, e)[Len(p) + 1] = e
           /\ SubSeq(Append(p, e), 1, Len(p) + 1) = Append(p, e)
<1>1. /\ DOMAIN Append(p, e) = 1..(Len(p) + 1) /\ DOMAIN p = 1..Len(p) /\ Len(p) \in Nat
      /\ \A i \in 1..Len(p) : Append(p, e)[i] = p[i]
      /\ Append(p, e)[Len(p) + 1] = e
  OBVIOUS
<1>2. ASSUME NEW i \in 1..Len(p) PROVE SubSeq(Append(p, e), 1, i) = SubSeq(p, 1, i)
  OBVIOUS
<1>3. SubSeq(Append(p, e), 1, Len(p) + 1) = Append(p, e)
  OBVIOUS
<1> QED BY <1>1, <1>2, <1>3

\* Fewer steps, and the same text of them.
LEMMA PlacedKept ==
    ASSUME NEW p, NEW A, NEW t, Placed(p, A, t), NEW B, B \subseteq A, NEW u,
           \A step \in B : u[step] = t[step]
    PROVE  Placed(p, B, u)
BY DEF Placed

\* An event may follow when the text of the answered steps is there.
LEMMA PlacedAppend ==
    ASSUME NEW p \in Seq(Events), NEW e \in Events, NEW A, NEW t, Placed(p, A, t),
           e.type = "delta" \/ Full(p, A, t)
    PROVE  Placed(Append(p, e), A, t)
<1> DEFINE q == Append(p, e)
<1>1. SUFFICES ASSUME NEW i \in DOMAIN q, q[i].type # "delta", NEW step \in A,
                      q[i].type = "done" \/ step <= q[i].step
               PROVE  Fragments(SubSeq(q, 1, i), step) = Text(step, t[step])
  BY DEF Placed
<1>2. i \in 1..Len(p) \/ i = Len(p) + 1
  BY PrefixAppend
<1>3. CASE i \in 1..Len(p)
  <2>1. q[i] = p[i] /\ SubSeq(q, 1, i) = SubSeq(p, 1, i) /\ i \in DOMAIN p
    BY <1>3, PrefixAppend
  <2> HIDE DEF q
  <2> QED BY <1>1, <2>1 DEF Placed
<1>4. CASE i = Len(p) + 1
  <2>1. q[i] = e /\ SubSeq(q, 1, i) = q
    BY <1>4, PrefixAppend
  <2>2. Fragments(q, step) = Fragments(p, step)
    BY <1>1, <2>1, FragmentsAppend
  <2> HIDE DEF q
  <2> QED BY <1>1, <2>1, <2>2 DEF Full
<1> QED BY <1>2, <1>3, <1>4

\* A step is answered of which nothing follows yet.
LEMMA PlacedMore ==
    ASSUME NEW p \in Seq(Events), NEW A, NEW t, Placed(p, A, t), NEW s \in Nat, Below(p, s)
    PROVE  Placed(p, A \cup {s}, t)
<1>1. \A e \in Events : e.step \in Nat
  BY DEF Events, RunEvents, ToolCalls, Steps
<1>2. \A i \in DOMAIN p : p[i].step \in Nat
  BY <1>1
<1> QED BY <1>2 DEF Placed, Below

\* Fewer steps, and the same text of them.
LEMMA FullKept ==
    ASSUME NEW p, NEW D, NEW t, Full(p, D, t), NEW E, E \subseteq D, NEW u,
           \A step \in E : u[step] = t[step]
    PROVE  Full(p, E, u)
BY DEF Full

\* Other events do not add to the text.
LEMMA FullAppend ==
    ASSUME NEW p \in Seq(Events), NEW e \in Events, e.type # "delta",
           NEW D, NEW t, Full(p, D, t)
    PROVE  Full(Append(p, e), D, t)
BY FragmentsAppend DEF Full

\* A fragment adds to the text of its step.
LEMMA FullDelta ==
    ASSUME NEW p \in Seq(Events), NEW D, NEW t, Full(p, D, t), NEW u,
           NEW s \in Steps, NEW n \in 1..MaxText, t[s] = n - 1, u[s] = n,
           \A step \in D : step # s => u[step] = t[step]
    PROVE  Full(Append(p, Event("delta", s, n)), D, u)
<1> DEFINE e == Event("delta", s, n)
<1>1. e \in Events /\ e.type = "delta" /\ e.step = s
  BY EventTypes DEF Event
<1>2. ASSUME NEW step \in D PROVE Fragments(Append(p, e), step) = Text(step, u[step])
  <2>1. CASE step # s
    BY <1>1, <2>1, FragmentsAppend DEF Full
  <2>2. CASE step = s
    <3>1. Fragments(Append(p, e), s) = Append(Text(s, n - 1), e)
      BY <1>1, <1>2, <2>2, FragmentsAppend DEF Full
    <3>2. Append(Text(s, n - 1), e) = Text(s, n)
      BY StreamAssumption DEF Text
    <3> QED BY <2>2, <3>1, <3>2
  <2> QED BY <2>1, <2>2
<1> HIDE DEF e
<1> QED BY <1>2 DEF Full, e

\* Text, or an event of a step before n, is appended.
LEMMA BelowAppend ==
    ASSUME NEW p \in Seq(Events), NEW e \in Events, NEW n \in Nat, Below(p, n),
           e.type = "delta" \/ (e.type # "done" /\ e.step < n)
    PROVE  Below(Append(p, e), n)
<1>1. \A i \in DOMAIN Append(p, e) :
        (i \in DOMAIN p /\ Append(p, e)[i] = p[i]) \/ Append(p, e)[i] = e
  BY PrefixAppend
<1> QED BY <1>1 DEF Below

\* A later bound.
LEMMA BelowMore ==
    ASSUME NEW p \in Seq(Events), NEW m \in Nat, NEW n \in Nat, Below(p, m), m <= n
    PROVE  Below(p, n)
<1>1. \A e \in Events : e.step \in Nat
  BY DEF Events, RunEvents, ToolCalls, Steps
<1>2. \A i \in DOMAIN p : p[i].step \in Nat
  BY <1>1
<1> QED BY <1>2 DEF Below

\* The channel hands the events over in their order.
LEMMA PipeForwarded ==
    ASSUME NEW T, NEW s \in Seq(T), NEW t \in Seq(T), t # <<>>
    PROVE  Append(s, Head(t)) \o Tail(t) = s \o t
OBVIOUS

\* The events on their way are events.
LEMMA PipeType == TypeOK => Pipe \in Seq(Events)
BY DEF TypeOK, Pipe

\* While an answer is read, its step has no event.
LEMMA NotAnswered ==
    ASSUME TypeOK, ExecInv, Asking \/ run.pc = "assistant"
    PROVE  run.step \notin AnsweredSteps
<1>1. SUFFICES ASSUME Answered(run.step) PROVE FALSE
  BY DEF AnsweredSteps
<1>2. PICK i \in DOMAIN events : events[i] = Event("assistant", run.step, 0)
  BY <1>1 DEF Answered, Range
<1>3. events[i].step < run.step /\ events[i].step = run.step /\ run.step \in Nat
  BY <1>2 DEF ExecInv, Event, TypeOK, Steps
<1> QED BY <1>3

\* An event answers a step if it is the summary of the answer.
LEMMA AnsweredAppend ==
    ASSUME TypeOK, NEW e \in RunEvents, events' = Append(events, e)
    PROVE  /\ e.type = "tool" => AnsweredSteps' = AnsweredSteps
           /\ e.type = "assistant" => AnsweredSteps' = AnsweredSteps \cup {e.step}
<1>1. events \in Seq(RunEvents)
  BY DEF TypeOK
<1>2. Range(events') = Range(events) \cup {e}
  <2> DEFINE q == Append(events, e)
  <2>1. \A i \in DOMAIN q : (i \in DOMAIN events /\ q[i] = events[i]) \/ q[i] = e
    BY <1>1, PrefixAppend
  <2>2. \A i \in DOMAIN events : i \in DOMAIN q /\ q[i] = events[i]
    BY <1>1, PrefixAppend
  <2>3. Len(events) + 1 \in DOMAIN q /\ q[Len(events) + 1] = e
    BY <1>1, PrefixAppend
  <2>4. events' = q
    OBVIOUS
  <2> HIDE DEF q
  <2> QED BY <2>1, <2>2, <2>3, <2>4 DEF Range
<1>3. \A step \in Steps : Answered(step)' <=> (Answered(step) \/ e = Event("assistant", step, 0))
  BY <1>2 DEF Answered
<1>4. e.type = "tool" => \A step \in Steps : e # Event("assistant", step, 0)
  BY DEF Event
<1>5. e.type = "assistant" =>
        /\ e.step \in Steps
        /\ \A step \in Steps : e = Event("assistant", step, 0) <=> step = e.step
  BY DEF Event, RunEvents, ToolCalls
<1>6. CASE e.type = "tool"
  BY <1>3, <1>4, <1>6 DEF AnsweredSteps
<1>7. CASE e.type = "assistant"
  BY <1>3, <1>5, <1>7 DEF AnsweredSteps
<1> QED BY <1>6, <1>7

\* A step that sends nothing.
LEMMA PipeKept ==
    ASSUME PipeInv, Pipe' = Pipe,
           AnsweredSteps' \subseteq AnsweredSteps,
           \A step \in AnsweredSteps' : Texts'[step] = Texts[step],
           Due' \subseteq Due,
           \A step \in Due' : SentTexts'[step] = SentTexts[step],
           Open' => Below(Pipe, IF run'.pc = "tool" THEN run'.step + 1 ELSE run'.step)
    PROVE  PipeInv'
<1>1. Placed(Pipe', AnsweredSteps', Texts')
  BY PlacedKept DEF PipeInv
<1>2. Full(Pipe', Due', SentTexts')
  BY FullKept DEF PipeInv
<1> QED BY <1>1, <1>2 DEF PipeInv

\* ... the return of the run in particular.
LEMMA PipeReturned ==
    ASSUME TypeOK, ExecInv, PipeInv, Pipe' = Pipe, events' = events, said' = said, ~Open'
    PROVE  PipeInv'
<1>1. /\ AnsweredSteps' = AnsweredSteps /\ Texts' = Texts
      /\ Due' = AnsweredSteps /\ AnsweredSteps \subseteq Due
  BY DEF AnsweredSteps, Answered, Texts, Due
<1>2. ASSUME NEW step \in AnsweredSteps PROVE SentTexts'[step] = SentTexts[step]
  <2>1. ~(run.pc = "delta" /\ step = run.step)
    BY <1>2, NotAnswered DEF Asking
  <2>2. step \in Steps /\ run'.pc # "delta"
    BY <1>2 DEF AnsweredSteps, Open
  <2> QED BY <2>1, <2>2 DEF SentTexts
<1> QED BY <1>1, <1>2, PipeKept

\* Setup: nothing was sent.
LEMMA SetupText ==
    ASSUME TypeOK, ReadInv, ExecInv, TextInv, Setup
    PROVE  TextInv'
<1>1. /\ UNCHANGED <<mode, client, got, chan, said, events>> /\ Pipe' = Pipe
      /\ run.pc = "setup" /\ run.step = 1
  BY FreshType DEF Setup, peers, Pipe, ReadInv
<1>2. run'.pc # "delta"
  BY SetupTurns DEF Starts, Returns
<1>3. ASSUME PipeInv PROVE PipeInv'
  <2>1. CASE ~Open'
    BY <1>1, <1>3, <2>1, PipeReturned
  <2>2. CASE Starts(1)
    <3>1. run'.pc = "model" /\ run'.step = run.step
      BY <1>1, <2>2 DEF Starts
    <3>2. AnsweredSteps' = AnsweredSteps /\ Texts' = Texts /\ Due' = Due
      BY <1>1, <3>1 DEF AnsweredSteps, Answered, Texts, Due, Open
    <3>3. SentTexts' = SentTexts
      BY <1>1, <3>1 DEF SentTexts
    <3>4. Below(Pipe, run.step)
      BY <1>1, <1>3 DEF PipeInv, Open
    <3> QED BY <1>1, <1>3, <3>1, <3>2, <3>3, <3>4, PipeKept
  <2> QED BY <2>1, <2>2, SetupTurns DEF Returns, Open
<1> QED BY <1>1, <1>2, <1>3 DEF TextInv

\* ReadText: the fragment is read, and held.
LEMMA ReadTextText ==
    ASSUME TypeOK, ReadInv, ExecInv, TextInv, ReadText
    PROVE  TextInv'
<1>1. /\ UNCHANGED <<mode, client, got, chan, events>> /\ Pipe' = Pipe
      /\ run.pc = "model" /\ run.step \in Steps /\ run.text \in Nat
  BY DEF ReadText, peers, Pipe, TypeOK
<1>2. run'.pc = "delta" /\ run'.step = run.step /\ run'.text = run.text + 1
  BY ReadTextReads
<1>3. /\ said'[run.step].text = said[run.step].text + 1
      /\ \A step \in Steps : step # run.step => said'[step] = said[step]
      /\ said[run.step].text \in Nat
  BY <1>1 DEF ReadText, TypeOK
<1>4. ASSUME PipeInv PROVE PipeInv'
  <2>1. AnsweredSteps' = AnsweredSteps /\ Due' = Due
    BY <1>1, <1>2 DEF AnsweredSteps, Answered, Due, Open
  <2>2. \A step \in AnsweredSteps : Texts'[step] = Texts[step]
    BY <1>1, <1>3, NotAnswered DEF Texts, AnsweredSteps, Asking
  <2>3. ASSUME NEW step \in Steps PROVE SentTexts'[step] = SentTexts[step]
    BY <1>1, <1>2, <1>3 DEF SentTexts
  <2>4. \A step \in Due : step \in Steps
    BY DEF Due
  <2>5. Below(Pipe, run.step)
    BY <1>1, <1>4 DEF PipeInv, Open
  <2> QED BY <1>1, <1>2, <1>4, <2>1, <2>2, <2>3, <2>4, <2>5, PipeKept
<1> QED BY <1>1, <1>2, <1>4 DEF TextInv

\* SendDelta: the fragment follows the ones of its step.
LEMMA SendDeltaText ==
    ASSUME TypeOK, ReadInv, ExecInv, TextInv, SendDelta
    PROVE  TextInv'
<1> DEFINE e == Event("delta", run.step, run.text)
<1>1. /\ UNCHANGED <<mode, client, got, said, events>> /\ chan' = Append(chan, e)
      /\ run.pc = "delta" /\ run.step \in Steps /\ run.text \in 1..MaxText
  BY StreamAssumption DEF SendDelta, peers, TypeOK, TextInv
<1>2. run'.pc = "model" /\ run'.step = run.step
  BY RunTyped, GotoMoves DEF SendDelta, Moves, PCs
<1>3. e \in Events /\ e.type = "delta" /\ e.step = run.step
  BY <1>1, EventTypes DEF Event
<1>4. Pipe \in Seq(Events) /\ Pipe' = Append(Pipe, e)
  <2> HIDE DEF e
  <2>1. got \in Seq(Events) /\ chan \in Seq(Events)
    BY DEF TypeOK
  <2> QED BY <1>1, <1>3, <2>1, ConcatAppend, PipeType DEF Pipe
<1>5. ASSUME PipeInv PROVE PipeInv'
  <2>1. AnsweredSteps' = AnsweredSteps /\ Due' = Due /\ Texts' = Texts
    BY <1>1, <1>2 DEF AnsweredSteps, Answered, Due, Open, Texts
  <2>2. Placed(Pipe', AnsweredSteps', Texts')
    BY <1>3, <1>4, <1>5, <2>1, PlacedAppend DEF PipeInv
  <2>3. Full(Pipe', Due', SentTexts')
    <3>1. said[run.step].text = run.text
      BY <1>1 DEF ReadInv, Asking
    <3>2. SentTexts[run.step] = run.text - 1 /\ SentTexts'[run.step] = run.text
      BY <1>1, <1>2, <3>1 DEF SentTexts
    <3>3. \A step \in Due : step # run.step => SentTexts'[step] = SentTexts[step]
      BY <1>1, <1>2 DEF SentTexts, Due
    <3> QED BY <1>1, <1>4, <1>5, <2>1, <3>2, <3>3, FullDelta DEF PipeInv
  <2>4. Below(Pipe', run.step)
    <3>1. Below(Pipe, run.step) /\ run.step \in Nat
      BY <1>1, <1>5 DEF PipeInv, Open, Steps
    <3> QED BY <1>3, <1>4, <3>1, BelowAppend
  <2> QED BY <1>2, <2>2, <2>3, <2>4 DEF PipeInv
<1> QED BY <1>1, <1>2, <1>5 DEF TextInv

\* ReadCall: the text is not touched.
LEMMA ReadCallText ==
    ASSUME TypeOK, ReadInv, ExecInv, TextInv,
           NEW i \in Calls, NEW part \in Parts, ReadCall(i, part)
    PROVE  TextInv'
<1>1. /\ UNCHANGED <<mode, client, got, chan, events>> /\ Pipe' = Pipe
      /\ run.pc = "model" /\ run.step \in Steps
  BY DEF ReadCall, peers, Pipe, TypeOK
<1>2. run'.pc = "model" /\ run'.step = run.step
  BY ReadCallReads
<1>3. \A step \in Steps : said'[step].text = said[step].text
  BY <1>1 DEF ReadCall, TypeOK
<1>4. ASSUME PipeInv PROVE PipeInv'
  <2>1. AnsweredSteps' = AnsweredSteps /\ Due' = Due
    BY <1>1, <1>2 DEF AnsweredSteps, Answered, Due, Open
  <2>2. Texts' = Texts /\ SentTexts' = SentTexts
    BY <1>1, <1>2, <1>3 DEF Texts, SentTexts
  <2>3. Below(Pipe, run.step)
    BY <1>1, <1>4 DEF PipeInv, Open
  <2> QED BY <1>1, <1>2, <1>4, <2>1, <2>2, <2>3, PipeKept
<1> QED BY <1>1, <1>2, <1>4 DEF TextInv

\* ReadEnd: the text is all read and sent.
LEMMA ReadEndText ==
    ASSUME TypeOK, ReadInv, ExecInv, TextInv, ReadEnd
    PROVE  TextInv'
<1>1. /\ UNCHANGED <<mode, client, got, chan, said, events>> /\ Pipe' = Pipe
      /\ run.pc = "model" /\ run.step \in Steps
  BY DEF ReadEnd, peers, Pipe, TypeOK
<1>2. run'.pc \in {"persist", "assistant"}
  BY ReadEndTurns DEF Returns, Answers
<1>3. ASSUME PipeInv PROVE PipeInv'
  <2>1. CASE ~Open'
    BY <1>1, <1>3, <2>1, PipeReturned
  <2>2. CASE run'.pc = "assistant" /\ run'.step = run.step
    <3>1. AnsweredSteps' = AnsweredSteps /\ Due' = Due
      BY <1>1, <2>2 DEF AnsweredSteps, Answered, Due, Open
    <3>2. Texts' = Texts /\ SentTexts' = SentTexts
      BY <1>1, <2>2 DEF Texts, SentTexts
    <3>3. Below(Pipe, run.step)
      BY <1>1, <1>3 DEF PipeInv, Open
    <3> QED BY <1>1, <1>3, <2>2, <3>1, <3>2, <3>3, PipeKept
  <2> QED BY <2>1, <2>2, ReadEndTurns DEF Returns, Answers, Open
<1> QED BY <1>1, <1>2, <1>3 DEF TextInv

\* The events that are sent only if there is room.
LEMMA Offered ==
    ASSUME TypeOK, NEW e \in Events, got' = got, Offer(e)
    PROVE  Pipe' = Pipe \/ Pipe' = Append(Pipe, e)
<1>1. got \in Seq(Events) /\ chan \in Seq(Events)
  BY DEF TypeOK
<1>2. chan' = chan \/ chan' = Append(chan, e)
  BY DEF Offer
<1>3. CASE chan' = chan
  BY <1>3 DEF Pipe
<1>4. CASE chan' = Append(chan, e)
  <2>1. got \o Append(chan, e) = Append(got \o chan, e)
    BY <1>1, ConcatAppend
  <2> QED BY <1>4, <2>1 DEF Pipe
<1> QED BY <1>2, <1>3, <1>4

\* Assistant: the step is answered, and all of its text precedes the summary.
LEMMA AssistantText ==
    ASSUME TypeOK, ReadInv, ExecInv, TextInv, Assistant
    PROVE  TextInv'
<1> DEFINE e == Event("assistant", run.step, 0)
<1>1. /\ UNCHANGED <<mode, client, got, said>> /\ events' = Append(events, e)
      /\ run.pc = "assistant" /\ run.step \in Steps /\ Offer(e)
  BY DEF Assistant, peers, TypeOK
<1>2. e \in RunEvents /\ e \in Events /\ e.type = "assistant" /\ e.step = run.step
  BY <1>1, EventTypes DEF Event
<1>3. ~Open' \/ (run'.pc = "tool" /\ run'.step = run.step)
  BY AssistantTurns DEF Returns, Moves, Open
<1> HIDE DEF e
<1>4. Pipe' = Pipe \/ Pipe' = Append(Pipe, e)
  BY <1>1, <1>2, Offered
<1>5. run'.pc # "delta" /\ Pipe \in Seq(Events) /\ run.step \in Nat
  BY <1>1, <1>3, PipeType DEF Open, Steps
<1>6. ASSUME PipeInv PROVE PipeInv'
  <2>1. AnsweredSteps' = AnsweredSteps \cup {run.step}
    BY <1>1, <1>2, AnsweredAppend
  <2>2. Texts' = Texts /\ SentTexts = Texts /\ SentTexts' = Texts
    BY <1>1, <1>5 DEF Texts, SentTexts
  <2>3. AnsweredSteps' \subseteq Due
    BY <1>1, <2>1 DEF Due, Open, AnsweredSteps, Steps
  <2>4. Due' \subseteq Due
    BY <1>1, <1>3, <2>3 DEF Due, AnsweredSteps, Open
  <2>5. Below(Pipe, run.step)
    BY <1>1, <1>6 DEF PipeInv, Open
  <2>6. Placed(Pipe, AnsweredSteps', Texts)
    BY <1>5, <1>6, <2>1, <2>5, PlacedMore DEF PipeInv
  <2>7. Full(Pipe, AnsweredSteps', Texts) /\ Full(Pipe, Due', Texts)
    BY <1>6, <2>2, <2>3, <2>4, FullKept DEF PipeInv
  <2>8. Below(Pipe, run.step + 1)
    BY <1>5, <2>5, BelowMore
  <2>9. Placed(Pipe', AnsweredSteps', Texts)
    BY <1>2, <1>4, <1>5, <2>6, <2>7, PlacedAppend
  <2>10. Full(Pipe', Due', Texts)
    BY <1>2, <1>4, <1>5, <2>7, FullAppend
  <2>11. Below(Pipe', run.step + 1)
    <3>1. run.step + 1 \in Nat /\ e.step < run.step + 1 /\ e.type # "done"
      BY <1>2, <1>5
    <3> QED BY <1>2, <1>4, <1>5, <2>8, <3>1, BelowAppend
  <2> QED BY <1>3, <2>2, <2>9, <2>10, <2>11 DEF PipeInv
<1> QED BY <1>1, <1>5, <1>6 DEF TextInv

\* ExecuteTool: as for the summary; the next step has no text yet.
LEMMA ExecuteToolText ==
    ASSUME TypeOK, ReadInv, ExecInv, TextInv, ExecuteTool
    PROVE  TextInv'
<1> DEFINE e == Event("tool", run.step, Head(run.todo))
<1>1. /\ UNCHANGED <<mode, client, got, said>> /\ events' = Append(events, e)
      /\ run.pc = "tool" /\ run.step \in Steps /\ Offer(e)
      /\ run.todo # <<>> /\ Head(run.todo) \in Calls
  BY DEF ExecuteTool, peers, TypeOK, ExecInv
<1>2. e \in RunEvents /\ e \in Events /\ e.type = "tool" /\ e.step = run.step
  BY <1>1, EventTypes DEF Event
<1>3. \/ ~Open'
      \/ run'.pc = "tool" /\ run'.step = run.step
      \/ run'.pc = "model" /\ run'.step = run.step + 1
  BY <1>1, ExecuteToolTurns DEF ToolTurns, Returns, Starts, Open
<1> HIDE DEF e
<1>4. Pipe' = Pipe \/ Pipe' = Append(Pipe, e)
  BY <1>1, <1>2, Offered
<1>5. run'.pc # "delta" /\ Pipe \in Seq(Events) /\ run.step \in Nat
  BY <1>1, <1>3, PipeType DEF Open, Steps
<1>6. ASSUME PipeInv PROVE PipeInv'
  <2>1. AnsweredSteps' = AnsweredSteps
    BY <1>1, <1>2, AnsweredAppend
  <2>2. Texts' = Texts /\ SentTexts = Texts /\ SentTexts' = Texts
    BY <1>1, <1>5 DEF Texts, SentTexts
  <2>3. AnsweredSteps \subseteq Due
    BY DEF Due, AnsweredSteps
  <2>4. Due' \subseteq Due
    <3>1. \A step \in Steps : Answered(step)' => Answered(step)
      BY <2>1 DEF AnsweredSteps
    <3>2. \A step \in Steps : Open' /\ step >= run'.step => step >= run.step
      BY <1>3, <1>5 DEF Steps
    <3> QED BY <1>1, <3>1, <3>2 DEF Due, Open
  <2>5. Below(Pipe, run.step + 1)
    BY <1>1, <1>6 DEF PipeInv, Open
  <2>6. Full(Pipe, AnsweredSteps', Texts) /\ Full(Pipe, Due', Texts)
    BY <1>6, <2>1, <2>2, <2>3, <2>4, FullKept DEF PipeInv
  <2>7. Placed(Pipe', AnsweredSteps', Texts)
    BY <1>2, <1>4, <1>5, <1>6, <2>1, <2>6, PlacedAppend DEF PipeInv
  <2>8. Full(Pipe', Due', Texts)
    BY <1>2, <1>4, <1>5, <2>6, FullAppend
  <2>9. Below(Pipe', run.step + 1)
    <3>1. run.step + 1 \in Nat /\ e.step < run.step + 1 /\ e.type # "done"
      BY <1>2, <1>5
    <3> QED BY <1>2, <1>4, <1>5, <2>5, <3>1, BelowAppend
  <2> QED BY <1>3, <2>2, <2>7, <2>8, <2>9 DEF PipeInv
<1> QED BY <1>1, <1>5, <1>6 DEF TextInv

\* SendDone: all the text of the answered steps precedes the last event.
LEMMA SendDoneText ==
    ASSUME TypeOK, ReadInv, ExecInv, TextInv, SendDone
    PROVE  TextInv'
<1> DEFINE e == Event("done", 0, 0)
<1>1. /\ UNCHANGED <<mode, client, got, said, events>> /\ chan' = Append(chan, e)
      /\ run.pc = "final"
  BY DEF SendDone, peers
<1>2. run'.pc = "audit"
  BY RunTyped, GotoMoves DEF SendDone, Moves, PCs
<1>3. e \in Events /\ e.type = "done"
  BY EventTypes DEF Event
<1>4. Pipe \in Seq(Events) /\ Pipe' = Append(Pipe, e)
  <2> HIDE DEF e
  <2>1. got \in Seq(Events) /\ chan \in Seq(Events)
    BY DEF TypeOK
  <2> QED BY <1>1, <1>3, <2>1, ConcatAppend, PipeType DEF Pipe
<1> HIDE DEF e
<1>5. ASSUME PipeInv PROVE PipeInv'
  <2>1. /\ AnsweredSteps' = AnsweredSteps /\ Due = AnsweredSteps /\ Due' = Due
        /\ Texts' = Texts /\ SentTexts = Texts /\ SentTexts' = Texts
    BY <1>1, <1>2 DEF AnsweredSteps, Answered, Due, Open, Texts, SentTexts
  <2>2. Placed(Pipe', AnsweredSteps', Texts')
    BY <1>3, <1>4, <1>5, <2>1, PlacedAppend DEF PipeInv
  <2>3. Full(Pipe', Due', SentTexts')
    BY <1>3, <1>4, <1>5, <2>1, FullAppend DEF PipeInv
  <2> QED BY <1>2, <2>2, <2>3 DEF PipeInv, Open
<1> QED BY <1>1, <1>2, <1>5 DEF TextInv

\* A step that sends and reads nothing, after the run has returned or by another.
LEMMA SameText ==
    ASSUME TypeOK, ExecInv, TextInv, UNCHANGED <<mode, client, said, events>>,
           mode = "stream" /\ client = "reading" => Pipe' = Pipe,
           client = "gone" => got' = <<>>,
           run' = run \/ ~Open'
    PROVE  TextInv'
<1>1. run'.pc = "delta" => run'.text > 0
  BY DEF TextInv, Open
<1>2. ASSUME PipeInv, Pipe' = Pipe PROVE PipeInv'
  <2>1. CASE ~Open'
    BY <1>2, <2>1, PipeReturned
  <2>2. CASE run' = run
    <3>1. /\ AnsweredSteps' = AnsweredSteps /\ Texts' = Texts /\ Due' = Due
          /\ SentTexts' = SentTexts /\ (Open' <=> Open)
      BY <2>2 DEF AnsweredSteps, Answered, Due, Open, Texts, SentTexts
    <3> QED BY <1>2, <2>2, <3>1 DEF PipeInv
  <2> QED BY <2>1, <2>2
<1> QED BY <1>1, <1>2 DEF TextInv

\* The last event is not among the others.
LEMMA DoneAppend ==
    ASSUME NEW s \in Seq(Events), NEW e \in Events, e.type # "done",
           \A i \in DOMAIN s : s[i].type # "done"
    PROVE  \A i \in DOMAIN Append(s, e) : Append(s, e)[i].type # "done"
<1>1. \A i \in DOMAIN Append(s, e) :
        (i \in DOMAIN s /\ Append(s, e)[i] = s[i]) \/ Append(s, e)[i] = e
  BY PrefixAppend
<1> QED BY <1>1

\* An offered event is not the last one.
LEMMA OfferDone ==
    ASSUME TypeOK, DoneInv, NEW e \in Events, e.type # "done", got' = got, Offer(e),
           run.pc \notin {"audit", "closed"}
    PROVE  DoneInv'
<1>1. chan' = chan \/ chan' = Append(chan, e)
  BY DEF Offer
<1>2. chan \in Seq(Events)
  BY DEF TypeOK
<1> QED BY <1>1, <1>2, DoneAppend DEF DoneInv

\* The inductive step, action by action.
LEMMA ProduceKeeps ==
    ASSUME StreamInv, Produce
    PROVE  StreamInv'
<1> USE DEF StreamInv
<1>0. TypeOK'
  <2>1. /\ run.pc = "tool" => run.todo # <<>>
        /\ run.pc = "model" => said[run.step].text = run.text
        /\ run.pc = "delta" => run.text > 0
    BY DEF ExecInv, ReadInv, Asking, TextInv
  <2> QED BY <2>1, ProduceTypes
<1>1. events' \in Seq(RunEvents) /\ events \in Seq(RunEvents)
  BY <1>0 DEF TypeOK
<1>2. CASE Setup
  <2>1. DoneInv'
    BY <1>2 DEF DoneInv, Setup, peers
  <2> QED BY <1>0, <1>2, <2>1, SetupReads, SetupConv, SetupText
<1>3. CASE ReadText
  <2>1. run'.saved = run.saved /\ run'.pc = "delta" /\ run.pc = "model"
    BY <1>3, ReadTextReads DEF ReadText
  <2>2. ConvInv'
    BY <1>1, <1>3, <2>1, OpenConv DEF ReadText, conversation, ConvInv, Open
  <2>3. DoneInv'
    BY <1>3, <2>1 DEF DoneInv, ReadText, peers
  <2> QED BY <1>0, <1>3, <2>2, <2>3, ReadTextReading, ReadTextText
<1>4. CASE SendDelta
  <2>1. Moves("model")
    BY <1>4, RunTyped, GotoMoves DEF SendDelta, PCs
  <2>2. run.pc = "delta" /\ said' = said /\ events' = events
    BY <1>4 DEF SendDelta
  <2>3. ConvInv'
    BY <1>1, <1>4, <2>1, <2>2, OpenConv DEF SendDelta, conversation, ConvInv, Open, Moves
  <2>4. ReadInv' /\ ExecInv' /\ ExecutedAsSent'
    <3>1. ReadInv'
      BY <2>1, <2>2 DEF ReadInv, Moves, Open, Asking
    <3>2. ExecInv'
      BY <2>1, <2>2 DEF ExecInv, Moves, Asking
    <3> QED BY <2>2, <3>1, <3>2, SameEvents
  <2>5. DoneInv'
    <3> DEFINE e == Event("delta", run.step, run.text)
    <3>1. e \in Events /\ e.type # "done"
      <4>1. run.step \in Steps /\ run.text \in 1..MaxText
        BY <2>2, StreamAssumption DEF TypeOK, TextInv
      <4> QED BY <4>1, EventTypes DEF Event
    <3>2. chan \in Seq(Events) /\ chan' = Append(chan, e) /\ got' = got
      BY <1>4 DEF TypeOK, SendDelta, peers
    <3> HIDE DEF e
    <3> QED BY <2>2, <3>1, <3>2, DoneAppend DEF DoneInv
  <2> QED BY <1>0, <1>4, <2>3, <2>4, <2>5, SendDeltaText
<1>5. CASE CancelDelta \/ Abort
  <2>1. Returns("persist", "error")
    BY <1>5, FinishReturns DEF CancelDelta, Abort
  <2>2. /\ run.pc \in {"model", "delta", "assistant", "tool"}
        /\ UNCHANGED <<peers, conversation, said, events, chan>>
    BY <1>5 DEF CancelDelta, Abort
  <2>3. ~Open'
    BY <2>1 DEF Returns, Open
  <2>4. ConvInv'
    BY <1>1, <2>1, <2>2, ReturnedConv DEF conversation, Open
  <2>5. ReadInv' /\ ExecInv' /\ ExecutedAsSent'
    BY <2>2, <2>3, ReturnedIdle, SameEvents
  <2>6. DoneInv'
    BY <2>2 DEF DoneInv, peers
  <2>7. TextInv'
    BY <2>2, <2>3, SameText DEF peers, Pipe, TextInv
  <2> QED BY <1>0, <2>4, <2>5, <2>6, <2>7
<1>6. CASE \E i \in Calls, part \in Parts : ReadCall(i, part)
  <2>1. PICK i \in Calls, part \in Parts : ReadCall(i, part)
    BY <1>6
  <2>2. run'.saved = run.saved /\ run'.pc = "model" /\ run.pc = "model"
    BY <2>1, ReadCallReads DEF ReadCall
  <2>3. ConvInv'
    BY <1>1, <2>1, <2>2, OpenConv DEF ReadCall, conversation, ConvInv, Open
  <2>4. DoneInv'
    BY <2>1, <2>2 DEF DoneInv, ReadCall, peers
  <2> QED BY <1>0, <2>1, <2>3, <2>4, ReadCallReading, ReadCallText
<1>7. CASE ReadEnd
  <2>1. /\ run.pc = "model"
        /\ UNCHANGED <<peers, conversation, said, events, chan>>
    BY <1>7 DEF ReadEnd
  <2>2. ConvInv'
    <3>1. CASE Returns("persist", "error")
      BY <1>1, <2>1, <3>1, ReturnedConv DEF conversation, Open
    <3>2. CASE run'.pc = "assistant" /\ run'.saved = 0
      BY <1>1, <2>1, <3>2, OpenConv DEF conversation, Open
    <3> QED BY <1>7, <3>1, <3>2, ReadEndTurns DEF Answers
  <2>3. DoneInv'
    BY <2>1 DEF DoneInv, peers
  <2> QED BY <1>0, <1>7, <2>2, <2>3, ReadEndReading, ReadEndText
<1>8. CASE \E n \in 0..MaxCalls : Complete(n)
  <2>1. PICK n \in 0..MaxCalls : Complete(n)
    BY <1>8
  <2>2. run'.pc = "assistant" /\ run'.saved = 0 /\ run.pc = "model" /\ mode = "plain"
    BY <2>1, RunTyped, AnswerAnswers DEF Complete, Answers
  <2>3. ConvInv'
    BY <1>1, <2>1, <2>2, OpenConv DEF Complete, conversation, Open
  <2>4. DoneInv'
    BY <2>1, <2>2 DEF DoneInv, Complete, peers
  <2>5. TextInv'
    BY <2>1, <2>2 DEF TextInv, Complete, peers
  <2> QED BY <1>0, <2>1, <2>3, <2>4, <2>5, CompleteReading
<1>9. CASE Assistant
  <2>1. run.pc = "assistant" /\ got' = got /\ UNCHANGED <<exists, conv, errors>>
    BY <1>9 DEF Assistant, peers, conversation
  <2>2. ConvInv'
    <3>1. CASE Returns("persist", "answer")
      BY <1>1, <2>1, <3>1, ReturnedConv DEF Open
    <3>2. CASE Moves("tool")
      <4>1. run'.saved = 0 /\ run'.pc = "tool"
        BY <2>1, <3>2 DEF Moves, ConvInv, Open
      <4> QED BY <1>1, <2>1, <4>1, OpenConv DEF Open
    <3> QED BY <1>9, <3>1, <3>2, AssistantTurns
  <2>3. DoneInv'
    <3>1. /\ Event("assistant", run.step, 0) \in Events
          /\ Event("assistant", run.step, 0).type # "done"
      BY EventTypes DEF TypeOK, Event
    <3> QED BY <1>9, <2>1, <3>1, OfferDone DEF Assistant
  <2> QED BY <1>0, <1>9, <2>2, <2>3, AssistantReads, AssistantText
<1>10. CASE ExecuteTool
  <2>1. /\ run.pc = "tool" /\ got' = got /\ UNCHANGED <<exists, conv, errors>>
        /\ run.todo # <<>>
    BY <1>10 DEF ExecuteTool, peers, conversation, ExecInv
  <2>2. ConvInv'
    <3>1. CASE \E o \in {"pending", "error"} : Returns("persist", o)
      BY <1>1, <2>1, <3>1, ReturnedConv DEF Open
    <3>2. CASE run'.pc \in {"tool", "model"} /\ run'.saved = 0
      BY <1>1, <2>1, <3>2, OpenConv DEF Open
    <3>3. run.saved = 0
      BY <2>1 DEF ConvInv, Open
    <3> QED BY <1>10, <2>1, <3>1, <3>2, <3>3, ExecuteToolTurns DEF ToolTurns, Starts
  <2>3. DoneInv'
    <3>1. /\ Event("tool", run.step, Head(run.todo)) \in Events
          /\ Event("tool", run.step, Head(run.todo)).type # "done"
      <4>1. run.step \in Steps /\ Head(run.todo) \in Calls
        BY <2>1 DEF TypeOK
      <4> QED BY <4>1, EventTypes DEF Event
    <3> QED BY <1>10, <2>1, <3>1, OfferDone DEF ExecuteTool
  <2> QED BY <1>0, <1>10, <2>2, <2>3, ExecuteToolReads, ExecuteToolText
<1>11. CASE PersistTool \/ PersistAnswer
  <2>1. run.pc = "persist" /\ UNCHANGED <<peers, said, events, chan>>
    BY <1>11 DEF PersistTool, PersistAnswer
  <2>2. ~Open'
    <3>1. run \in Runs /\ "audit" \in PCs /\ "final" \in PCs
      BY RunTyped DEF PCs
    <3> QED BY <1>11, <3>1, PersistToolSaves, GotoMoves DEF PersistAnswer, Moves, Open
  <2>3. ConvInv'
    BY <1>11, PersistToolConv, PersistAnswerConv
  <2>4. ReadInv' /\ ExecInv' /\ ExecutedAsSent'
    BY <2>1, <2>2, ReturnedIdle, SameEvents
  <2>5. DoneInv'
    BY <2>1 DEF DoneInv, peers
  <2>6. TextInv'
    BY <2>1, <2>2, SameText DEF peers, Pipe, TextInv
  <2> QED BY <1>0, <2>3, <2>4, <2>5, <2>6
<1>12. CASE SendDone \/ Close
  <2>1. /\ run.pc \in {"final", "audit"} /\ run'.pc \in {"audit", "closed"}
        /\ run'.outcome = run.outcome /\ run'.saved = run.saved
        /\ UNCHANGED <<mode, conversation, said, events, client>>
    <3>1. run \in Runs /\ "audit" \in PCs /\ "closed" \in PCs
      BY RunTyped DEF PCs
    <3> QED BY <1>12, <3>1, GotoMoves DEF SendDone, Close, Moves, peers
  <2>2. ~Open'
    BY <2>1 DEF Open
  <2>3. ConvInv'
    <3>1. ToolEvents' = ToolEvents /\ Exchange' = Exchange
      BY <2>1 DEF ToolEvents, Exchange
    <3> QED BY <2>1, <2>2, <3>1 DEF ConvInv, conversation
  <2>4. ReadInv' /\ ExecInv' /\ ExecutedAsSent'
    BY <2>1, <2>2, ReturnedIdle, SameEvents
  <2>5. DoneInv'
    BY <2>1 DEF DoneInv
  <2>6. TextInv'
    <3>1. CASE Close
      BY <2>1, <2>2, <3>1, SameText DEF Close, Pipe, TextInv
    <3> QED BY <1>12, <3>1, SendDoneText
  <2> QED BY <1>0, <2>3, <2>4, <2>5, <2>6
<1> QED BY <1>2, <1>3, <1>4, <1>5, <1>6, <1>7, <1>8, <1>9, <1>10, <1>11, <1>12 DEF Produce

\* The handler, its client, the time and a delete keep the invariant.
LEMMA OthersKeep ==
    ASSUME StreamInv,
           Forward \/ HandlerReturns \/ Leave \/ NoticeLeave \/ Expire \/ DeleteConversation
    PROVE  StreamInv'
<1> USE DEF StreamInv
<1>0. TypeOK'
  BY OthersType
<1>1. UNCHANGED <<mode, run, said, events>>
  BY DEF Forward, HandlerReturns, Leave, NoticeLeave, Expire, DeleteConversation, process
<1>2. ReadInv' /\ ExecInv' /\ ExecutedAsSent'
  BY <1>1, SameReads
<1>3. ToolEvents' = ToolEvents /\ Exchange' = Exchange /\ Saved' = Saved /\ (Open' <=> Open)
  BY <1>1 DEF ToolEvents, Exchange, Saved, Failed, Open
<1>4. CASE Forward
  <2>1. /\ UNCHANGED <<conversation, client>> /\ chan # <<>> /\ chan' = Tail(chan)
        /\ \/ client = "reading" /\ got' = Append(got, Head(chan))
           \/ client = "gone" /\ got' = got
        /\ chan \in Seq(Events) /\ got \in Seq(Events)
    BY <1>4 DEF Forward, process, TypeOK
  <2>2. ConvInv'
    BY <1>1, <1>3, <2>1 DEF ConvInv, conversation
  <2>3. DoneInv'
    <3>1. /\ \A i \in DOMAIN Tail(chan) : i + 1 \in DOMAIN chan /\ Tail(chan)[i] = chan[i + 1]
          /\ 1 \in DOMAIN chan /\ Head(chan) = chan[1] /\ Head(chan) \in Events
      BY <2>1
    <3>2. CASE got' = got
      BY <1>1, <2>1, <3>1, <3>2 DEF DoneInv
    <3>3. CASE got' = Append(got, Head(chan))
      BY <1>1, <2>1, <3>1, <3>3, DoneAppend DEF DoneInv
    <3> QED BY <2>1, <3>2, <3>3
  <2>4. TextInv'
    <3>1. mode = "stream" /\ client = "reading" => Pipe' = Pipe
      BY <2>1, PipeForwarded DEF Pipe
    <3> QED BY <1>1, <2>1, <3>1, SameText DEF TextInv
  <2> QED BY <1>0, <1>2, <2>2, <2>3, <2>4
<1>5. CASE HandlerReturns \/ NoticeLeave \/ Expire
  <2>1. UNCHANGED <<conversation, client, got, chan>>
    BY <1>5 DEF HandlerReturns, NoticeLeave, Expire, process
  <2>2. ConvInv'
    BY <1>1, <1>3, <2>1 DEF ConvInv, conversation
  <2>3. DoneInv'
    BY <1>1, <2>1 DEF DoneInv
  <2>4. TextInv'
    BY <1>1, <2>1, SameText DEF TextInv, Pipe
  <2> QED BY <1>0, <1>2, <2>2, <2>3, <2>4
<1>6. CASE Leave
  <2>1. UNCHANGED <<conversation, chan>> /\ client' = "gone" /\ got' = <<>>
    BY <1>6 DEF Leave
  <2>2. ConvInv'
    BY <1>1, <1>3, <2>1 DEF ConvInv, conversation
  <2>3. DoneInv'
    BY <1>1, <2>1 DEF DoneInv
  <2>4. TextInv'
    BY <1>1, <2>1 DEF TextInv
  <2> QED BY <1>0, <1>2, <2>2, <2>3, <2>4
<1>7. CASE DeleteConversation
  <2>1. UNCHANGED <<client, got, chan>> /\ exists' = FALSE
    BY <1>7 DEF DeleteConversation
  <2>2. ConvInv'
    BY <1>1, <1>3, <2>1 DEF ConvInv
  <2>3. DoneInv'
    BY <1>1, <2>1 DEF DoneInv
  <2>4. TextInv'
    BY <1>1, <2>1, SameText DEF TextInv, Pipe
  <2> QED BY <1>0, <1>2, <2>2, <2>3, <2>4
<1> QED BY <1>4, <1>5, <1>6, <1>7

\* The invariant holds at the start.
LEMMA StreamInit == Init => StreamInv
<1> SUFFICES ASSUME Init PROVE StreamInv
  OBVIOUS
<1>0. /\ run = Fresh /\ events = <<>> /\ chan = <<>> /\ got = <<>> /\ conv = <<>>
      /\ said = [step \in Steps |-> Nothing] /\ client = "reading"
  BY DEF Init, Nothing
<1>1. TypeOK
  <2>1. run \in Runs /\ said \in [Steps -> [text : 0..MaxText, calls : [Calls -> SUBSET Parts]]]
    BY <1>0, FreshType, StreamAssumption DEF Nothing
  <2>2. /\ <<>> \in Seq(Messages) /\ <<>> \in Seq(RunEvents) /\ <<>> \in Seq(Events)
        /\ Len(<<>>) <= Cap
    BY StreamAssumption
  <2>3. errors \in 0..Failures
    BY StreamAssumption DEF Init
  <2> QED BY <1>0, <2>1, <2>2, <2>3, Zenon DEF Init, TypeOK, Runs
<1>2. run.pc = "setup" /\ run.step = 1 /\ run.step \in Steps
  BY <1>0, FreshType, StreamAssumption DEF Steps
<1>3. ReadInv
  BY <1>0, <1>2, FreshType DEF ReadInv, Open, Asking, Nothing, NoCalls
<1>4. ExecInv /\ ExecutedAsSent
  BY <1>0, <1>2 DEF ExecInv, ExecutedAsSent, Asking
<1>5. ConvInv
  BY <1>0, <1>2, FreshType, OnlyInEmpty DEF ConvInv, ToolEvents, Open
<1>6. DoneInv
  BY <1>0 DEF DoneInv
<1>7. TextInv
  <2>1. Pipe = <<>>
    BY <1>0 DEF Pipe
  <2>2. SentTexts = [step \in Steps |-> 0]
    BY <1>0, <1>2 DEF SentTexts, Nothing
  <2>3. ASSUME NEW step PROVE Text(step, 0) = <<>>
    BY DEF Text
  <2>4. Full(<<>>, Due, SentTexts)
    BY <2>2, <2>3, OnlyInEmpty DEF Full, Fragments, Due
  <2>5. Placed(<<>>, AnsweredSteps, Texts) /\ \A n : Below(<<>>, n)
    BY DEF Placed, Below
  <2> QED BY <1>0, <1>2, <2>1, <2>4, <2>5 DEF TextInv, PipeInv
<1> QED BY <1>1, <1>3, <1>4, <1>5, <1>6, <1>7 DEF StreamInv

\* The invariant depends on the variables alone.
LEMMA StreamStutters == ASSUME StreamInv, UNCHANGED vars PROVE StreamInv'
<1> USE DEF StreamInv
<1>1. UNCHANGED <<mode, exists, conv, errors, run, said, events, chan, handler, cancelled, client, got>>
  BY DEF vars, conversation
<1>2. TypeOK'
  BY <1>1 DEF TypeOK
<1>3. ReadInv' /\ ExecInv' /\ ExecutedAsSent'
  BY <1>1, SameReads
<1>4. ConvInv'
  BY <1>1 DEF ConvInv, ToolEvents, Exchange, Saved, Failed, Open
<1>5. DoneInv'
  BY <1>1 DEF DoneInv
<1>6. TextInv'
  BY <1>1, SameText DEF TextInv, Pipe
<1> QED BY <1>2, <1>3, <1>4, <1>5, <1>6

-----------------------------------------------------------------------------
(* The theorems.                                                           *)

\* The inductive invariant: what was read, executed, written and sent agree at every
\* point of the run, whatever the handler, the client and a delete do in between.
THEOREM StreamInvariance == Spec => []StreamInv
<1>1. StreamInv /\ [Next]_vars => StreamInv'
  BY ProduceKeeps, OthersKeep, StreamStutters DEF Next
<1> QED BY <1>1, StreamInit, PTL DEF Spec

\* Every variable keeps its type; the channel never holds more than its buffer.
THEOREM StreamTypeCorrect == Spec => []TypeOK
<1>1. StreamInv => TypeOK
  BY DEF StreamInv
<1> QED BY <1>1, StreamInvariance, PTL

\* Tools are executed for complete answers only, call after call, for any number of
\* steps, calls and fragments.
THEOREM ExecutedAsSentHolds == Spec => []ExecutedAsSent
<1>1. StreamInv => ExecutedAsSent
  BY DEF StreamInv
<1> QED BY <1>1, StreamInvariance, PTL

\* A client that has the last event, or the reply, finds the whole exchange in the
\* conversation.
THEOREM RefreshSeesAllHolds == Spec => []RefreshSeesAll
<1>1. StreamInv => RefreshSeesAll
  <2> SUFFICES ASSUME StreamInv, Event("done", 0, 0) \in Range(got), exists, errors = 0
               PROVE  conv = Exchange
    BY DEF RefreshSeesAll
  <2>1. PICK i \in DOMAIN got : got[i] = Event("done", 0, 0)
    BY DEF Range
  <2>2. run.pc \in {"audit", "closed"}
    BY <2>1 DEF StreamInv, DoneInv, Event
  <2> QED BY <2>2 DEF StreamInv, ConvInv
<1> QED BY <1>1, StreamInvariance, PTL

\* Whatever follows an answer at the client has all of its text in front of it, in
\* order, for any size of the buffer.
THEOREM TextArrivesWholeHolds == Spec => []TextArrivesWhole
<1>1. StreamInv => TextArrivesWhole
  <2>1. SUFFICES ASSUME StreamInv, NEW i \in DOMAIN got, got[i].type # "delta",
                        NEW step \in Steps, Answered(step), mode = "stream",
                        got[i].type = "done" \/ step <= got[i].step
                 PROVE  Fragments(SubSeq(got, 1, i), step) = Text(step, said[step].text)
    BY DEF TextArrivesWhole, Text
  <2>2. client = "reading"
    BY <2>1 DEF StreamInv, TypeOK, TextInv
  <2>3. Placed(Pipe, AnsweredSteps, Texts)
    BY <2>1, <2>2 DEF StreamInv, TextInv, PipeInv
  <2>4. i \in DOMAIN Pipe /\ Pipe[i] = got[i] /\ SubSeq(Pipe, 1, i) = SubSeq(got, 1, i)
    <3>1. got \in Seq(Events) /\ chan \in Seq(Events)
      BY <2>1 DEF StreamInv, TypeOK
    <3> QED BY <3>1 DEF Pipe
  <2>5. step \in AnsweredSteps /\ Texts[step] = said[step].text
    BY <2>1 DEF AnsweredSteps, Texts
  <2> QED BY <2>1, <2>3, <2>4, <2>5 DEF Placed
<1> QED BY <1>1, StreamInvariance, PTL
=============================================================================
