---------------------------- MODULE AgentStream ----------------------------
(***************************************************************************)
(* One request to the agent, as its client sees it: the answer of the      *)
(* model is read fragment by fragment (CompleteStream), what happens is     *)
(* passed to the handler over a buffered channel and by the handler to the *)
(* client as server-sent events, and the conversation is written.          *)
(*                                                                         *)
(* The goroutine that runs the agent (the producer) and the handler are    *)
(* separate processes; the client may leave at any time.  A request that    *)
(* does not ask for a stream is served by the handler alone.  The ledger   *)
(* and the row of the run are the matter of AgentRun: here, a statement on *)
(* them succeeds, or ends the run with an error.                           *)
(***************************************************************************)
EXTENDS Naturals, Sequences, SequencesExt, Selection

CONSTANTS
    MaxSteps,   \* agent.max_steps
    MaxText,    \* bound: fragments of text in one answer of the model
    MaxCalls,   \* bound: tool calls in one answer
    Cap,        \* buffer of the channel (32 in the code)
    Failures    \* bound: messages that the repository fails to add

ASSUME StreamAssumption ==
    /\ MaxSteps \in Nat \ {0}
    /\ MaxText \in Nat
    /\ MaxCalls \in Nat
    /\ Cap \in Nat \ {0}
    /\ Failures \in Nat

VARIABLES
    mode,       \* whether the request asks for a stream
    exists,     \* whether the conversation is in the repository
    conv,       \* its messages
    run,        \* the producer: next step and locals
    said,       \* per step, what the model has sent of its answer
    events,     \* result.Events
    chan,       \* the channel between producer and handler
    handler,    \* the handler: forwarding, waiting for the producer, returned
    cancelled,  \* the context of the run is done
    client,     \* whether the client still reads
    got,        \* what the client has received
    errors      \* messages that the repository failed to add

Steps == 1..MaxSteps
Calls == 1..MaxCalls
conversation == <<exists, conv, errors>>
vars == <<mode, conversation, run, said, events, chan, handler, cancelled, client, got>>

\* Server-sent events; n tells the text fragments and the tool calls of a step
\* apart.  "done" is the last event of a stream, and the reply of a request
\* without one.
Event(type, step, n) == [type |-> type, step |-> step, n |-> n]
Deltas(step) == [type : {"delta"}, step : {step}, n : 1..MaxText]
ToolCalls == [type : {"tool"}, step : Steps, n : Calls]
RunEvents == [type : {"assistant"}, step : Steps, n : {0}] \cup ToolCalls
Events ==
    [type : {"delta"}, step : Steps, n : 1..MaxText]
    \cup RunEvents
    \cup [type : {"done"}, step : {0}, n : {0}]

\* Messages of a conversation: the input, a tool event, the answer, an error.
Messages == [role : {"user", "assistant", "error"}] \cup ToolCalls
Message(role) == [role |-> role]

\* A call is complete when its ID, name and arguments have arrived; "head" is
\* its first fragment, which leaves the arguments unfinished, "tail" the rest.
Parts == {"head", "tail"}

PCs == {"setup", "model", "delta", "assistant", "tool", "persist", "answer", "final", "audit", "closed"}

TypeOK ==
    /\ mode \in {"stream", "plain"}
    /\ exists \in BOOLEAN
    /\ conv \in Seq(Messages)
    /\ run \in [pc : PCs, step : Steps, text : 0..MaxText, calls : [Calls -> SUBSET Parts],
                todo : Seq(Calls), saved : Nat,
                outcome : {"none", "refused", "answer", "pending", "error"}]
    /\ said \in [Steps -> [text : 0..MaxText, calls : [Calls -> SUBSET Parts]]]
    /\ events \in Seq(RunEvents)
    /\ chan \in Seq(Events) /\ Len(chan) <= Cap
    /\ handler \in {"range", "wait", "returned"}
    /\ cancelled \in BOOLEAN
    /\ client \in {"reading", "gone"}
    /\ got \in Seq(Events)
    /\ errors \in 0..Failures

NoCalls == [i \in Calls |-> {}]
Fresh == [pc |-> "setup", step |-> 1, text |-> 0, calls |-> NoCalls, todo |-> <<>>,
          saved |-> 0, outcome |-> "none"]

Init ==
    /\ mode \in {"stream", "plain"}
    /\ exists = TRUE
    /\ conv = <<>>
    /\ run = Fresh
    /\ said = [step \in Steps |-> [text |-> 0, calls |-> NoCalls]]
    /\ events = <<>>
    /\ chan = <<>>
    /\ handler = "range"
    /\ cancelled = FALSE
    /\ client = "reading"
    /\ got = <<>>
    /\ errors = 0

-----------------------------------------------------------------------------
(* Helpers.                                                                *)

peers == <<mode, handler, cancelled, client, got>>

Goto(pc) == run' = [run EXCEPT !.pc = pc]

\* executePersistentRun returns.
Finish(outcome) == run' = [Fresh EXCEPT !.pc = "persist", !.outcome = outcome]

\* The messages of an answer are discarded before the next one.
Ask(step) == run' = [Fresh EXCEPT !.pc = "model", !.step = step]

\* Assistant and tool events are sent only if there is room.
Offer(e) == chan' = IF mode = "stream" /\ Len(chan) < Cap THEN Append(chan, e) ELSE chan

\* AddConversationMessage, of which every caller ignores the error: a database
\* may fail, and without its conversation a message violates a foreign key.
\* (In memory it is kept under the ID of a conversation that is not listed.)
AddConversationMessage(m) ==
    /\ UNCHANGED exists
    /\ \/ /\ exists
          /\ conv' = Append(conv, m)
          /\ UNCHANGED errors
       \/ /\ \/ ~exists /\ UNCHANGED errors
             \/ exists /\ errors < Failures /\ errors' = errors + 1
          /\ UNCHANGED conv

-----------------------------------------------------------------------------
(* The producer.                                                           *)

\* The conversation was created or looked up; the input is added to it, and the
\* run is created and executed.  It is refused if that fails, and left alone if
\* somebody has cancelled it by then.
Setup ==
    /\ run.pc = "setup"
    /\ AddConversationMessage(Message("user"))
    /\ \/ Ask(1)
       \/ Finish("pending")
       \/ run' = [Fresh EXCEPT !.pc = IF mode = "plain" THEN "audit" ELSE "persist",
                              !.outcome = "refused"]
    /\ UNCHANGED <<peers, said, events, chan>>

\* CompleteStream reads a fragment of the text ...
ReadText ==
    /\ run.pc = "model" /\ mode = "stream"
    /\ run.text < MaxText
    /\ run' = [run EXCEPT !.pc = "delta", !.text = @ + 1]
    /\ said' = [said EXCEPT ![run.step].text = @ + 1]
    /\ UNCHANGED <<peers, conversation, events, chan>>

\* Mutant: a fragment of the text is sent only if there is room.
MutDeltaDropped ==
    /\ run.pc = "delta"
    /\ Offer(Event("delta", run.step, run.text))
    /\ Goto("model")
    /\ UNCHANGED <<peers, conversation, said, events>>

\* ... which onDelta sends, and waits for room if there is none ...
SendDelta ==
    /\ run.pc = "delta"
    /\ Len(chan) < Cap
    /\ chan' = Append(chan, Event("delta", run.step, run.text))
    /\ Goto("model")
    /\ UNCHANGED <<peers, conversation, said, events>>

\* Mutant: onDelta does not look at the context.
MutDeltaDeaf ==
    /\ run.pc = "delta"
    /\ cancelled
    /\ Len(chan) < Cap
    /\ Finish("error")
    /\ UNCHANGED <<peers, conversation, said, events, chan>>

\* ... but no longer than the context of the run lasts.
CancelDelta ==
    /\ run.pc = "delta"
    /\ cancelled
    /\ Finish("error")
    /\ UNCHANGED <<peers, conversation, said, events, chan>>

\* A fragment of a tool call, which belongs to the call its index names.  The
\* model numbers the calls from the first on; their rests come in any order.
ReadCall(i, part) ==
    /\ run.pc = "model" /\ mode = "stream"
    /\ part \notin run.calls[i]
    /\ IF part = "head" THEN \A j \in 1..(i - 1) : run.calls[j] # {} ELSE run.calls[i] # {}
    /\ run' = [run EXCEPT !.calls[i] = @ \cup {part}]
    /\ said' = [said EXCEPT ![run.step].calls[i] = @ \cup {part}]
    /\ UNCHANGED <<peers, conversation, events, chan>>

Whole(calls, i) == calls[i] = Parts

\* The calls that have begun: by index, up to the first that is missing.
Assembled(n) ==
    /\ \A i \in 1..n : run.calls[i] # {}
    /\ n < MaxCalls => run.calls[n + 1] = {}

\* An answer with n calls, to be made in the order of their indices.
Answer(n) ==
    run' = [Fresh EXCEPT !.pc = "assistant", !.step = run.step, !.todo = [i \in 1..n |-> i]]

\* Mutant: the first call that is incomplete ends the list.
MutSkipIncomplete ==
    \E n \in 0..MaxCalls :
        /\ \A i \in 1..n : Whole(run.calls, i)
        /\ n < MaxCalls => ~Whole(run.calls, n + 1)
        /\ Answer(n)

\* The answer is assembled; an incomplete call is an error.
Assemble ==
    \E n \in 0..MaxCalls :
        /\ Assembled(n)
        /\ IF \A i \in 1..n : Whole(run.calls, i) THEN Answer(n) ELSE Finish("error")

\* The model's stream ends.  It closes with [DONE] when everything was sent; an
\* end of file before that counts as an end too.
ReadEnd ==
    /\ run.pc = "model" /\ mode = "stream"
    /\ Assemble
    /\ UNCHANGED <<peers, conversation, said, events, chan>>

\* Complete: the answer comes in one piece.
Complete(n) ==
    /\ run.pc = "model" /\ mode = "plain"
    /\ said' = [said EXCEPT ![run.step].calls = [i \in Calls |-> IF i <= n THEN Parts ELSE {}]]
    /\ Answer(n)
    /\ UNCHANGED <<peers, conversation, events, chan>>

\* The model cannot be reached, answers something else, or is cut off; a
\* statement of the ledger fails; a tool is not declared; a worker was not
\* discovered.
Abort ==
    /\ run.pc \in {"model", "assistant", "tool"}
    /\ Finish("error")
    /\ UNCHANGED <<peers, conversation, said, events, chan>>

\* An answer without calls is the answer of the run.
Assistant ==
    LET e == Event("assistant", run.step, 0) IN
    /\ run.pc = "assistant"
    /\ events' = Append(events, e)
    /\ Offer(e)
    /\ IF run.todo = <<>> THEN Finish("answer") ELSE Goto("tool")
    /\ UNCHANGED <<peers, conversation, said>>

\* Mutant: the loop over the steps is left one step too late.
MutExecuteStepOver ==
    LET e == Event("tool", run.step, Head(run.todo)) IN
    /\ run.pc = "tool"
    /\ events' = Append(events, e)
    /\ Offer(e)
    /\ \/ Finish("pending")
       \/ /\ Len(run.todo) > 1
          /\ run' = [run EXCEPT !.todo = Tail(@)]
       \/ /\ Len(run.todo) = 1
          /\ IF run.step <= MaxSteps THEN Ask(run.step + 1) ELSE Finish("error")
    /\ UNCHANGED <<peers, conversation, said>>

\* A tool is executed; the run pauses if a job needs approval, and ends when
\* its steps are used up.
ExecuteTool ==
    LET e == Event("tool", run.step, Head(run.todo)) IN
    /\ run.pc = "tool"
    /\ events' = Append(events, e)
    /\ Offer(e)
    /\ \/ Finish("pending")
       \/ /\ Len(run.todo) > 1
          /\ run' = [run EXCEPT !.todo = Tail(@)]
       \/ /\ Len(run.todo) = 1
          /\ IF run.step < MaxSteps THEN Ask(run.step + 1) ELSE Finish("error")
    /\ UNCHANGED <<peers, conversation, said>>

ToolEvents == OnlyIn(events, ToolCalls)

\* Mutant: the last event is sent without waiting for the answer to be added.
MutPersistLate ==
    /\ run.pc = "persist"
    /\ run.saved = Len(ToolEvents) \/ (mode = "plain" /\ run.outcome = "error")
    /\ Goto(IF mode = "plain" THEN "audit" ELSE "final")
    /\ UNCHANGED <<peers, conversation, said, events, chan>>

\* The tool events are added to the conversation, one by one.  Without a
\* stream, a failed run adds its error in their place.
PersistTool ==
    /\ run.pc = "persist"
    /\ mode = "stream" \/ run.outcome # "error"
    /\ run.saved < Len(ToolEvents)
    /\ AddConversationMessage(ToolEvents[run.saved + 1])
    /\ run' = [run EXCEPT !.saved = @ + 1]
    /\ UNCHANGED <<peers, said, events, chan>>

\* Then the answer, if there is one.
PersistAnswer ==
    /\ run.pc = "persist"
    /\ LET failed == mode = "plain" /\ run.outcome = "error" IN
        /\ failed \/ run.saved = Len(ToolEvents)
        /\ IF failed THEN AddConversationMessage(Message("error"))
           ELSE IF run.outcome = "answer" THEN AddConversationMessage(Message("assistant"))
           ELSE UNCHANGED conversation
    /\ Goto(IF mode = "plain" THEN "audit" ELSE "final")
    /\ UNCHANGED <<peers, said, events, chan>>

\* The last event waits for room, for as long as it takes.
SendDone ==
    /\ run.pc = "final"
    /\ Len(chan) < Cap
    /\ chan' = Append(chan, Event("done", 0, 0))
    /\ Goto("audit")
    /\ UNCHANGED <<peers, conversation, said, events>>

\* The audit entry, if the run has not failed, then done and the channel are
\* closed; a handler without a stream replies instead.
Close ==
    /\ run.pc = "audit"
    /\ Goto("closed")
    /\ IF mode = "plain"
       THEN /\ handler' = "returned"
            /\ got' = IF client = "reading" THEN <<Event("done", 0, 0)>> ELSE got
       ELSE UNCHANGED <<handler, got>>
    /\ UNCHANGED <<mode, conversation, said, events, chan, cancelled, client>>

Produce ==
    \/ Setup
    \/ ReadText \/ SendDelta \/ CancelDelta
    \/ \E i \in Calls, part \in Parts : ReadCall(i, part)
    \/ ReadEnd
    \/ \E n \in 0..MaxCalls : Complete(n)
    \/ Abort
    \/ Assistant
    \/ ExecuteTool
    \/ PersistTool \/ PersistAnswer
    \/ SendDone
    \/ Close

-----------------------------------------------------------------------------
(* The handler of a stream, and its client.                                *)

process == <<mode, conversation, run, said, events, cancelled, client>>

\* An event is written.  To a client that has left, the write fails, or the
\* event is lost on its way.
Forward ==
    /\ mode = "stream" /\ handler = "range"
    /\ chan # <<>>
    /\ chan' = Tail(chan)
    /\ \/ /\ client = "reading"
          /\ got' = Append(got, Head(chan))
          /\ UNCHANGED handler
       \/ /\ client = "gone"
          /\ handler' \in {"range", "wait"}
          /\ UNCHANGED got
    /\ UNCHANGED process

\* The loop ends when the channel is closed and empty; then, and after a write
\* that failed, the handler waits for the producer to be done.
HandlerReturns ==
    /\ mode = "stream"
    /\ run.pc = "closed"
    /\ handler = "wait" \/ (handler = "range" /\ chan = <<>>)
    /\ handler' = "returned"
    /\ UNCHANGED <<process, chan, got>>

\* The client closes the connection, and is gone with what it received ...
Leave ==
    /\ client = "reading" /\ handler # "returned"
    /\ client' = "gone"
    /\ got' = <<>>
    /\ UNCHANGED <<mode, conversation, run, said, events, chan, handler, cancelled>>

\* ... which the HTTP server sees and cancels the request for.
NoticeLeave ==
    /\ client = "gone" /\ ~cancelled
    /\ cancelled' = TRUE
    /\ UNCHANGED <<mode, conversation, run, said, events, chan, handler, client, got>>

\* The run takes longer than it may.
Expire ==
    /\ run.pc \in {"model", "delta", "assistant", "tool"}
    /\ ~cancelled
    /\ cancelled' = TRUE
    /\ UNCHANGED <<mode, conversation, run, said, events, chan, handler, client, got>>

\* DeleteConversation, by another request.
DeleteConversation ==
    /\ exists
    /\ exists' = FALSE
    /\ conv' = <<>>
    /\ UNCHANGED <<mode, errors, run, said, events, chan, handler, cancelled, client, got>>

Next == Produce \/ Forward \/ HandlerReturns \/ Leave \/ NoticeLeave \/ Expire \/ DeleteConversation

Spec == Init /\ [][Next]_vars

\* The goroutines are scheduled, the model and the tools answer or time out, the
\* client takes what is written to it, and its departure is noticed.
FairSpec ==
    /\ Spec
    /\ WF_vars(Produce)
    /\ WF_vars(Forward \/ HandlerReturns)
    /\ WF_vars(NoticeLeave)

-----------------------------------------------------------------------------
(* Properties.                                                             *)

\* "Persist BEFORE sending done so the frontend sees them on refresh": when the
\* client has the last event, or the reply, the conversation holds the whole
\* exchange in its order, unless it was deleted or a message could not be added.
Exchange ==
    <<Message("user")>> \o
    (IF mode = "plain" /\ run.outcome = "error" THEN <<Message("error")>>
     ELSE ToolEvents \o (IF run.outcome = "answer" THEN <<Message("assistant")>> ELSE <<>>))

RefreshSeesAll ==
    Event("done", 0, 0) \in Range(got) /\ exists /\ errors = 0 => conv = Exchange

\* A client may miss the summary of an answer or a tool event, when the buffer is
\* full, but never a piece of the text: once anything follows an answer, the
\* client has all its fragments in their order.
Fragments(s, step) == OnlyIn(s, Deltas(step))
Answered(step) == Event("assistant", step, 0) \in Range(events)

TextArrivesWhole ==
    \A i \in DOMAIN got : got[i].type # "delta" =>
        \A step \in Steps :
            Answered(step) /\ (got[i].type = "done" \/ step <= got[i].step) /\ mode = "stream" =>
                Fragments(SubSeq(got, 1, i), step) =
                    [n \in 1..said[step].text |-> Event("delta", step, n)]

\* Tools are executed only for an answer of which every call is complete, in the
\* order of their indices, from the first on and without a gap, and for one answer
\* after the other, even if the model's stream was cut short or its fragments came
\* interleaved.
ExecutedAsSent ==
    \A i \in DOMAIN events :
        LET e == events[i] IN
        /\ e.type = "tool" =>
            /\ \A c \in Calls : said[e.step].calls[c] \in {{}, Parts}
            /\ Whole(said[e.step].calls, e.n)
            /\ i > 1
            /\ events[i - 1] = IF e.n = 1 THEN Event("assistant", e.step, 0)
                                          ELSE Event("tool", e.step, e.n - 1)
        /\ e.type = "assistant" => \A j \in 1..(i - 1) : events[j].step < e.step

\* A request ends.  The one exception is a client that has left while the
\* buffer is full: the handler no longer reads, and the last event never gets
\* into the channel.
Stuck == client = "gone" /\ handler = "wait" /\ run.pc = "final" /\ Len(chan) = Cap
RequestEnds == <>(handler = "returned" \/ Stuck)
=============================================================================
