---------------------------- MODULE WorkerStream ----------------------------
(***************************************************************************)
(* The server side of the worker stream: the hub that maps a worker ID to  *)
(* the channel of its current stream (workerstream/hub.go) and the handler *)
(* goroutines of the bidirectional gRPC stream (workerstream/service.go).  *)
(*                                                                         *)
(* Every connection is a member of Streams.  A channel is identified with  *)
(* the stream that made it, so the hub's map holds stream identities.  A   *)
(* worker that reconnects, or a second process registered under the same   *)
(* name and type, opens another stream for the same worker ID.             *)
(*                                                                         *)
(* Go panics when a closed channel is closed again or sent to.  These      *)
(* outcomes are explicit: they set panicked.                               *)
(***************************************************************************)
EXTENDS Naturals, Sequences, SequencesExt

CONSTANTS
    Workers,    \* worker IDs, as the repository's RegisterWorker returns them
    Streams,    \* the connections of a behaviour
    Msgs,       \* the envelopes pushed in a behaviour (jobs and commands)
    Cap,        \* buffer of an outbound channel (32 in the code)
    None        \* no stream, or no worker

ASSUME CapAssumption == Cap \in Nat \ {0}
ASSUME NoneAssumption == None \notin Streams /\ None \notin Workers

VARIABLES
    hub,        \* Hub.workers: worker ID -> current stream, or None (absent)
    buf,        \* buffered envelopes of a stream's outbound channel
    closed,     \* closed[s]: the outbound channel of s has been closed
    of,         \* of[s]: the worker ID that s registered as
    pc,         \* where the handler goroutine Stream of s stands
    recv,       \* the goroutine of s that runs receiveLoop
    link,       \* the transport of s, as the server sees it
    wire,       \* envelopes sent on s that the worker has not received
    pushed,     \* envelopes handed to Hub.push so far
    acc,        \* acc[s]: history of what push put into the channel of s
    got,        \* got[s]: history of what the worker received on s
    panicked    \* a send on, or a close of, a closed channel happened

chanVars == <<hub, buf, closed>>
history == <<pushed, acc, got>>
vars == <<hub, buf, closed, of, pc, recv, link, wire, pushed, acc, got, panicked>>

\* "accepted": gRPC called the handler, nothing received yet; "joining":
\* RegisterWorker answered, hub.register not called; "greeting": in the hub,
\* the registered reply is not sent; "serving": in the select loop; "leaving":
\* returning, the deferred unregister has not run; "returned": it has.
PCs == {"none", "accepted", "joining", "greeting", "serving", "leaving", "returned"}

TypeOK ==
    /\ hub \in [Workers -> Streams \cup {None}]
    /\ buf \in [Streams -> Seq(Msgs)]
    /\ closed \in [Streams -> BOOLEAN]
    /\ of \in [Streams -> Workers \cup {None}]
    /\ pc \in [Streams -> PCs]
    /\ recv \in [Streams -> {"off", "looping", "ended"}]
    /\ link \in [Streams -> {"up", "broken"}]
    /\ wire \in [Streams -> Seq(Msgs)]
    /\ pushed \in SUBSET Msgs
    /\ acc \in [Streams -> Seq(Msgs)]
    /\ got \in [Streams -> Seq(Msgs)]
    /\ panicked \in BOOLEAN

Init ==
    /\ hub = [w \in Workers |-> None]
    /\ buf = [s \in Streams |-> <<>>]
    /\ closed = [s \in Streams |-> FALSE]
    /\ of = [s \in Streams |-> None]
    /\ pc = [s \in Streams |-> "none"]
    /\ recv = [s \in Streams |-> "off"]
    /\ link = [s \in Streams |-> "up"]
    /\ wire = [s \in Streams |-> <<>>]
    /\ pushed = {}
    /\ acc = [s \in Streams |-> <<>>]
    /\ got = [s \in Streams |-> <<>>]
    /\ panicked = FALSE

-----------------------------------------------------------------------------
(* The hub.  Each operation runs under the hub's lock, so it is one step.  *)

\* close(ch): closing a closed channel panics.
Close(s) ==
    /\ closed' = [closed EXCEPT ![s] = TRUE]
    /\ panicked' = (panicked \/ closed[s])

\* Mutant: the old channel is replaced but never closed.
MutRegisterNoClose(w, s) ==
    /\ hub' = [hub EXCEPT ![w] = s]
    /\ UNCHANGED <<buf, closed, panicked>>

\* register: the worker's old channel, if any, is closed and replaced.
HubRegister(w, s) ==
    /\ IF hub[w] # None
       THEN Close(hub[w])
       ELSE UNCHANGED <<closed, panicked>>
    /\ hub' = [hub EXCEPT ![w] = s]
    /\ UNCHANGED buf

\* Mutant: unregister without comparing the current channel.
MutUnregisterAny(w, s) ==
    /\ hub' = [hub EXCEPT ![w] = None]
    /\ Close(s)
    /\ buf' = [buf EXCEPT ![s] = <<>>]

\* Mutant: the map entry outlives the handler.
MutUnregisterKeep(w, s) ==
    /\ buf' = [buf EXCEPT ![s] = <<>>]
    /\ UNCHANGED <<hub, closed, panicked>>

\* unregister: only the stream the map still points to removes the entry and
\* closes the channel.  The channel is garbage afterwards.
HubUnregister(w, s) ==
    /\ IF hub[w] = s
       THEN /\ hub' = [hub EXCEPT ![w] = None]
            /\ Close(s)
       ELSE UNCHANGED <<hub, closed, panicked>>
    /\ buf' = [buf EXCEPT ![s] = <<>>]

\* Mutant: a full buffer evicts its oldest envelope instead of the new one.
MutPushEvict(w, m) ==
    LET s == hub[w] IN
    /\ m \notin pushed
    /\ s # None
    /\ pushed' = pushed \cup {m}
    /\ buf' = [buf EXCEPT ![s] = IF Len(@) < Cap THEN Append(@, m)
                                               ELSE Append(Tail(@), m)]
    /\ acc' = [acc EXCEPT ![s] = Append(@, m)]
    /\ UNCHANGED <<hub, closed, of, pc, recv, link, wire, got, panicked>>

\* push (PushJob, PushCommand): a non-blocking send to the current channel;
\* the envelope is dropped when there is no stream or the buffer is full.
HubPush(w, m) ==
    LET s == hub[w] IN
    /\ m \notin pushed
    /\ pushed' = pushed \cup {m}
    /\ panicked' = (panicked \/ (s # None /\ closed[s]))
    /\ IF s # None /\ ~closed[s] /\ Len(buf[s]) < Cap
       THEN /\ buf' = [buf EXCEPT ![s] = Append(@, m)]
            /\ acc' = [acc EXCEPT ![s] = Append(@, m)]
       ELSE UNCHANGED <<buf, acc>>
    /\ UNCHANGED <<hub, closed, of, pc, recv, link, wire, got>>

-----------------------------------------------------------------------------
(* The handler goroutine Stream.                                           *)

\* A worker connects and the handler starts.
Accept(s) ==
    /\ pc[s] = "none"
    /\ pc' = [pc EXCEPT ![s] = "accepted"]
    /\ UNCHANGED <<chanVars, of, recv, link, wire, history, panicked>>

\* Early returns: bad token, Recv error, first message not a register, blank
\* name or type, repository error.  Nothing was registered with the hub.
Refuse(s) ==
    /\ pc[s] = "accepted"
    /\ pc' = [pc EXCEPT ![s] = "returned"]
    /\ UNCHANGED <<chanVars, of, recv, link, wire, history, panicked>>

\* The register message is valid and RegisterWorker answers worker ID w.
RegisterWorker(s, w) ==
    /\ pc[s] = "accepted"
    /\ of' = [of EXCEPT ![s] = w]
    /\ pc' = [pc EXCEPT ![s] = "joining"]
    /\ UNCHANGED <<chanVars, recv, link, wire, history, panicked>>

JoinHub(s) ==
    /\ pc[s] = "joining"
    /\ HubRegister(of[s], s)
    /\ pc' = [pc EXCEPT ![s] = "greeting"]
    /\ UNCHANGED <<of, recv, link, wire, history>>

\* Send the registered reply and start receiveLoop, or return on a Send error.
Greet(s) ==
    /\ pc[s] = "greeting"
    /\ \/ /\ link[s] = "up"
          /\ pc' = [pc EXCEPT ![s] = "serving"]
          /\ recv' = [recv EXCEPT ![s] = "looping"]
       \/ /\ link[s] = "broken"
          /\ pc' = [pc EXCEPT ![s] = "leaving"]
          /\ UNCHANGED recv
    /\ UNCHANGED <<chanVars, of, link, wire, history, panicked>>

\* Mutant: the envelope stays in the buffer after the Send.
MutForwardKeep(s) ==
    /\ pc[s] = "serving"
    /\ buf[s] # <<>>
    /\ link[s] = "up"
    /\ Len(wire[s]) < Cap
    /\ wire' = [wire EXCEPT ![s] = Append(@, Head(buf[s]))]
    /\ UNCHANGED <<chanVars, of, pc, recv, link, history, panicked>>

\* Mutant: the receive without its ok: a closed and drained channel yields nil,
\* which is sent as if it were an envelope.
MutForwardUnchecked(s) ==
    /\ pc[s] = "serving"
    /\ buf[s] # <<>> \/ closed[s]
    /\ link[s] = "up"
    /\ IF buf[s] # <<>>
       THEN /\ wire' = [wire EXCEPT ![s] = Append(@, Head(buf[s]))]
            /\ buf' = [buf EXCEPT ![s] = Tail(@)]
       ELSE /\ wire' = [wire EXCEPT ![s] = Append(@, None)]
            /\ UNCHANGED buf
    /\ UNCHANGED <<hub, closed, of, pc, recv, link, history, panicked>>

\* case msg := <-outbound: forward one envelope.  On a broken transport the
\* Send fails, or still succeeds and the envelope is lost.
Forward(s) ==
    /\ pc[s] = "serving"
    /\ buf[s] # <<>>
    /\ buf' = [buf EXCEPT ![s] = Tail(@)]
    /\ \/ /\ link[s] = "up"
          /\ wire' = [wire EXCEPT ![s] = Append(@, Head(buf[s]))]
          /\ UNCHANGED pc
       \/ /\ link[s] = "broken"
          /\ \/ pc' = [pc EXCEPT ![s] = "leaving"]
             \/ UNCHANGED pc
          /\ UNCHANGED wire
    /\ UNCHANGED <<hub, closed, of, recv, link, history, panicked>>

\* The three ways out of the select loop: the channel is closed and drained,
\* the stream's context is done, or receiveLoop has reported its end.
LeaveLoop(s) ==
    /\ pc[s] = "serving"
    /\ \/ closed[s] /\ buf[s] = <<>>
       \/ link[s] = "broken"
       \/ recv[s] = "ended"
    /\ pc' = [pc EXCEPT ![s] = "leaving"]
    /\ UNCHANGED <<chanVars, of, recv, link, wire, history, panicked>>

\* defer s.hub.unregister(worker.ID, outbound)
Return(s) ==
    /\ pc[s] = "leaving"
    /\ HubUnregister(of[s], s)
    /\ pc' = [pc EXCEPT ![s] = "returned"]
    /\ UNCHANGED <<of, recv, link, wire, history>>

-----------------------------------------------------------------------------
(* The receiving goroutine and the transport.                              *)

\* A heartbeat or a job result is refused by the repository (unknown worker,
\* job not running or not assigned to this worker): receiveLoop returns the
\* error.  Messages it handles without error change nothing in this module.
ReceiveRefused(s) ==
    /\ recv[s] = "looping"
    /\ link[s] = "up"
    /\ pc[s] # "returned"
    /\ recv' = [recv EXCEPT ![s] = "ended"]
    /\ UNCHANGED <<chanVars, of, pc, link, wire, history, panicked>>

\* Mutant: errCh is unbuffered, so the error needs a handler that still reads.
MutReceiveUnbuffered(s) ==
    /\ recv[s] = "looping"
    /\ link[s] = "broken"
    /\ pc[s] = "serving"
    /\ recv' = [recv EXCEPT ![s] = "ended"]
    /\ UNCHANGED <<chanVars, of, pc, link, wire, history, panicked>>

\* stream.Recv fails once the transport is broken or the handler has returned.
\* errCh has room for the error, so the goroutine ends in either case.
ReceiveFailed(s) ==
    /\ recv[s] = "looping"
    /\ link[s] = "broken" \/ pc[s] = "returned"
    /\ recv' = [recv EXCEPT ![s] = "ended"]
    /\ UNCHANGED <<chanVars, of, pc, link, wire, history, panicked>>

\* The worker takes the next envelope off the stream.
WorkerRecv(s) ==
    /\ link[s] = "up"
    /\ wire[s] # <<>>
    /\ got' = [got EXCEPT ![s] = Append(@, Head(wire[s]))]
    /\ wire' = [wire EXCEPT ![s] = Tail(@)]
    /\ UNCHANGED <<chanVars, of, pc, recv, link, pushed, acc, panicked>>

\* The connection is lost, or the worker closes it (exit, reconnect).
Break(s) ==
    /\ pc[s] # "none"
    /\ link[s] = "up"
    /\ link' = [link EXCEPT ![s] = "broken"]
    /\ wire' = [wire EXCEPT ![s] = <<>>]
    /\ UNCHANGED <<chanVars, of, pc, recv, history, panicked>>

Handler(s) ==
    \/ JoinHub(s)
    \/ Greet(s)
    \/ Forward(s)
    \/ LeaveLoop(s)
    \/ Return(s)
    \/ ReceiveFailed(s)

Next ==
    \/ \E s \in Streams :
        \/ Handler(s)
        \/ Accept(s)
        \/ Refuse(s)
        \/ \E w \in Workers : RegisterWorker(s, w)
        \/ ReceiveRefused(s)
        \/ WorkerRecv(s)
        \/ Break(s)
    \/ \E w \in Workers, m \in Msgs : HubPush(w, m)

Spec == Init /\ [][Next]_vars

\* The Go runtime keeps running a goroutine that can take a step.  Workers,
\* the network and the callers of push owe nothing.
FairSpec ==
    /\ Spec
    /\ \A s \in Streams :
        /\ WF_vars(JoinHub(s) \/ Greet(s) \/ LeaveLoop(s) \/ Return(s))
        /\ WF_vars(Forward(s))
        /\ WF_vars(ReceiveFailed(s))

-----------------------------------------------------------------------------
(* Properties.                                                             *)

\* No interleaving of register, unregister and push of any number of streams
\* of one worker sends on a closed channel or closes a channel twice: the
\* server process does not panic (hub.go).
NoPanic == ~panicked

\* The hub routes a worker's pushes to an open channel of a stream of that
\* very worker whose handler has not returned; the late unregister of a
\* replaced stream never removes or diverts the entry of its successor.
Routable == {"greeting", "serving", "leaving"}
RoutedToLiveStream ==
    \A w \in Workers : hub[w] # None =>
        /\ of[hub[w]] = w
        /\ ~closed[hub[w]]
        /\ pc[hub[w]] \in Routable

\* Whatever is dropped or lost, on one stream the worker receives a prefix of
\* what push accepted for it, in the order accepted: a stop command never
\* overtakes the jobs pushed before it.
StreamFIFO == \A s \in Streams : IsPrefix(got[s], acc[s])

\* A stream whose transport broke, or that a newer stream of the same worker
\* replaced, ends: its handler returns and gives up its hub entry.
DeadStreamEnds ==
    \A s \in Streams :
        (/\ pc[s] \in {"greeting", "serving"}
         /\ link[s] = "broken" \/ hub[of[s]] # s)
            ~> pc[s] = "returned"

\* The receiving goroutine does not outlive its handler for ever, whichever
\* way the handler left its loop.
ReceiverEnds ==
    \A s \in Streams : pc[s] = "returned" ~> recv[s] # "looping"

-----------------------------------------------------------------------------
(* The stream implements the link that the dispatcher relies on.           *)

StreamsOf(w) == {s \in Streams : of[s] = w}

LinkUp == [w \in Workers |-> hub[w] # None]
LinkInflight ==
    [w \in Workers |-> UNION {Range(buf[s]) \cup Range(wire[s]) : s \in StreamsOf(w)}]
LinkReceived == [w \in Workers |-> UNION {Range(got[s]) : s \in StreamsOf(w)}]

L == INSTANCE Link WITH up <- LinkUp, inflight <- LinkInflight, received <- LinkReceived

\* Every step of the streams is a step of Link or invisible to it: an envelope
\* reaches only the worker it was pushed for, at most once, and is never
\* invented.
ImplementsLink == L!Spec
=============================================================================
