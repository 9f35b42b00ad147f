-------------------------------- MODULE Link --------------------------------
(***************************************************************************)
(* What the job dispatcher may rely on when it pushes to a worker.         *)
(*                                                                         *)
(* A push is a message handed to the worker stream hub once.  The link     *)
(* accepts it or drops it; an accepted push is handed to the worker at     *)
(* most once, or lost when the stream goes down.  The hub gives nothing    *)
(* stronger: its caller gets a Boolean from an in-memory channel, no       *)
(* acknowledgement from the worker.                                        *)
(*                                                                         *)
(* WorkerStream implements this specification; JobDispatch is built on its *)
(* actions.                                                                *)
(***************************************************************************)
CONSTANTS
    Workers,    \* worker IDs
    Msgs        \* the pushes of a behaviour, each one distinct

VARIABLES
    up,         \* up[w]: the hub routes pushes for w to some stream
    inflight,   \* inflight[w]: pushes accepted for w and not yet received
    received    \* received[w]: pushes that w has received

linkVars == <<up, inflight, received>>

LinkTypeOK ==
    /\ up \in [Workers -> BOOLEAN]
    /\ inflight \in [Workers -> SUBSET Msgs]
    /\ received \in [Workers -> SUBSET Msgs]

Init ==
    /\ up = [w \in Workers |-> FALSE]
    /\ inflight = [w \in Workers |-> {}]
    /\ received = [w \in Workers |-> {}]

\* No worker holds or has held push m: it is a new one.
Fresh(m) == \A w \in Workers : m \notin inflight[w] \cup received[w]

\* A stream of worker w is registered (possibly in place of an older one).
Connect(w) ==
    /\ up' = [up EXCEPT ![w] = TRUE]
    /\ UNCHANGED <<inflight, received>>

\* Push m for worker w: accepted only if the hub has a stream, and even then
\* it may be dropped (full buffer).
Accept(w, m) ==
    /\ up[w]
    /\ Fresh(m)
    /\ inflight' = [inflight EXCEPT ![w] = @ \cup {m}]
    /\ UNCHANGED <<up, received>>

Drop(w, m) ==
    UNCHANGED linkVars

Push(w, m) == Accept(w, m) \/ Drop(w, m)

\* Worker w receives an accepted push.
Deliver(w, m) ==
    /\ m \in inflight[w]
    /\ inflight' = [inflight EXCEPT ![w] = @ \ {m}]
    /\ received' = [received EXCEPT ![w] = @ \cup {m}]
    /\ UNCHANGED up

\* Accepted pushes are lost with the stream that carried them.
Lose(w, lost) ==
    /\ inflight' = [inflight EXCEPT ![w] = @ \ lost]
    /\ UNCHANGED <<up, received>>

\* The stream the hub routes to is unregistered; what it carried may be lost.
Disconnect(w, lost) ==
    /\ up' = [up EXCEPT ![w] = FALSE]
    /\ inflight' = [inflight EXCEPT ![w] = @ \ lost]
    /\ UNCHANGED received

Next ==
    \E w \in Workers :
        \/ Connect(w)
        \/ \E m \in Msgs : Push(w, m) \/ Deliver(w, m)
        \/ \E lost \in SUBSET Msgs : Lose(w, lost) \/ Disconnect(w, lost)

Spec == Init /\ [][Next]_linkVars
=============================================================================
