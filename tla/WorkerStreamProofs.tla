------------------------- MODULE WorkerStreamProofs -------------------------
(***************************************************************************)
(* Invariants of WorkerStream for any number of workers, streams and       *)
(* envelopes and any channel capacity.                                     *)
(***************************************************************************)
EXTENDS WorkerStream, TLAPS

\* A stream knows its worker from the answer of RegisterWorker on.
OwnerInv == \A s \in Streams : pc[s] \in {"joining"} \cup Routable => of[s] \in Workers

\* A channel cannot have been closed before the hub knew it.
OpenInv == \A s \in Streams : pc[s] \in {"none", "accepted", "joining"} => ~closed[s]

HubInv == TypeOK /\ NoPanic /\ RoutedToLiveStream /\ OwnerInv /\ OpenInv

\* The invariant holds initially.
LEMMA InitHubInv == Init => HubInv
<1> SUFFICES ASSUME Init PROVE HubInv
  OBVIOUS
<1>1. TypeOK
  <2>1. <<>> \in Seq(Msgs)
    OBVIOUS
  <2> QED BY <2>1 DEF Init, TypeOK, PCs
<1>2. NoPanic /\ RoutedToLiveStream /\ OwnerInv /\ OpenInv
  BY DEF Init, NoPanic, RoutedToLiveStream, OwnerInv, OpenInv, Routable
<1> QED BY <1>1, <1>2 DEF HubInv

\* A stream joins the hub: it is open and not in the map, and the stream it
\* replaces is open, so closing that one is safe and leaves all other entries
\* alone, because they belong to other workers.
LEMMA JoinHubPreserves ==
    ASSUME HubInv, NEW s \in Streams, JoinHub(s)
    PROVE  HubInv'
<1> DEFINE w == of[s]
           old == hub[w]
<1>0. TypeOK /\ w \in Workers /\ ~closed[s] /\ pc[s] = "joining" /\ s # None /\ old \in Streams \cup {None}
  BY NoneAssumption DEF HubInv, OwnerInv, OpenInv, JoinHub, TypeOK
<1>1. old # None => old # s /\ ~closed[old] /\ of[old] = w /\ old \in Streams
  BY <1>0 DEF HubInv, RoutedToLiveStream, Routable
<1>2. /\ hub' = [hub EXCEPT ![w] = s]
      /\ pc' = [pc EXCEPT ![s] = "greeting"]
      /\ closed' = IF old # None THEN [closed EXCEPT ![old] = TRUE] ELSE closed
      /\ ~panicked'
      /\ of' = of
  BY <1>1 DEF JoinHub, HubRegister, Close, HubInv, NoPanic, TypeOK
<1>3. TypeOK'
  <2>1. hub' \in [Workers -> Streams \cup {None}] /\ closed' \in [Streams -> BOOLEAN] /\ pc' \in [Streams -> PCs]
        /\ panicked' \in BOOLEAN
    BY <1>0, <1>1, <1>2 DEF TypeOK, PCs, JoinHub, HubRegister, Close
  <2> QED BY <1>0, <2>1 DEF TypeOK, JoinHub, HubRegister, history
<1>4. RoutedToLiveStream'
  <2> SUFFICES ASSUME NEW v \in Workers, hub'[v] # None
               PROVE  of'[hub'[v]] = v /\ ~closed'[hub'[v]] /\ pc'[hub'[v]] \in Routable
    BY DEF RoutedToLiveStream
  <2>1. CASE v = w
    BY <1>0, <1>1, <1>2, <2>1 DEF TypeOK, Routable
  <2>2. CASE v # w
    <3>1. hub'[v] = hub[v] /\ hub[v] \in Streams /\ of[hub[v]] = v /\ ~closed[hub[v]] /\ pc[hub[v]] \in Routable
      BY <1>0, <1>2, <2>2 DEF TypeOK, HubInv, RoutedToLiveStream
    <3>2. hub[v] # s /\ hub[v] # old
      BY <1>0, <1>1, <2>2, <3>1 DEF Routable
    <3> QED BY <1>0, <1>2, <3>1, <3>2 DEF TypeOK
  <2> QED BY <2>1, <2>2
<1>5. OwnerInv'
  BY <1>0, <1>2 DEF HubInv, OwnerInv, TypeOK, Routable
<1>6. OpenInv'
  <2> SUFFICES ASSUME NEW t \in Streams, pc'[t] \in {"none", "accepted", "joining"} PROVE ~closed'[t]
    BY DEF OpenInv
  <2>1. t # s /\ pc[t] \in {"none", "accepted", "joining"} /\ ~closed[t]
    BY <1>0, <1>2 DEF TypeOK, HubInv, OpenInv
  <2>2. t # old
    BY <1>0, <2>1, NoneAssumption DEF HubInv, RoutedToLiveStream, Routable
  <2> QED BY <1>0, <1>2, <2>1, <2>2 DEF TypeOK
<1> QED BY <1>2, <1>3, <1>4, <1>5, <1>6 DEF HubInv, NoPanic

\* A handler returns: either the map still points to its open channel, and
\* both go together, or it points elsewhere and nothing is touched.
LEMMA ReturnPreserves ==
    ASSUME HubInv, NEW s \in Streams, Return(s)
    PROVE  HubInv'
<1> DEFINE w == of[s]
<1>0. TypeOK /\ w \in Workers /\ pc[s] = "leaving" /\ s # None
  BY NoneAssumption DEF HubInv, OwnerInv, Return, Routable
<1>1. pc' = [pc EXCEPT ![s] = "returned"] /\ of' = of
  BY DEF Return
<1>2. CASE hub[w] = s
  <2>1. ~closed[s]
    BY <1>0, <1>2 DEF HubInv, RoutedToLiveStream
  <2>2. hub' = [hub EXCEPT ![w] = None] /\ closed' = [closed EXCEPT ![s] = TRUE] /\ ~panicked'
    BY <1>2, <2>1 DEF Return, HubUnregister, Close, HubInv, NoPanic
  <2>3. TypeOK'
    <3>1. buf' \in [Streams -> Seq(Msgs)] /\ panicked' \in BOOLEAN
      BY <1>0, <1>2 DEF TypeOK, Return, HubUnregister, Close
    <3> QED BY <1>0, <1>1, <2>2, <3>1 DEF TypeOK, PCs, Return, history
  <2>4. RoutedToLiveStream'
    <3> SUFFICES ASSUME NEW v \in Workers, hub'[v] # None
                 PROVE  of'[hub'[v]] = v /\ ~closed'[hub'[v]] /\ pc'[hub'[v]] \in Routable
      BY DEF RoutedToLiveStream
    <3>1. v # w /\ hub'[v] = hub[v] /\ hub[v] \in Streams /\ of[hub[v]] = v /\ ~closed[hub[v]] /\ pc[hub[v]] \in Routable
      BY <1>0, <2>2 DEF TypeOK, HubInv, RoutedToLiveStream
    <3>2. hub[v] # s
      BY <3>1
    <3> QED BY <1>0, <1>1, <2>2, <3>1, <3>2 DEF TypeOK
  <2>5. OwnerInv' /\ OpenInv'
    BY <1>0, <1>1, <2>2 DEF HubInv, OwnerInv, OpenInv, TypeOK, Routable
  <2> QED BY <2>2, <2>3, <2>4, <2>5 DEF HubInv, NoPanic
<1>3. CASE hub[w] # s
  <2>1. UNCHANGED <<hub, closed, panicked>>
    BY <1>3 DEF Return, HubUnregister
  <2>2. TypeOK'
    <3>1. buf' \in [Streams -> Seq(Msgs)]
      BY <1>0 DEF TypeOK, Return, HubUnregister
    <3> QED BY <1>0, <1>1, <2>1, <3>1 DEF TypeOK, PCs, Return, history
  <2>3. \A v \in Workers : hub[v] # s
    BY <1>0, <1>3 DEF HubInv, RoutedToLiveStream
  <2>4. RoutedToLiveStream'
    BY <1>0, <1>1, <2>1, <2>3 DEF HubInv, RoutedToLiveStream, TypeOK
  <2>5. OwnerInv' /\ OpenInv'
    BY <1>0, <1>1, <2>1 DEF HubInv, OwnerInv, OpenInv, TypeOK, Routable
  <2> QED BY <2>1, <2>2, <2>4, <2>5 DEF HubInv, NoPanic
<1> QED BY <1>2, <1>3

\* A push finds no channel or an open one.
LEMMA PushPreserves ==
    ASSUME HubInv, NEW w \in Workers, NEW m \in Msgs, HubPush(w, m)
    PROVE  HubInv'
<1> DEFINE s == hub[w]
<1>0. TypeOK /\ s \in Streams \cup {None} /\ (s # None => ~closed[s]) /\ ~panicked
  BY DEF HubInv, TypeOK, RoutedToLiveStream, NoPanic
<1>1. ~panicked' /\ panicked' \in BOOLEAN
  BY <1>0 DEF HubPush
<1>2. buf' \in [Streams -> Seq(Msgs)] /\ acc' \in [Streams -> Seq(Msgs)] /\ pushed' \in SUBSET Msgs
  <2>1. pushed' \in SUBSET Msgs
    BY <1>0 DEF HubPush, TypeOK
  <2>2. CASE UNCHANGED <<buf, acc>>
    BY <1>0, <2>1, <2>2 DEF TypeOK
  <2>3. CASE s # None /\ buf' = [buf EXCEPT ![s] = Append(buf[s], m)] /\ acc' = [acc EXCEPT ![s] = Append(acc[s], m)]
    <3>1. s \in Streams /\ Append(buf[s], m) \in Seq(Msgs) /\ Append(acc[s], m) \in Seq(Msgs)
      BY <1>0, <2>3 DEF TypeOK
    <3> QED BY <1>0, <2>1, <2>3, <3>1 DEF TypeOK
  <2> QED BY <2>1, <2>2, <2>3 DEF HubPush
<1>3. UNCHANGED <<hub, closed, of, pc, recv, link, wire, got>>
  BY DEF HubPush
<1> QED BY <1>0, <1>1, <1>2, <1>3 DEF HubInv, TypeOK, NoPanic, RoutedToLiveStream, OwnerInv, OpenInv

\* Every other step of a stream: the hub and the channels' closing are
\* untouched, and a routable handler stays routable.
LEMMA StreamPreserves ==
    ASSUME HubInv, NEW s \in Streams,
           \/ Greet(s) \/ Forward(s) \/ LeaveLoop(s) \/ ReceiveFailed(s)
           \/ Accept(s) \/ Refuse(s) \/ ReceiveRefused(s) \/ WorkerRecv(s) \/ Break(s)
           \/ \E w \in Workers : RegisterWorker(s, w)
    PROVE  HubInv'
<1>0. TypeOK
  BY DEF HubInv
<1>1. UNCHANGED <<hub, closed, panicked>>
  BY DEF Greet, Forward, LeaveLoop, ReceiveFailed, Accept, Refuse, ReceiveRefused, WorkerRecv, Break,
     RegisterWorker, chanVars
<1>2. CASE \E w \in Workers : RegisterWorker(s, w)
  <2>1. PICK w \in Workers : RegisterWorker(s, w)
    BY <1>2
  <2>2. TypeOK' /\ pc' = [pc EXCEPT ![s] = "joining"] /\ of' = [of EXCEPT ![s] = w] /\ pc[s] = "accepted"
    BY <1>0, <2>1 DEF TypeOK, RegisterWorker, PCs, chanVars, history
  <2>3. RoutedToLiveStream' /\ OwnerInv' /\ OpenInv'
    BY <1>0, <1>1, <2>2 DEF HubInv, TypeOK, RoutedToLiveStream, OwnerInv, OpenInv, Routable
  <2> QED BY <1>1, <2>2, <2>3 DEF HubInv, NoPanic
<1>3. CASE \/ Greet(s) \/ Forward(s) \/ LeaveLoop(s) \/ ReceiveFailed(s)
           \/ Accept(s) \/ Refuse(s) \/ ReceiveRefused(s) \/ WorkerRecv(s) \/ Break(s)
  <2>1. of' = of
    BY <1>3 DEF Greet, Forward, LeaveLoop, ReceiveFailed, Accept, Refuse, ReceiveRefused, WorkerRecv, Break
  <2>2. \E step \in PCs :
            /\ pc' = [pc EXCEPT ![s] = step]
            /\ pc[s] \in Routable <=> step \in Routable
            /\ step = "joining" <=> pc[s] = "joining"
            /\ step \in {"none", "accepted"} => pc[s] \in {"none", "accepted"}
    <3>1. CASE UNCHANGED pc
      BY <1>0, <3>1 DEF TypeOK
    <3>2. CASE ~UNCHANGED pc
      BY <1>0, <1>3, <3>2 DEF TypeOK, PCs, Routable, Greet, Forward, LeaveLoop, ReceiveFailed, Accept, Refuse,
          ReceiveRefused, WorkerRecv, Break
    <3> QED BY <3>1, <3>2
  <2>3. TypeOK'
    <3>1. pc' \in [Streams -> PCs]
      BY <1>0, <2>2 DEF TypeOK
    <3>2. recv' \in [Streams -> {"off", "looping", "ended"}] /\ link' \in [Streams -> {"up", "broken"}]
      BY <1>0, <1>3 DEF TypeOK, Greet, Forward, LeaveLoop, ReceiveFailed, Accept, Refuse, ReceiveRefused,
          WorkerRecv, Break
    <3>3. buf' \in [Streams -> Seq(Msgs)] /\ wire' \in [Streams -> Seq(Msgs)] /\ got' \in [Streams -> Seq(Msgs)]
      <4>1. CASE Forward(s)
        <5>1. Tail(buf[s]) \in Seq(Msgs) /\ Append(wire[s], Head(buf[s])) \in Seq(Msgs)
          <6>1. buf[s] \in Seq(Msgs) /\ buf[s] # <<>> /\ wire[s] \in Seq(Msgs)
            BY <1>0, <4>1 DEF TypeOK, Forward
          <6>2. Head(buf[s]) \in Msgs /\ Tail(buf[s]) \in Seq(Msgs)
            BY <6>1
          <6> QED BY <6>1, <6>2
        <5>2. got' = got /\ buf' = [buf EXCEPT ![s] = Tail(buf[s])]
              /\ (wire' = wire \/ wire' = [wire EXCEPT ![s] = Append(wire[s], Head(buf[s]))])
          BY <4>1 DEF Forward, history
        <5> QED BY <1>0, <5>1, <5>2 DEF TypeOK
      <4>2. CASE WorkerRecv(s)
        <5>1. Tail(wire[s]) \in Seq(Msgs) /\ Append(got[s], Head(wire[s])) \in Seq(Msgs)
          <6>1. wire[s] \in Seq(Msgs) /\ wire[s] # <<>> /\ got[s] \in Seq(Msgs)
            BY <1>0, <4>2 DEF TypeOK, WorkerRecv
          <6>2. Head(wire[s]) \in Msgs /\ Tail(wire[s]) \in Seq(Msgs)
            BY <6>1
          <6> QED BY <6>1, <6>2
        <5>2. buf' = buf /\ wire' = [wire EXCEPT ![s] = Tail(wire[s])]
              /\ got' = [got EXCEPT ![s] = Append(got[s], Head(wire[s]))]
          BY <4>2 DEF WorkerRecv, chanVars
        <5> QED BY <1>0, <5>1, <5>2 DEF TypeOK
      <4>3. CASE Break(s)
        <5>1. <<>> \in Seq(Msgs)
          OBVIOUS
        <5>2. buf' = buf /\ got' = got /\ wire' = [wire EXCEPT ![s] = <<>>]
          BY <4>3 DEF Break, chanVars, history
        <5> QED BY <1>0, <5>1, <5>2 DEF TypeOK
      <4>4. CASE UNCHANGED <<buf, wire, got>>
        BY <1>0, <4>4 DEF TypeOK
      <4> QED BY <1>3, <4>1, <4>2, <4>3, <4>4 DEF Greet, LeaveLoop, ReceiveFailed, Accept, Refuse, ReceiveRefused,
            chanVars, history
    <3>4. UNCHANGED <<pushed, acc>>
      BY <1>3 DEF Greet, Forward, LeaveLoop, ReceiveFailed, Accept, Refuse, ReceiveRefused,
          WorkerRecv, Break, history
    <3> QED BY <1>0, <1>1, <2>1, <3>1, <3>2, <3>3, <3>4 DEF TypeOK
  <2>4. RoutedToLiveStream' /\ OwnerInv' /\ OpenInv'
    BY <1>0, <1>1, <2>1, <2>2 DEF HubInv, TypeOK, RoutedToLiveStream, OwnerInv, OpenInv
  <2> QED BY <1>1, <2>3, <2>4 DEF HubInv, NoPanic
<1> QED BY <1>2, <1>3

\* The invariant is inductive.
THEOREM HubInvariance == Spec => []HubInv
<1>1. HubInv /\ [Next]_vars => HubInv'
  <2> SUFFICES ASSUME HubInv, [Next]_vars PROVE HubInv'
    OBVIOUS
  <2>1. ASSUME NEW s \in Streams,
               \/ Handler(s) \/ Accept(s) \/ Refuse(s) \/ ReceiveRefused(s) \/ WorkerRecv(s) \/ Break(s)
               \/ \E w \in Workers : RegisterWorker(s, w)
        PROVE  HubInv'
    BY <2>1, JoinHubPreserves, ReturnPreserves, StreamPreserves DEF Handler
  <2>2. ASSUME NEW w \in Workers, NEW m \in Msgs, HubPush(w, m) PROVE HubInv'
    BY <2>2, PushPreserves
  <2>3. CASE UNCHANGED vars
    BY <2>3 DEF vars, HubInv, TypeOK, NoPanic, RoutedToLiveStream, OwnerInv, OpenInv
  <2> QED BY <2>1, <2>2, <2>3 DEF Next
<1> QED BY <1>1, InitHubInv, PTL DEF Spec

\* However many streams of one worker come, go and replace each other, the hub
\* never sends on a closed channel and never closes one twice.
THEOREM NoPanicHolds == Spec => []NoPanic
<1>1. HubInv => NoPanic
  BY DEF HubInv
<1> QED BY <1>1, HubInvariance, PTL

\* The hub routes pushes only to an open channel of a live stream of the
\* worker they are for.
THEOREM RoutedToLiveStreamHolds == Spec => []RoutedToLiveStream
<1>1. HubInv => RoutedToLiveStream
  BY DEF HubInv
<1> QED BY <1>1, HubInvariance, PTL

\* The state of hub and streams keeps its type.
THEOREM StreamTypeCorrect == Spec => []TypeOK
<1>1. HubInv => TypeOK
  BY DEF HubInv
<1> QED BY <1>1, HubInvariance, PTL

-----------------------------------------------------------------------------
(* What the worker receives, and in which order.                           *)

\* What a stream has taken in (a) sits in three places one after the other: the
\* worker has a beginning of it (g), the wire carries what follows (w), and the
\* channel holds its end (b).
Placed(g, w, b, a) ==
    /\ Len(g) + Len(w) + Len(b) <= Len(a)
    /\ \A i \in 1..Len(g) : g[i] = a[i]
    /\ \A i \in 1..Len(w) : w[i] = a[Len(g) + i]
    /\ \A i \in 1..Len(b) : b[i] = a[Len(a) - Len(b) + i]

\* Nothing is missing in between.
Gapless(g, w, b, a) == Len(g) + Len(w) + Len(b) = Len(a)

OrderInv ==
    \A s \in Streams :
        /\ Placed(got[s], wire[s], buf[s], acc[s])
        /\ link[s] = "up" /\ pc[s] # "returned" => Gapless(got[s], wire[s], buf[s], acc[s])
        /\ link[s] = "broken" => wire[s] = <<>>

\* An envelope is taken in once, by one stream.
OnceInv ==
    /\ \A s \in Streams : \A i \in 1..Len(acc[s]) : acc[s][i] \in pushed
    /\ \A s, t \in Streams : \A i \in 1..Len(acc[s]) : \A k \in 1..Len(acc[t]) :
            acc[s][i] = acc[t][k] => s = t /\ i = k

\* A stream takes nothing in before it is in the hub, which needs a worker.
EmptyInv ==
    \A s \in Streams : pc[s] \in {"none", "accepted", "joining"} \/ of[s] = None => Len(acc[s]) = 0

FlowInv == HubInv /\ OrderInv /\ OnceInv /\ EmptyInv

\* The invariant holds initially.
LEMMA InitFlowInv == Init => FlowInv
<1> SUFFICES ASSUME Init PROVE FlowInv
  OBVIOUS
<1>1. OrderInv /\ OnceInv /\ EmptyInv
  BY DEF Init, OrderInv, OnceInv, EmptyInv, Placed, Gapless
<1> QED BY <1>1, InitHubInv DEF FlowInv

\* Arithmetic.
LEMMA Sums ==
    \A a, b, c, d \in Nat : a + b + c <= d => a <= d /\ a + b <= d
  OBVIOUS

\* A new envelope goes to the end of the channel.
LEMMA PlacedPush ==
    ASSUME NEW T, NEW g \in Seq(T), NEW w \in Seq(T), NEW b \in Seq(T), NEW a \in Seq(T), NEW m \in T,
           Placed(g, w, b, a)
    PROVE  /\ Placed(g, w, Append(b, m), Append(a, m))
           /\ Gapless(g, w, b, a) => Gapless(g, w, Append(b, m), Append(a, m))
<1> DEFINE c == Append(b, m)
           d == Append(a, m)
<1>0. /\ Len(c) = Len(b) + 1 /\ Len(d) = Len(a) + 1 /\ Len(b) \in Nat /\ Len(a) \in Nat
      /\ Len(g) \in Nat /\ Len(w) \in Nat
  OBVIOUS
<1>1. /\ \A i \in 1..Len(b) : c[i] = b[i]
      /\ \A i \in 1..Len(a) : d[i] = a[i]
      /\ c[Len(b) + 1] = m /\ d[Len(a) + 1] = m
  OBVIOUS
<1> HIDE DEF c, d
<1>2. Len(g) + Len(w) + Len(b) <= Len(a)
  BY DEF Placed
<1>2a. Len(g) + Len(w) + Len(c) <= Len(d)
  BY <1>0, <1>2
<1>3. \A i \in 1..Len(g) : g[i] = d[i]
  BY <1>0, <1>1, <1>2 DEF Placed
<1>4. ASSUME NEW i \in 1..Len(w) PROVE w[i] = d[Len(g) + i]
  <2>1. Len(g) + Len(w) <= Len(a)
    BY <1>0, <1>2, Sums
  <2>2. Len(g) + i \in 1..Len(a)
    BY <1>0, <2>1
  <2> QED BY <1>1, <2>2 DEF Placed
<1>5. ASSUME NEW i \in 1..Len(c) PROVE c[i] = d[Len(d) - Len(c) + i]
  <2>1. CASE i = Len(b) + 1
    BY <1>0, <1>1, <2>1
  <2>2. CASE i \in 1..Len(b)
    <3>1. Len(d) - Len(c) + i = Len(a) - Len(b) + i /\ Len(a) - Len(b) + i \in 1..Len(a)
      BY <1>0, <1>2, <2>2
    <3> QED BY <1>1, <2>2, <3>1 DEF Placed
  <2> QED BY <1>0, <2>1, <2>2
<1>6. ASSUME Gapless(g, w, b, a) PROVE Gapless(g, w, c, d)
  <2>1. Len(g) + Len(w) + Len(b) = Len(a)
    BY <1>6 DEF Gapless
  <2>2. Len(g) + Len(w) + (Len(b) + 1) = Len(a) + 1
    <3> DEFINE p == Len(g)  q == Len(w)  r == Len(b)  n == Len(a)
    <3>1. p \in Nat /\ q \in Nat /\ r \in Nat /\ n \in Nat /\ p + q + r = n
      BY <1>0, <2>1
    <3> HIDE DEF p, q, r, n
    <3>2. p + q + (r + 1) = n + 1
      BY <3>1
    <3> QED BY <3>2 DEF p, q, r, n
  <2> QED BY <1>0, <2>2 DEF Gapless
<1> QED BY <1>2a, <1>3, <1>4, <1>5, <1>6 DEF Placed, c, d

\* Without a gap, the oldest envelope of the channel follows those on the wire.
LEMMA PlacedForward ==
    ASSUME NEW T, NEW g \in Seq(T), NEW w \in Seq(T), NEW b \in Seq(T), NEW a \in Seq(T), b # <<>>,
           Placed(g, w, b, a)
    PROVE  /\ Placed(g, w, Tail(b), a)
           /\ Gapless(g, w, b, a) => /\ Placed(g, Append(w, Head(b)), Tail(b), a)
                                     /\ Gapless(g, Append(w, Head(b)), Tail(b), a)
<1> DEFINE c == Tail(b)
           v == Append(w, Head(b))
<1>0. /\ Len(c) = Len(b) - 1 /\ Len(b) \in Nat \ {0} /\ Len(a) \in Nat /\ Len(g) \in Nat /\ Len(w) \in Nat
      /\ Len(v) = Len(w) + 1
  OBVIOUS
<1>1. /\ \A i \in 1..(Len(b) - 1) : c[i] = b[i + 1]
      /\ \A i \in 1..Len(w) : v[i] = w[i]
      /\ v[Len(w) + 1] = b[1]
  OBVIOUS
<1> HIDE DEF c, v
<1>2. \A i \in 1..Len(c) : c[i] = a[Len(a) - Len(c) + i]
  <2> TAKE i \in 1..Len(c)
  <2>1. i + 1 \in 1..Len(b) /\ c[i] = b[i + 1] /\ Len(a) - Len(c) + i = Len(a) - Len(b) + (i + 1)
    BY <1>0, <1>1
  <2> QED BY <2>1 DEF Placed
<1>3. Placed(g, w, c, a)
  <2>1. Len(g) + Len(w) + Len(b) <= Len(a)
    BY DEF Placed
  <2>2. Len(g) + Len(w) + Len(c) <= Len(a)
    BY <1>0, <2>1
  <2> QED BY <1>2, <2>2 DEF Placed
<1>4. ASSUME Gapless(g, w, b, a) PROVE Placed(g, v, c, a) /\ Gapless(g, v, c, a)
  <2>1. Len(g) + Len(v) + Len(c) = Len(a) /\ Len(g) + Len(v) + Len(c) <= Len(a)
    BY <1>0, <1>4 DEF Gapless
  <2>2. \A i \in 1..Len(v) : v[i] = a[Len(g) + i]
    <3> TAKE i \in 1..Len(v)
    <3>1. CASE i \in 1..Len(w)
      BY <1>1, <3>1 DEF Placed
    <3>2. CASE i = Len(w) + 1
      <4>1. b[1] = a[Len(a) - Len(b) + 1]
        BY <1>0 DEF Placed
      <4>2. Len(a) - Len(b) + 1 = Len(g) + i
        <5>1. Len(g) + Len(w) + Len(b) = Len(a)
          BY <1>4 DEF Gapless
        <5>2. Len(a) - Len(b) + 1 = Len(g) + (Len(w) + 1)
          <6> DEFINE p == Len(g)  q == Len(w)  r == Len(b)  n == Len(a)
          <6>1. p \in Nat /\ q \in Nat /\ r \in Nat /\ n \in Nat /\ p + q + r = n
            BY <1>0, <5>1
          <6> HIDE DEF p, q, r, n
          <6>2. n - r + 1 = p + (q + 1)
            BY <6>1
          <6> QED BY <6>2 DEF p, q, r, n
        <5> QED BY <3>2, <5>2
      <4> QED BY <1>1, <3>2, <4>1, <4>2
    <3> QED BY <1>0, <3>1, <3>2
  <2> QED BY <1>2, <2>1, <2>2 DEF Placed, Gapless
<1> QED BY <1>3, <1>4 DEF c, v

\* The first envelope on the wire follows those the worker has.
LEMMA PlacedReceive ==
    ASSUME NEW T, NEW g \in Seq(T), NEW w \in Seq(T), NEW b \in Seq(T), NEW a \in Seq(T), w # <<>>,
           Placed(g, w, b, a)
    PROVE  /\ Placed(Append(g, Head(w)), Tail(w), b, a)
           /\ Gapless(g, w, b, a) => Gapless(Append(g, Head(w)), Tail(w), b, a)
<1> DEFINE h == Append(g, Head(w))
           v == Tail(w)
<1>0. /\ Len(v) = Len(w) - 1 /\ Len(w) \in Nat \ {0} /\ Len(a) \in Nat /\ Len(g) \in Nat /\ Len(b) \in Nat
      /\ Len(h) = Len(g) + 1
  OBVIOUS
<1>1. /\ \A i \in 1..(Len(w) - 1) : v[i] = w[i + 1]
      /\ \A i \in 1..Len(g) : h[i] = g[i]
      /\ h[Len(g) + 1] = w[1]
  OBVIOUS
<1> HIDE DEF h, v
<1>2. Len(h) + Len(v) + Len(b) = Len(g) + Len(w) + Len(b)
  BY <1>0
<1>3. ASSUME NEW i \in 1..Len(h) PROVE h[i] = a[i]
  <2>1. w[1] = a[Len(g) + 1]
    BY <1>0 DEF Placed
  <2>2. CASE i \in 1..Len(g)
    BY <1>1, <2>2 DEF Placed
  <2>3. CASE i = Len(g) + 1
    BY <1>1, <2>1, <2>3
  <2> QED BY <1>0, <2>2, <2>3
<1>4. \A i \in 1..Len(v) : v[i] = a[Len(h) + i]
  <2> TAKE i \in 1..Len(v)
  <2>1. i + 1 \in 1..Len(w) /\ v[i] = w[i + 1] /\ Len(h) + i = Len(g) + (i + 1)
    BY <1>0, <1>1
  <2> QED BY <2>1 DEF Placed
<1> QED BY <1>2, <1>3, <1>4 DEF Placed, Gapless, h, v

\* The wire, or the channel, is emptied.
LEMMA PlacedLoss ==
    ASSUME NEW T, NEW g \in Seq(T), NEW w \in Seq(T), NEW b \in Seq(T), NEW a \in Seq(T),
           Placed(g, w, b, a)
    PROVE  Placed(g, <<>>, b, a) /\ Placed(g, w, <<>>, a)
<1>1. Len(a) \in Nat /\ Len(g) \in Nat /\ Len(b) \in Nat /\ Len(w) \in Nat
  OBVIOUS
<1> DEFINE none == <<>>
<1>2. Len(none) = 0
  OBVIOUS
<1> HIDE DEF none
<1>3. Len(g) + Len(w) + Len(b) <= Len(a)
  BY DEF Placed
<1>4. Len(g) + Len(none) + Len(b) <= Len(a) /\ Len(g) + Len(w) + Len(none) <= Len(a)
  BY <1>1, <1>2, <1>3
<1>5. \A i \in 1..Len(none) : FALSE
  BY <1>2
<1>6. Placed(g, none, b, a) /\ Placed(g, w, none, a)
  BY <1>4, <1>5 DEF Placed
<1> QED BY <1>6 DEF none

\* A push goes to the end of the channel and of the history, or nowhere.
LEMMA PushFlows ==
    ASSUME FlowInv, NEW w \in Workers, NEW m \in Msgs, HubPush(w, m)
    PROVE  OrderInv' /\ OnceInv' /\ EmptyInv'
<1> DEFINE s == hub[w]
<1>0. /\ TypeOK /\ m \notin pushed /\ pushed' = pushed \cup {m}
      /\ UNCHANGED <<hub, of, pc, link, wire, got>>
  BY DEF FlowInv, HubInv, HubPush
<1>1. CASE UNCHANGED <<buf, acc>>
  <2>1. OrderInv' /\ EmptyInv'
    BY <1>0, <1>1 DEF FlowInv, OrderInv, EmptyInv
  <2>2. OnceInv'
    BY <1>0, <1>1 DEF FlowInv, OnceInv
  <2> QED BY <2>1, <2>2
<1>2. CASE /\ s # None
           /\ buf' = [buf EXCEPT ![s] = Append(buf[s], m)]
           /\ acc' = [acc EXCEPT ![s] = Append(acc[s], m)]
  <2>1. s \in Streams /\ pc[s] \in Routable /\ of[s] = w /\ w # None
    BY NoneAssumption, <1>0, <1>2 DEF FlowInv, HubInv, TypeOK, RoutedToLiveStream
  <2>2. /\ buf'[s] = Append(buf[s], m) /\ acc'[s] = Append(acc[s], m)
        /\ \A t \in Streams : t # s => buf'[t] = buf[t] /\ acc'[t] = acc[t]
        /\ \A t \in Streams : got[t] \in Seq(Msgs) /\ wire[t] \in Seq(Msgs) /\ buf[t] \in Seq(Msgs) /\ acc[t] \in Seq(Msgs)
    BY <1>0, <1>2, <2>1 DEF TypeOK
  <2>3. OrderInv'
    <3> SUFFICES ASSUME NEW t \in Streams
                 PROVE  /\ Placed(got[t], wire[t], buf'[t], acc'[t])
                        /\ link[t] = "up" /\ pc[t] # "returned" => Gapless(got[t], wire[t], buf'[t], acc'[t])
                        /\ link[t] = "broken" => wire[t] = <<>>
      BY <1>0 DEF OrderInv, Placed, Gapless
    <3>0. /\ Placed(got[t], wire[t], buf[t], acc[t])
          /\ link[t] = "up" /\ pc[t] # "returned" => Gapless(got[t], wire[t], buf[t], acc[t])
          /\ link[t] = "broken" => wire[t] = <<>>
      BY DEF FlowInv, OrderInv
    <3>1. CASE t # s
      BY <2>2, <3>0, <3>1
    <3>2. CASE t = s
      <4> DEFINE g == got[t]
                 v == wire[t]
                 b == buf[t]
                 a == acc[t]
      <4>1. g \in Seq(Msgs) /\ v \in Seq(Msgs) /\ b \in Seq(Msgs) /\ a \in Seq(Msgs)
            /\ buf'[t] = Append(b, m) /\ acc'[t] = Append(a, m)
        BY <2>2, <3>2
      <4> HIDE DEF g, v, b, a
      <4>2. /\ Placed(g, v, Append(b, m), Append(a, m))
            /\ Gapless(g, v, b, a) => Gapless(g, v, Append(b, m), Append(a, m))
        BY <3>0, <4>1, PlacedPush DEF g, v, b, a
      <4> QED BY <3>0, <4>1, <4>2 DEF g, v, b, a
    <3> QED BY <3>1, <3>2
  <2>4. /\ Len(acc'[s]) = Len(acc[s]) + 1 /\ Len(acc[s]) \in Nat /\ acc'[s][Len(acc[s]) + 1] = m
        /\ \A i \in 1..Len(acc[s]) : acc'[s][i] = acc[s][i]
    BY <2>1, <2>2
  <2>5. ASSUME NEW t \in Streams, NEW i \in 1..Len(acc'[t])
        PROVE  \/ i \in 1..Len(acc[t]) /\ acc'[t][i] = acc[t][i]
               \/ t = s /\ i = Len(acc[s]) + 1 /\ acc'[t][i] = m
    <3>1. CASE t # s
      BY <2>2, <3>1
    <3>2. CASE t = s
      BY <2>4, <3>2
    <3> QED BY <3>1, <3>2
  <2>6. OnceInv'
    <3>1. ASSUME NEW t \in Streams, NEW i \in 1..Len(acc'[t]) PROVE acc'[t][i] \in pushed'
      BY <1>0, <2>5 DEF FlowInv, OnceInv
    <3>2. ASSUME NEW t \in Streams, NEW u \in Streams, NEW i \in 1..Len(acc'[t]), NEW k \in 1..Len(acc'[u]),
                 acc'[t][i] = acc'[u][k]
          PROVE  t = u /\ i = k
      <4>1. \A v \in Streams : \A j \in 1..Len(acc[v]) : acc[v][j] # m
        BY <1>0 DEF FlowInv, OnceInv
      <4>2. \/ i \in 1..Len(acc[t]) /\ acc'[t][i] = acc[t][i]
            \/ t = s /\ i = Len(acc[s]) + 1 /\ acc'[t][i] = m
        BY <2>5
      <4>3. \/ k \in 1..Len(acc[u]) /\ acc'[u][k] = acc[u][k]
            \/ u = s /\ k = Len(acc[s]) + 1 /\ acc'[u][k] = m
        BY <2>5
      <4> QED BY <3>2, <4>1, <4>2, <4>3 DEF FlowInv, OnceInv
    <3> QED BY <3>1, <3>2 DEF OnceInv
  <2>7. EmptyInv'
    BY <1>0, <2>1, <2>2 DEF FlowInv, EmptyInv, Routable
  <2> QED BY <2>3, <2>6, <2>7
<1> QED BY <1>1, <1>2 DEF HubPush

\* The handler takes an envelope out of the channel, the worker takes one off
\* the wire, the transport breaks, or the channel becomes garbage.
LEMMA TransportFlows ==
    ASSUME FlowInv, NEW s \in Streams, Forward(s) \/ WorkerRecv(s) \/ Break(s) \/ Return(s)
    PROVE  OrderInv'
<1>0. /\ TypeOK /\ acc' = acc
      /\ \A t \in Streams : got[t] \in Seq(Msgs) /\ wire[t] \in Seq(Msgs) /\ buf[t] \in Seq(Msgs) /\ acc[t] \in Seq(Msgs)
  BY DEF FlowInv, HubInv, TypeOK, Forward, WorkerRecv, Break, Return, history
<1> SUFFICES ASSUME NEW t \in Streams
             PROVE  /\ Placed(got'[t], wire'[t], buf'[t], acc[t])
                    /\ link'[t] = "up" /\ pc'[t] # "returned" => Gapless(got'[t], wire'[t], buf'[t], acc[t])
                    /\ link'[t] = "broken" => wire'[t] = <<>>
  BY <1>0 DEF OrderInv, Placed, Gapless
<1>1. /\ Placed(got[t], wire[t], buf[t], acc[t])
      /\ link[t] = "up" /\ pc[t] # "returned" => Gapless(got[t], wire[t], buf[t], acc[t])
      /\ link[t] = "broken" => wire[t] = <<>>
  BY DEF FlowInv, OrderInv
<1>2. CASE t # s
  <2>1. got'[t] = got[t] /\ wire'[t] = wire[t] /\ buf'[t] = buf[t] /\ link'[t] = link[t] /\ pc'[t] = pc[t]
    BY <1>0, <1>2 DEF TypeOK, Forward, WorkerRecv, Break, Return, HubUnregister, history, chanVars
  <2> QED BY <1>1, <2>1
<1>3. CASE t = s /\ Forward(s)
  <2>1. /\ buf[t] # <<>> /\ buf'[t] = Tail(buf[t]) /\ got'[t] = got[t] /\ link'[t] = link[t] /\ pc[t] = "serving"
        /\ \/ link[t] = "up" /\ wire'[t] = Append(wire[t], Head(buf[t]))
           \/ link[t] = "broken" /\ wire'[t] = wire[t]
    BY <1>0, <1>3 DEF TypeOK, Forward, history
  <2> QED BY <1>0, <1>1, <2>1, PlacedForward
<1>4. CASE t = s /\ WorkerRecv(s)
  <2>1. /\ wire[t] # <<>> /\ buf'[t] = buf[t] /\ got'[t] = Append(got[t], Head(wire[t])) /\ wire'[t] = Tail(wire[t])
        /\ link'[t] = link[t] /\ pc'[t] = pc[t] /\ link[t] = "up"
    BY <1>0, <1>4 DEF TypeOK, WorkerRecv, chanVars
  <2> QED BY <1>0, <1>1, <2>1, PlacedReceive
<1>5. CASE t = s /\ Break(s)
  <2>1. wire'[t] = <<>> /\ buf'[t] = buf[t] /\ got'[t] = got[t] /\ link'[t] = "broken"
    BY <1>0, <1>5 DEF TypeOK, Break, chanVars, history
  <2> QED BY <1>0, <1>1, <2>1, PlacedLoss
<1>6. CASE t = s /\ Return(s)
  <2>1. wire'[t] = wire[t] /\ buf'[t] = <<>> /\ got'[t] = got[t] /\ link'[t] = link[t] /\ pc'[t] = "returned"
    BY <1>0, <1>6 DEF TypeOK, Return, HubUnregister, history
  <2> QED BY <1>0, <1>1, <2>1, PlacedLoss
<1> QED BY <1>2, <1>3, <1>4, <1>5, <1>6

\* The invariant is inductive.
THEOREM FlowInvariance == Spec => []FlowInv
<1>1. FlowInv /\ HubInv' /\ [Next]_vars => FlowInv'
  <2> SUFFICES ASSUME FlowInv, HubInv', [Next]_vars PROVE OrderInv' /\ OnceInv' /\ EmptyInv'
    BY DEF FlowInv
  <2>0. TypeOK
    BY DEF FlowInv, HubInv
  <2>1. ASSUME NEW s \in Streams,
               \/ Handler(s) \/ Accept(s) \/ Refuse(s) \/ ReceiveRefused(s) \/ WorkerRecv(s) \/ Break(s)
               \/ \E w \in Workers : RegisterWorker(s, w)
        PROVE  OrderInv' /\ OnceInv' /\ EmptyInv'
    <3>1. UNCHANGED <<acc, pushed>>
      BY <2>1 DEF Handler, JoinHub, Greet, Forward, LeaveLoop, Return, ReceiveFailed, Accept, Refuse,
          ReceiveRefused, WorkerRecv, Break, RegisterWorker, history
    <3>2. \A t \in Streams : pc'[t] \in {"none", "accepted", "joining"} => pc[t] \in {"none", "accepted", "joining"}
      BY <2>0, <2>1 DEF TypeOK, PCs, Handler, JoinHub, Greet, Forward, LeaveLoop, Return, ReceiveFailed, Accept,
          Refuse, ReceiveRefused, WorkerRecv, Break, RegisterWorker
    <3>2a. \A t \in Streams : of'[t] = None => of[t] = None \/ pc[t] = "accepted"
      BY <2>0, <2>1 DEF TypeOK, Handler, JoinHub, Greet, Forward, LeaveLoop, Return, ReceiveFailed, Accept,
          Refuse, ReceiveRefused, WorkerRecv, Break, RegisterWorker
    <3>3. OnceInv' /\ EmptyInv'
      BY <3>1, <3>2, <3>2a DEF FlowInv, OnceInv, EmptyInv
    <3>4. OrderInv'
      <4>1. CASE Forward(s) \/ WorkerRecv(s) \/ Break(s) \/ Return(s)
        BY <4>1, TransportFlows
      <4>2. CASE /\ UNCHANGED <<acc, got, wire, buf, link>>
                 /\ \A t \in Streams : pc'[t] # "returned" => pc[t] # "returned"
        BY <4>2 DEF FlowInv, OrderInv
      <4>3. CASE ~(Forward(s) \/ WorkerRecv(s) \/ Break(s) \/ Return(s))
        <5>1. UNCHANGED <<acc, got, wire, buf, link>>
          BY <2>1, <4>3 DEF Handler, JoinHub, HubRegister, Greet, LeaveLoop, ReceiveFailed, Accept, Refuse,
              ReceiveRefused, RegisterWorker, history, chanVars
        <5>2. \A t \in Streams : pc'[t] # "returned" => pc[t] # "returned"
          BY <2>0, <2>1, <4>3 DEF TypeOK, PCs, Handler, JoinHub, Greet, LeaveLoop, ReceiveFailed, Accept, Refuse,
              ReceiveRefused, RegisterWorker
        <5> QED BY <4>2, <5>1, <5>2
      <4> QED BY <4>1, <4>3
    <3> QED BY <3>3, <3>4
  <2>2. ASSUME NEW w \in Workers, NEW m \in Msgs, HubPush(w, m) PROVE OrderInv' /\ OnceInv' /\ EmptyInv'
    BY <2>2, PushFlows
  <2>3. CASE UNCHANGED vars
    <3>1. OrderInv' /\ EmptyInv'
      BY <2>3 DEF vars, FlowInv, OrderInv, EmptyInv
    <3>2. OnceInv'
      BY <2>3 DEF vars, FlowInv, OnceInv
    <3> QED BY <3>1, <3>2
  <2> QED BY <2>1, <2>2, <2>3 DEF Next
<1> QED BY <1>1, InitFlowInv, HubInvariance, PTL DEF Spec

\* On one stream the worker receives a prefix of what push accepted for it, in
\* the order of the pushes, whatever is dropped, lost or left behind.
THEOREM StreamFIFOHolds == Spec => []StreamFIFO
<1>1. FlowInv => StreamFIFO
  <2> SUFFICES ASSUME FlowInv, NEW s \in Streams PROVE IsPrefix(got[s], acc[s])
    BY DEF StreamFIFO
  <2>1. /\ got[s] \in Seq(Msgs) /\ acc[s] \in Seq(Msgs) /\ wire[s] \in Seq(Msgs) /\ buf[s] \in Seq(Msgs)
        /\ Len(got[s]) + Len(wire[s]) + Len(buf[s]) <= Len(acc[s])
        /\ \A i \in 1..Len(got[s]) : got[s][i] = acc[s][i]
    BY DEF FlowInv, HubInv, TypeOK, OrderInv, Placed
  <2>2. Len(got[s]) <= Len(acc[s]) /\ Len(got[s]) \in Nat
    <3>1. Len(got[s]) \in Nat /\ Len(wire[s]) \in Nat /\ Len(buf[s]) \in Nat /\ Len(acc[s]) \in Nat
      BY <2>1
    <3>2. Len(got[s]) + Len(wire[s]) + Len(buf[s]) <= Len(acc[s])
      BY <2>1
    <3> QED BY <3>1, <3>2, Sums
  <2>3. SubSeq(got[s], 1, Len(got[s])) = SubSeq(acc[s], 1, Len(got[s]))
    BY <2>1, <2>2
  <2> QED BY <2>2, <2>3 DEF IsPrefix
<1> QED BY <1>1, FlowInvariance, PTL

-----------------------------------------------------------------------------
(* The streams implement Link.                                             *)

\* What a sequence contains.
LEMMA RangeFacts ==
    ASSUME NEW T, NEW q \in Seq(T)
    PROVE  /\ Range(q) \subseteq T
           /\ Range(q) = {q[i] : i \in 1..Len(q)}
           /\ \A e \in T : Range(Append(q, e)) = Range(q) \cup {e}
           /\ q # <<>> => Range(q) = Range(Tail(q)) \cup {Head(q)}
<1>1. Range(q) = {q[i] : i \in 1..Len(q)} /\ Range(q) \subseteq T
  BY DEF Range
<1>2. ASSUME NEW e \in T PROVE Range(Append(q, e)) = Range(q) \cup {e}
  <2> DEFINE r == Append(q, e)
  <2>1. /\ Len(r) = Len(q) + 1 /\ Len(q) \in Nat /\ DOMAIN r = 1..Len(r) /\ DOMAIN q = 1..Len(q)
        /\ r[Len(q) + 1] = e /\ \A i \in 1..Len(q) : r[i] = q[i]
    OBVIOUS
  <2> HIDE DEF r
  <2> QED BY <2>1 DEF Range, r
<1>3. ASSUME q # <<>> PROVE Range(q) = Range(Tail(q)) \cup {Head(q)}
  <2> DEFINE r == Tail(q)
  <2>1. /\ Len(q) = Len(r) + 1 /\ Len(r) \in Nat /\ DOMAIN r = 1..Len(r) /\ DOMAIN q = 1..Len(q)
        /\ Head(q) = q[1] /\ \A i \in 1..Len(r) : r[i] = q[i + 1]
    BY <1>3
  <2> HIDE DEF r
  <2>2. ASSUME NEW i \in 1..Len(q) PROVE q[i] = Head(q) \/ q[i] \in Range(r)
    <3>1. CASE i = 1
      BY <2>1, <3>1
    <3>2. CASE i # 1
      <4>1. i - 1 \in 1..Len(r) /\ r[i - 1] = q[i]
        BY <2>1, <3>2
      <4> QED BY <2>1, <4>1 DEF Range
    <3> QED BY <3>1, <3>2
  <2>3. ASSUME NEW i \in 1..Len(r) PROVE r[i] \in Range(q)
    <3>1. i + 1 \in DOMAIN q
      BY <2>1
    <3> QED BY <2>1, <3>1 DEF Range
  <2>4. Head(q) \in Range(q)
    BY <2>1 DEF Range
  <2>5. Range(q) \subseteq Range(r) \cup {Head(q)}
    BY <2>1, <2>2 DEF Range
  <2>6. Range(r) \subseteq Range(q)
    BY <2>1, <2>3 DEF Range
  <2> QED BY <2>4, <2>5, <2>6 DEF r
<1> QED BY <1>1, <1>2, <1>3

\* What the three places hold has been taken in.
LEMMA PlacedRanges ==
    ASSUME NEW T, NEW g \in Seq(T), NEW w \in Seq(T), NEW b \in Seq(T), NEW a \in Seq(T),
           Placed(g, w, b, a)
    PROVE  Range(g) \subseteq Range(a) /\ Range(w) \subseteq Range(a) /\ Range(b) \subseteq Range(a)
<1> DEFINE p == Len(g)  q == Len(w)  r == Len(b)  n == Len(a)
<1>1. p \in Nat /\ q \in Nat /\ r \in Nat /\ n \in Nat /\ p + q + r <= n
  BY DEF Placed
<1>2. /\ \A i \in 1..p : g[i] = a[i]
      /\ \A i \in 1..q : w[i] = a[p + i]
      /\ \A i \in 1..r : b[i] = a[n - r + i]
  BY DEF Placed
<1>3. /\ Range(g) = {g[i] : i \in 1..p} /\ Range(w) = {w[i] : i \in 1..q}
      /\ Range(b) = {b[i] : i \in 1..r} /\ Range(a) = {a[i] : i \in 1..n}
  BY RangeFacts
<1> HIDE DEF p, q, r, n
<1>4. \A i \in 1..p : i \in 1..n
  BY <1>1
<1>5. \A i \in 1..q : p + i \in 1..n
  BY <1>1
<1>6. \A i \in 1..r : n - r + i \in 1..n
  BY <1>1
<1> QED BY <1>2, <1>3, <1>4, <1>5, <1>6

\* The first envelope on the wire of a stream is nowhere else: every envelope
\* was taken in once, and the places of a stream do not overlap.
LEMMA WireHeadUnique ==
    ASSUME FlowInv, NEW s \in Streams, wire[s] # <<>>
    PROVE  /\ Head(wire[s]) \notin Range(Tail(wire[s]))
           /\ \A t \in Streams : /\ Head(wire[s]) \notin Range(buf[t])
                                 /\ t # s => Head(wire[s]) \notin Range(wire[t])
<1> DEFINE m == Head(wire[s])
           p == Len(got[s])  q == Len(wire[s])  r == Len(buf[s])  n == Len(acc[s])
<1>0. /\ \A t \in Streams : got[t] \in Seq(Msgs) /\ wire[t] \in Seq(Msgs) /\ buf[t] \in Seq(Msgs) /\ acc[t] \in Seq(Msgs)
      /\ \A t \in Streams : Placed(got[t], wire[t], buf[t], acc[t])
  BY DEF FlowInv, HubInv, TypeOK, OrderInv
<1>1. p \in Nat /\ q \in Nat \ {0} /\ r \in Nat /\ n \in Nat /\ p + q + r <= n
  <2>1. p \in Nat /\ q \in Nat \ {0} /\ r \in Nat /\ n \in Nat
    BY <1>0
  <2>2. p + q + r <= n
    BY <1>0 DEF Placed
  <2> QED BY <2>1, <2>2
<1>2. /\ \A i \in 1..q : wire[s][i] = acc[s][p + i]
      /\ \A i \in 1..r : buf[s][i] = acc[s][n - r + i]
  BY <1>0 DEF Placed
<1>3. /\ m = wire[s][1]
      /\ Range(buf[s]) = {buf[s][i] : i \in 1..r}
  BY <1>0, RangeFacts
<1>3a. \A x \in Range(Tail(wire[s])) : \E i \in 1..(q - 1) : x = wire[s][i + 1]
  <2>1. /\ Tail(wire[s]) \in Seq(Msgs) /\ Len(Tail(wire[s])) = q - 1
        /\ \A i \in 1..(q - 1) : Tail(wire[s])[i] = wire[s][i + 1]
    BY <1>0
  <2>2. Range(Tail(wire[s])) = {Tail(wire[s])[i] : i \in 1..Len(Tail(wire[s]))}
    BY <2>1, RangeFacts
  <2>3. \A x \in Range(Tail(wire[s])) : \E i \in 1..(q - 1) : x = Tail(wire[s])[i]
    BY <2>1, <2>2
  <2> QED BY <2>1, <2>3
<1>4. \A i, k \in 1..n : acc[s][i] = acc[s][k] => i = k
  BY DEF FlowInv, OnceInv
<1>5. \A t \in Streams : t # s => \A i \in 1..n : acc[s][i] \notin Range(acc[t])
  <2> SUFFICES ASSUME NEW t \in Streams, t # s, NEW i \in 1..n, acc[s][i] \in Range(acc[t]) PROVE FALSE
    OBVIOUS
  <2>1. PICK k \in 1..Len(acc[t]) : acc[s][i] = acc[t][k]
    BY <1>0, RangeFacts
  <2> QED BY <2>1 DEF FlowInv, OnceInv
<1>6. \A t \in Streams : Range(buf[t]) \subseteq Range(acc[t]) /\ Range(wire[t]) \subseteq Range(acc[t])
  BY <1>0, PlacedRanges
<1> HIDE DEF p, q, r, n, m
<1>7. m = acc[s][p + 1] /\ p + 1 \in 1..n
  <2>1. 1 \in 1..q /\ p + 1 \in 1..n
    BY <1>1
  <2> QED BY <1>2, <1>3, <2>1
<1>8. m \notin Range(Tail(wire[s]))
  <2> SUFFICES ASSUME NEW i \in 1..(q - 1), m = wire[s][i + 1] PROVE FALSE
    BY <1>3a
  <2>1. i + 1 \in 1..q /\ p + (i + 1) \in 1..n /\ p + (i + 1) # p + 1
    BY <1>1
  <2> QED BY <1>2, <1>4, <1>7, <2>1
<1>9. m \notin Range(buf[s])
  <2> SUFFICES ASSUME NEW i \in 1..r, m = buf[s][i] PROVE FALSE
    BY <1>3
  <2>1. n - r + i \in 1..n /\ n - r + i # p + 1
    BY <1>1
  <2> QED BY <1>2, <1>4, <1>7, <2>1
<1> QED BY <1>5, <1>6, <1>7, <1>8, <1>9 DEF m

\* What Link sees of the streams.
LEMMA LinkState ==
    /\ \A w \in Workers : LinkUp[w] <=> hub[w] # None
    /\ \A w \in Workers : \A m : m \in LinkInflight[w] <=>
            \E t \in Streams : of[t] = w /\ (m \in Range(buf[t]) \/ m \in Range(wire[t]))
    /\ \A w \in Workers : \A m : m \in LinkReceived[w] <=>
            \E t \in Streams : of[t] = w /\ m \in Range(got[t])
<1>1. \A w \in Workers : LinkUp[w] <=> hub[w] # None
  BY DEF LinkUp
<1>2. ASSUME NEW w \in Workers, NEW m
      PROVE  m \in LinkInflight[w] <=>
                \E t \in Streams : of[t] = w /\ (m \in Range(buf[t]) \/ m \in Range(wire[t]))
  <2>1. LinkInflight[w] = UNION {Range(buf[t]) \cup Range(wire[t]) : t \in StreamsOf(w)}
    BY DEF LinkInflight
  <2> QED BY <2>1 DEF StreamsOf
<1>3. ASSUME NEW w \in Workers, NEW m
      PROVE  m \in LinkReceived[w] <=> \E t \in Streams : of[t] = w /\ m \in Range(got[t])
  <2>1. LinkReceived[w] = UNION {Range(got[t]) : t \in StreamsOf(w)}
    BY DEF LinkReceived
  <2> QED BY <2>1 DEF StreamsOf
<1> QED BY <1>1, <1>2, <1>3

\* And after a step.
LEMMA LinkStateNext ==
    /\ \A w \in Workers : LinkUp'[w] <=> hub'[w] # None
    /\ \A w \in Workers : \A m : m \in LinkInflight'[w] <=>
            \E t \in Streams : of'[t] = w /\ (m \in Range(buf'[t]) \/ m \in Range(wire'[t]))
    /\ \A w \in Workers : \A m : m \in LinkReceived'[w] <=>
            \E t \in Streams : of'[t] = w /\ m \in Range(got'[t])
<1>1. \A w \in Workers : LinkUp'[w] <=> hub'[w] # None
  BY DEF LinkUp
<1>2. ASSUME NEW w \in Workers, NEW m
      PROVE  m \in LinkInflight'[w] <=>
                \E t \in Streams : of'[t] = w /\ (m \in Range(buf'[t]) \/ m \in Range(wire'[t]))
  <2>1. LinkInflight'[w] = UNION {Range(buf'[t]) \cup Range(wire'[t]) : t \in StreamsOf(w)'}
    BY DEF LinkInflight
  <2> QED BY <2>1 DEF StreamsOf
<1>3. ASSUME NEW w \in Workers, NEW m
      PROVE  m \in LinkReceived'[w] <=> \E t \in Streams : of'[t] = w /\ m \in Range(got'[t])
  <2>1. LinkReceived'[w] = UNION {Range(got'[t]) : t \in StreamsOf(w)'}
    BY DEF LinkReceived
  <2> QED BY <2>1 DEF StreamsOf
<1> QED BY <1>1, <1>2, <1>3

\* Link sees functions on the workers.
LEMMA LinkDomains ==
    /\ LinkUp = [w \in Workers |-> LinkUp[w]] /\ LinkUp' = [w \in Workers |-> LinkUp'[w]]
    /\ LinkInflight = [w \in Workers |-> LinkInflight[w]] /\ LinkInflight' = [w \in Workers |-> LinkInflight'[w]]
    /\ LinkReceived = [w \in Workers |-> LinkReceived[w]] /\ LinkReceived' = [w \in Workers |-> LinkReceived'[w]]
  BY DEF LinkUp, LinkInflight, LinkReceived

\* In the initial state Link is in its initial state.
LEMMA LinkInit == Init => L!Init
<1> SUFFICES ASSUME Init PROVE L!Init
  OBVIOUS
<1>1. Range(<<>>) = {}
  BY DEF Range
<1>2. LinkUp = [w \in Workers |-> FALSE]
  BY DEF LinkUp, Init
<1>3. LinkInflight = [w \in Workers |-> {}] /\ LinkReceived = [w \in Workers |-> {}]
  BY <1>1 DEF LinkInflight, LinkReceived, StreamsOf, Init
<1> QED BY <1>2, <1>3 DEF L!Init

\* A step that only takes envelopes away from the streams of one worker is a
\* loss; if its entry of the hub goes too, it is a disconnection.
LEMMA LosesOnly ==
    ASSUME NEW w \in Workers, LinkInflight \in [Workers -> SUBSET Msgs],
           LinkReceived' = LinkReceived,
           LinkUp' = LinkUp \/ LinkUp' = [LinkUp EXCEPT ![w] = FALSE],
           LinkInflight'[w] \subseteq LinkInflight[w],
           \A v \in Workers : v # w => LinkInflight'[v] = LinkInflight[v]
    PROVE  L!Next
<1> DEFINE lost == LinkInflight[w] \ LinkInflight'[w]
<1>1. lost \in SUBSET Msgs
  OBVIOUS
<1>2. LinkInflight' = [LinkInflight EXCEPT ![w] = LinkInflight[w] \ lost]
  BY LinkDomains
<1>3. L!Lose(w, lost) \/ L!Disconnect(w, lost)
  BY <1>2 DEF L!Lose, L!Disconnect
<1> QED BY <1>1, <1>3 DEF L!Next

\* The streams of a worker hold envelopes.
LEMMA LinkTypes ==
    ASSUME TypeOK
    PROVE  LinkInflight \in [Workers -> SUBSET Msgs] /\ LinkReceived \in [Workers -> SUBSET Msgs]
<1>1. \A t \in Streams : Range(buf[t]) \subseteq Msgs /\ Range(wire[t]) \subseteq Msgs /\ Range(got[t]) \subseteq Msgs
  BY DEF TypeOK, Range
<1> QED BY <1>1 DEF LinkInflight, LinkReceived, StreamsOf

\* A stream joins the hub.
LEMMA JoinHubLinks ==
    ASSUME FlowInv, NEW s \in Streams, JoinHub(s)
    PROVE  L!Next
<1> DEFINE w == of[s]
<1>1. w \in Workers /\ s # None /\ TypeOK
  BY NoneAssumption DEF FlowInv, HubInv, OwnerInv, JoinHub
<1>2. hub' = [hub EXCEPT ![w] = s] /\ UNCHANGED <<of, buf, wire, got>>
  BY DEF JoinHub, HubRegister, history
<1>3. LinkUp' = [LinkUp EXCEPT ![w] = TRUE]
  BY <1>1, <1>2 DEF LinkUp, TypeOK
<1>4. LinkInflight' = LinkInflight /\ LinkReceived' = LinkReceived
  BY <1>2 DEF LinkInflight, LinkReceived, StreamsOf
<1>5. L!Connect(w)
  BY <1>3, <1>4 DEF L!Connect
<1> QED BY <1>1, <1>5 DEF L!Next

\* A push.
LEMMA PushLinks ==
    ASSUME FlowInv, NEW w \in Workers, NEW m \in Msgs, HubPush(w, m)
    PROVE  L!Next
<1> DEFINE s == hub[w]
<1>0. /\ TypeOK /\ m \notin pushed /\ UNCHANGED <<hub, of, wire, got>>
  BY DEF FlowInv, HubInv, HubPush
<1>1. LinkUp' = LinkUp /\ LinkReceived' = LinkReceived
  BY <1>0 DEF LinkUp, LinkReceived, StreamsOf
<1>2. CASE UNCHANGED buf
  <2>1. LinkInflight' = LinkInflight
    BY <1>0, <1>2 DEF LinkInflight, StreamsOf
  <2>2. L!Push(w, m)
    BY <1>1, <2>1 DEF L!Push, L!Drop, L!linkVars
  <2> QED BY <2>2 DEF L!Next
<1>3. CASE s # None /\ buf' = [buf EXCEPT ![s] = Append(buf[s], m)]
  <2>1. s \in Streams /\ of[s] = w
    BY <1>0, <1>3 DEF FlowInv, HubInv, TypeOK, RoutedToLiveStream
  <2>2. /\ Range(buf'[s]) = Range(buf[s]) \cup {m}
        /\ \A t \in Streams : t # s => buf'[t] = buf[t]
    BY <1>0, <1>3, <2>1, RangeFacts DEF TypeOK
  <2>3. L!Fresh(m)
    <3> SUFFICES ASSUME NEW t \in Streams
                 PROVE  m \notin Range(buf[t]) /\ m \notin Range(wire[t]) /\ m \notin Range(got[t])
      BY LinkState DEF L!Fresh
    <3>1. buf[t] \in Seq(Msgs) /\ wire[t] \in Seq(Msgs) /\ got[t] \in Seq(Msgs) /\ acc[t] \in Seq(Msgs)
      BY <1>0 DEF TypeOK
    <3>2. Range(buf[t]) \subseteq Range(acc[t]) /\ Range(wire[t]) \subseteq Range(acc[t])
          /\ Range(got[t]) \subseteq Range(acc[t])
      BY <3>1, PlacedRanges DEF FlowInv, OrderInv
    <3>3. Range(acc[t]) \subseteq pushed
      BY <3>1, RangeFacts DEF FlowInv, OnceInv
    <3> QED BY <1>0, <3>2, <3>3
  <2>4. ASSUME NEW v \in Workers
        PROVE  LinkInflight'[v] = IF v = w THEN LinkInflight[v] \cup {m} ELSE LinkInflight[v]
    <3>1. ASSUME NEW x PROVE x \in LinkInflight'[v] <=> x \in LinkInflight[v] \/ (v = w /\ x = m)
      <4>1. \A t \in Streams : x \in Range(buf'[t]) <=> x \in Range(buf[t]) \/ (t = s /\ x = m)
        <5> TAKE t \in Streams
        <5>1. CASE t = s
          BY <2>2, <5>1
        <5>2. CASE t # s
          BY <2>2, <5>2
        <5> QED BY <5>1, <5>2
      <4>2. x \in LinkInflight'[v] <=> \E t \in Streams : of[t] = v /\ (x \in Range(buf'[t]) \/ x \in Range(wire[t]))
        BY <1>0, LinkStateNext
      <4>3. x \in LinkInflight[v] <=> \E t \in Streams : of[t] = v /\ (x \in Range(buf[t]) \/ x \in Range(wire[t]))
        BY LinkState
      <4>4. ASSUME v = w, x = m PROVE x \in LinkInflight'[v]
        BY <2>1, <4>1, <4>2, <4>4
      <4>5. ASSUME x \in LinkInflight[v] PROVE x \in LinkInflight'[v]
        BY <4>1, <4>2, <4>3, <4>5
      <4>6. ASSUME x \in LinkInflight'[v] PROVE x \in LinkInflight[v] \/ (v = w /\ x = m)
        BY <2>1, <4>1, <4>2, <4>3, <4>6
      <4> QED BY <4>4, <4>5, <4>6
    <3>2. CASE v = w
      BY <3>1, <3>2
    <3>3. CASE v # w
      BY <3>1, <3>3
    <3> QED BY <3>2, <3>3
  <2>5. LinkInflight' = [LinkInflight EXCEPT ![w] = LinkInflight[w] \cup {m}]
    BY <2>4, LinkDomains
  <2>6. LinkUp[w]
    BY <1>3, LinkState
  <2>7. L!Push(w, m)
    BY <1>1, <2>3, <2>5, <2>6 DEF L!Push, L!Accept
  <2> QED BY <2>7 DEF L!Next
<1> QED BY <1>2, <1>3 DEF HubPush

\* The worker receives an envelope.
LEMMA WorkerRecvLinks ==
    ASSUME FlowInv, NEW s \in Streams, WorkerRecv(s)
    PROVE  L!Next
<1> DEFINE w == of[s]
           m == Head(wire[s])
<1>0. /\ TypeOK /\ UNCHANGED <<hub, of, buf>> /\ wire[s] # <<>> /\ wire[s] \in Seq(Msgs) /\ got[s] \in Seq(Msgs)
      /\ wire' = [wire EXCEPT ![s] = Tail(wire[s])] /\ got' = [got EXCEPT ![s] = Append(got[s], m)]
  BY DEF FlowInv, HubInv, TypeOK, WorkerRecv, chanVars
<1>1. m \in Msgs /\ w \in Workers
  <2>1. m \in Msgs
    BY <1>0
  <2>2. of[s] # None
    <3>1. Len(wire[s]) \in Nat \ {0} /\ Len(got[s]) \in Nat /\ Len(buf[s]) \in Nat /\ Len(acc[s]) \in Nat
      BY <1>0 DEF TypeOK
    <3>2. Len(got[s]) + Len(wire[s]) + Len(buf[s]) <= Len(acc[s])
      BY DEF FlowInv, OrderInv, Placed
    <3>3. Len(acc[s]) # 0
      <4> DEFINE p == Len(got[s])  q == Len(wire[s])  r == Len(buf[s])  n == Len(acc[s])
      <4>1. p \in Nat /\ q \in Nat \ {0} /\ r \in Nat /\ n \in Nat /\ p + q + r <= n
        BY <3>1, <3>2
      <4> HIDE DEF p, q, r, n
      <4>2. n # 0
        BY <4>1
      <4> QED BY <4>2 DEF n
    <3> QED BY <3>3 DEF FlowInv, EmptyInv
  <2>3. w \in Workers
    BY <1>0, <2>2 DEF TypeOK
  <2> QED BY <2>1, <2>3
<1>2. /\ Range(wire[s]) = Range(wire'[s]) \cup {m} /\ Range(got'[s]) = Range(got[s]) \cup {m}
      /\ \A t \in Streams : t # s => wire'[t] = wire[t] /\ got'[t] = got[t]
  BY <1>0, <1>1, RangeFacts DEF TypeOK
<1>3. m \notin Range(wire'[s]) /\ \A t \in Streams : m \notin Range(buf[t]) /\ (t # s => m \notin Range(wire[t]))
  BY <1>0, WireHeadUnique DEF TypeOK
<1>4. ASSUME NEW v \in Workers
      PROVE  LinkInflight'[v] = IF v = w THEN LinkInflight[v] \ {m} ELSE LinkInflight[v]
  <2>1. ASSUME NEW x PROVE x \in LinkInflight'[v] <=> x \in LinkInflight[v] /\ ~(v = w /\ x = m)
    <3>1. \A t \in Streams : x \in Range(buf[t]) \/ x \in Range(wire'[t]) <=>
                /\ x \in Range(buf[t]) \/ x \in Range(wire[t])
                /\ ~(t = s /\ x = m)
      BY <1>2, <1>3
    <3>2. x \in LinkInflight'[v] <=> \E t \in Streams : of[t] = v /\ (x \in Range(buf[t]) \/ x \in Range(wire'[t]))
      BY <1>0, LinkStateNext
    <3>3. x \in LinkInflight[v] <=> \E t \in Streams : of[t] = v /\ (x \in Range(buf[t]) \/ x \in Range(wire[t]))
      BY LinkState
    <3>4. \A t \in Streams : t # s => ~(x = m /\ (x \in Range(buf[t]) \/ x \in Range(wire[t])))
      BY <1>3
    <3> QED BY <3>1, <3>2, <3>3, <3>4
  <2> QED BY <2>1
<1>5. ASSUME NEW v \in Workers
      PROVE  LinkReceived'[v] = IF v = w THEN LinkReceived[v] \cup {m} ELSE LinkReceived[v]
  <2>1. ASSUME NEW x PROVE x \in LinkReceived'[v] <=> x \in LinkReceived[v] \/ (v = w /\ x = m)
    <3>1. \A t \in Streams : x \in Range(got'[t]) <=> x \in Range(got[t]) \/ (t = s /\ x = m)
      <4> TAKE t \in Streams
      <4>1. CASE t = s
        BY <1>2, <4>1
      <4>2. CASE t # s
        BY <1>2, <4>2
      <4> QED BY <4>1, <4>2
    <3>2. x \in LinkReceived'[v] <=> \E t \in Streams : of[t] = v /\ x \in Range(got'[t])
      BY <1>0, LinkStateNext
    <3>3. x \in LinkReceived[v] <=> \E t \in Streams : of[t] = v /\ x \in Range(got[t])
      BY LinkState
    <3> QED BY <3>1, <3>2, <3>3
  <2>2. CASE v = w
    BY <2>1, <2>2
  <2>3. CASE v # w
    BY <2>1, <2>3
  <2> QED BY <2>2, <2>3
<1>6. /\ LinkInflight' = [LinkInflight EXCEPT ![w] = LinkInflight[w] \ {m}]
      /\ LinkReceived' = [LinkReceived EXCEPT ![w] = LinkReceived[w] \cup {m}]
  BY <1>4, <1>5, LinkDomains
<1>7. m \in LinkInflight[w] /\ LinkUp' = LinkUp
  BY <1>0, <1>1, <1>2, LinkState DEF LinkUp
<1>8. L!Deliver(w, m)
  BY <1>6, <1>7 DEF L!Deliver
<1> QED BY <1>1, <1>8 DEF L!Next

\* An envelope leaves the channel for the wire, or is lost with the transport
\* or with the channel.
LEMMA LossLinks ==
    ASSUME FlowInv, NEW s \in Streams, Forward(s) \/ Break(s) \/ Return(s)
    PROVE  L!Next \/ UNCHANGED L!linkVars
<1> DEFINE w == of[s]
<1>0. TypeOK /\ UNCHANGED <<of, got>> /\ buf[s] \in Seq(Msgs) /\ wire[s] \in Seq(Msgs)
  BY DEF FlowInv, HubInv, TypeOK, Forward, Break, Return, history
<1>1. Range(<<>>) = {}
  BY DEF Range
<1>2. \A t \in Streams : t # s => buf'[t] = buf[t] /\ wire'[t] = wire[t]
  BY <1>0 DEF TypeOK, Forward, Break, Return, HubUnregister, chanVars
<1>3. Range(buf'[s]) \cup Range(wire'[s]) \subseteq Range(buf[s]) \cup Range(wire[s])
  <2>1. CASE Forward(s)
    <3>1. /\ buf[s] # <<>> /\ buf'[s] = Tail(buf[s])
          /\ wire'[s] = Append(wire[s], Head(buf[s])) \/ wire'[s] = wire[s]
      BY <1>0, <2>1 DEF Forward, TypeOK
    <3>2. Head(buf[s]) \in Msgs
      BY <1>0, <3>1
    <3>3. /\ Range(buf[s]) = Range(Tail(buf[s])) \cup {Head(buf[s])}
          /\ Range(Append(wire[s], Head(buf[s]))) = Range(wire[s]) \cup {Head(buf[s])}
      BY <1>0, <3>1, <3>2, RangeFacts
    <3> QED BY <3>1, <3>3
  <2>2. CASE Break(s)
    <3>1. wire'[s] = <<>> /\ buf'[s] = buf[s]
      BY <1>0, <2>2 DEF Break, TypeOK, chanVars
    <3> QED BY <1>1, <3>1
  <2>3. CASE Return(s)
    <3>1. buf'[s] = <<>> /\ wire'[s] = wire[s]
      BY <1>0, <2>3 DEF Return, HubUnregister, TypeOK
    <3> QED BY <1>1, <3>1
  <2> QED BY <2>1, <2>2, <2>3
<1>4. LinkReceived' = LinkReceived
  BY <1>0 DEF LinkReceived, StreamsOf
<1>5. ASSUME NEW v \in Workers, v # w PROVE LinkInflight'[v] = LinkInflight[v]
  <2>1. ASSUME NEW x PROVE x \in LinkInflight'[v] <=> x \in LinkInflight[v]
    <3>1. x \in LinkInflight'[v] <=> \E t \in Streams : of[t] = v /\ (x \in Range(buf'[t]) \/ x \in Range(wire'[t]))
      BY <1>0, LinkStateNext
    <3>2. x \in LinkInflight[v] <=> \E t \in Streams : of[t] = v /\ (x \in Range(buf[t]) \/ x \in Range(wire[t]))
      BY LinkState
    <3> QED BY <1>2, <1>5, <3>1, <3>2
  <2> QED BY <2>1
<1>6. ASSUME w \in Workers PROVE LinkInflight'[w] \subseteq LinkInflight[w]
  BY <1>0, <1>2, <1>3, <1>6, LinkState, LinkStateNext
<1>7. LinkUp' = LinkUp \/ (w \in Workers /\ LinkUp' = [LinkUp EXCEPT ![w] = FALSE])
  <2>1. CASE UNCHANGED hub
    <3>1. LinkUp' = LinkUp
      BY <2>1 DEF LinkUp
    <3> QED BY <3>1
  <2>2. CASE hub' = [hub EXCEPT ![w] = None] /\ Return(s)
    <3>1. w \in Workers
      BY <2>2 DEF FlowInv, HubInv, OwnerInv, Return, Routable
    <3> QED BY <1>0, <2>2, <3>1 DEF LinkUp, TypeOK
  <2> QED BY <2>1, <2>2 DEF Forward, Break, Return, HubUnregister, chanVars
<1>8. CASE w \in Workers
  BY <1>0, <1>4, <1>5, <1>6, <1>7, <1>8, LosesOnly, LinkTypes
<1>9. CASE w \notin Workers
  <2>1. \A v \in Workers : LinkInflight'[v] = LinkInflight[v]
    BY <1>5, <1>9
  <2>2. LinkInflight' = LinkInflight
    BY <2>1, LinkDomains
  <2> QED BY <1>4, <1>7, <1>9, <2>2 DEF L!linkVars
<1> QED BY <1>8, <1>9

\* A stream learns its worker while it holds nothing.
LEMMA RegisterLinks ==
    ASSUME FlowInv, NEW s \in Streams, NEW w \in Workers, RegisterWorker(s, w)
    PROVE  UNCHANGED L!linkVars
<1>0. TypeOK /\ UNCHANGED <<hub, buf, wire, got>> /\ of' = [of EXCEPT ![s] = w] /\ pc[s] = "accepted"
  BY DEF FlowInv, HubInv, RegisterWorker, chanVars, history
<1>1. Range(buf[s]) = {} /\ Range(wire[s]) = {} /\ Range(got[s]) = {}
  <2>1. /\ got[s] \in Seq(Msgs) /\ wire[s] \in Seq(Msgs) /\ buf[s] \in Seq(Msgs) /\ acc[s] \in Seq(Msgs)
        /\ Placed(got[s], wire[s], buf[s], acc[s]) /\ Len(acc[s]) = 0
    BY <1>0 DEF FlowInv, HubInv, TypeOK, OrderInv, EmptyInv
  <2>2. Range(acc[s]) = {}
    <3>1. 1..Len(acc[s]) = {}
      BY <2>1
    <3> QED BY <2>1, <3>1, RangeFacts
  <2> QED BY <2>1, <2>2, PlacedRanges
<1>2. \A t \in Streams : t # s => of'[t] = of[t]
  BY <1>0 DEF TypeOK
<1>3. ASSUME NEW v \in Workers PROVE LinkInflight'[v] = LinkInflight[v] /\ LinkReceived'[v] = LinkReceived[v]
  <2>1. ASSUME NEW x PROVE x \in LinkInflight'[v] <=> x \in LinkInflight[v]
    <3>1. x \in LinkInflight'[v] <=> \E t \in Streams : of'[t] = v /\ (x \in Range(buf[t]) \/ x \in Range(wire[t]))
      BY <1>0, LinkStateNext
    <3>2. x \in LinkInflight[v] <=> \E t \in Streams : of[t] = v /\ (x \in Range(buf[t]) \/ x \in Range(wire[t]))
      BY LinkState
    <3> QED BY <1>1, <1>2, <3>1, <3>2
  <2>2. ASSUME NEW x PROVE x \in LinkReceived'[v] <=> x \in LinkReceived[v]
    <3>1. x \in LinkReceived'[v] <=> \E t \in Streams : of'[t] = v /\ x \in Range(got[t])
      BY <1>0, LinkStateNext
    <3>2. x \in LinkReceived[v] <=> \E t \in Streams : of[t] = v /\ x \in Range(got[t])
      BY LinkState
    <3> QED BY <1>1, <1>2, <3>1, <3>2
  <2> QED BY <2>1, <2>2
<1>4. LinkInflight' = LinkInflight /\ LinkReceived' = LinkReceived /\ LinkUp' = LinkUp
  BY <1>0, <1>3, LinkDomains DEF LinkUp
<1> QED BY <1>4 DEF L!linkVars

\* Every step of the streams is a step of Link or leaves Link alone.
LEMMA StepLinks == FlowInv /\ [Next]_vars => [L!Next]_(L!linkVars)
<1> SUFFICES ASSUME FlowInv, [Next]_vars PROVE L!Next \/ UNCHANGED L!linkVars
  OBVIOUS
<1>1. ASSUME NEW s \in Streams,
             \/ Handler(s) \/ Accept(s) \/ Refuse(s) \/ ReceiveRefused(s) \/ WorkerRecv(s) \/ Break(s)
             \/ \E w \in Workers : RegisterWorker(s, w)
      PROVE  L!Next \/ UNCHANGED L!linkVars
  <2>1. CASE JoinHub(s) \/ WorkerRecv(s) \/ Forward(s) \/ Break(s) \/ Return(s)
    BY <2>1, JoinHubLinks, WorkerRecvLinks, LossLinks
  <2>2. CASE \E w \in Workers : RegisterWorker(s, w)
    BY <2>2, RegisterLinks
  <2>3. CASE Greet(s) \/ LeaveLoop(s) \/ ReceiveFailed(s) \/ Accept(s) \/ Refuse(s) \/ ReceiveRefused(s)
    <3>1. UNCHANGED <<hub, of, buf, wire, got>>
      BY <2>3 DEF Greet, LeaveLoop, ReceiveFailed, Accept, Refuse, ReceiveRefused, chanVars, history
    <3> QED BY <3>1 DEF L!linkVars, LinkUp, LinkInflight, LinkReceived, StreamsOf
  <2> QED BY <1>1, <2>1, <2>2, <2>3 DEF Handler
<1>2. ASSUME NEW w \in Workers, NEW m \in Msgs, HubPush(w, m) PROVE L!Next
  BY <1>2, PushLinks
<1>3. CASE UNCHANGED vars
  BY <1>3 DEF vars, L!linkVars, LinkUp, LinkInflight, LinkReceived, StreamsOf
<1> QED BY <1>1, <1>2, <1>3 DEF Next

\* The streams and the hub give the dispatcher what Link promises: an envelope
\* reaches only the worker it was pushed for, at most once, and is never
\* invented.
THEOREM ImplementsLinkHolds == Spec => ImplementsLink
<1> QED BY LinkInit, StepLinks, FlowInvariance, PTL DEF Spec, ImplementsLink, L!Spec
=============================================================================
