------------------------- MODULE RelayClientDelivery -------------------------
(***************************************************************************)
(* What a caller of RelayClient is handed: only events that verify and that*)
(* the relay holds, and, by a query that returns, all it had to find.  With*)
(* that, RelayClient implements RelayPort.                                 *)
(*                                                                         *)
(* An event is followed from the relay's debt (owed) through the link and  *)
(* the queue of its subscription to the caller.  For a query the order on  *)
(* this way matters: Covered says that in front of every EOSE the events   *)
(* the query has to find are at the caller or still to be read.            *)
(***************************************************************************)
EXTENDS RelayClientTables

(* How a step changes one queue.                                            *)
QueueStep(i) ==
    \/ queue'[i] = queue[i]
    \/ queue'[i] = <<>> /\ \E t \in Tasks : CallStep(t) /\ i[1] = t
    \/ /\ queue[i] # <<>> /\ queue'[i] = Tail(queue[i])
       /\ \E t \in Tasks : CallStep(t) /\ ReadsFrom(t) = i
    \/ queue'[i] = Append(queue[i], ClosedFrame(i, "error"))
    \/ /\ HandleMessage /\ HandleSub(Head(r2c))
       /\ Head(r2c).sub = i /\ Accepts(Head(r2c))
       /\ queue'[i] = Append(queue[i], Head(r2c))

LEMMA QueueSteps ==
    ASSUME IInv, FirstAttempt, [Next]_vars, NEW i \in SubIds
    PROVE  QueueStep(i)
<1>1. queue \in [SubIds -> Seq(SubFrames)]
  BY DEF IInv, TypeOK, TablesType
<1>2. ASSUME NEW t \in Tasks, CallStep(t)
      PROVE  QueueStep(i)
  <2>1. CallShape(t)
    BY <1>2, CallShapes
  <2>2. CASE i[1] # t
    BY <2>1, <2>2, QueueOfCall DEF QueueStep
  <2>3. CASE i[1] = t
    <3>1. CASE queue' = queue
      BY <3>1 DEF QueueStep
    <3>2. CASE Leaves(t)
      BY <1>2, <2>3, <3>2 DEF Leaves, Leave, QueueStep
    <3>3. CASE /\ queue[ReadsFrom(t)] # <<>>
               /\ queue' = [queue EXCEPT ![ReadsFrom(t)] = Tail(queue[ReadsFrom(t)])]
      BY <1>1, <1>2, <3>3 DEF QueueStep
    <3>4. CASE Asks(t) \/ TakesItem(t)
      BY <3>1, <3>3, <3>4 DEF Asks, TakesItem
    <3>5. CASE Publishes(t) \/ Queries(t) \/ Subscribes(t) \/ SendsAuth(t) \/ GoesOn(t)
                 \/ AwaitsChallenge(t)
      BY <3>1, <3>5 DEF Publishes, PublishSigned, Queries, QueryScoped, Subscribes, Request,
                        MayStart, SendsAuth, SendAuth, GoesOn, AwaitsChallenge
    <3> QED
      BY <2>1, <3>2, <3>4, <3>5 DEF CallShape
  <2> QED
    BY <2>2, <2>3
<1>3. CASE queue' = queue
  BY <1>3 DEF QueueStep
<1>4. CASE HandleMessage
  <2> DEFINE m == Head(r2c)
  <2>1. CASE HandleSub(m)
    <3>1. queue'[i] = IF Accepts(m) /\ m.sub = i THEN Append(queue[i], m) ELSE queue[i]
      BY <1>1, <2>1 DEF HandleSub
    <3> QED
      BY <1>4, <2>1, <3>1 DEF QueueStep
  <2>2. CASE HandleOk(m) \/ OnAuthChallenge(m)
    BY <1>3, <2>2 DEF HandleOk, OnAuthChallenge
  <2> QED
    BY <1>4, <2>1, <2>2 DEF HandleMessage
<1>5. CASE ConnectFails
  <2>1. CASE FailPending
    BY <2>1 DEF FailPending, ClosedQueues, QueueStep
  <2> QED
    BY <1>3, <1>5, <2>1 DEF ConnectFails
<1>6. CASE \/ ReaderStumbles \/ ConnectionLost \/ ConnectOk
           \/ (\E j \in SubIds : Resubscribe(j))
           \/ Resubscribed \/ ReaderCrashes \/ Close \/ Drop
  BY <1>3, <1>6 DEF ReaderStumbles, ConnectionLost, ConnectOk, Resubscribe, Resubscribed,
                    ReaderCrashes, Close, Drop, callVars
<1>7. CASE \/ RelayStep \/ (\E j \in SubIds : RelayDropsSub(j)) \/ RelayGivesMore
           \/ UNCHANGED vars
  BY <1>3, <1>7 DEF RelayStep, RelayReads, RelaySendsEvent, RelaySendsEose, RelayDropsSub,
                    RelayGivesMore, RelayRepeats, OthersPublish,
                    vars, clientVars, callVars
<1> QED
  BY <1>2, <1>4, <1>5, <1>6, <1>7, NextCases

(* How a step of t changes what the callers have.                           *)
GotStep(t) ==
    \/ got' = got
    \/ Queries(t) /\ got' = [got EXCEPT ![t] = {}]
    \/ /\ TakesItem(t) /\ Head(queue[ReadsFrom(t)]).type = "EVENT"
       /\ got' = [got EXCEPT ![t] = got[t] \cup {Head(queue[ReadsFrom(t)]).ev}]

LEMMA GotOfCall ==
    ASSUME NEW t \in Tasks, CallShape(t)
    PROVE  GotStep(t)
<1>1. CASE Queries(t)
  BY <1>1 DEF Queries, MayStart, QueryScoped, GotStep
<1>2. CASE TakesItem(t)
  BY <1>2 DEF TakesItem, GotStep
<1>3. CASE GoesOn(t) \/ AwaitsChallenge(t) \/ SendsAuth(t)
  BY <1>3 DEF GoesOn, AwaitsChallenge, SendsAuth, GotStep
<1>4. CASE Leaves(t) \/ Asks(t) \/ Publishes(t) \/ Subscribes(t)
  BY <1>4 DEF Leaves, Asks, Publishes, Subscribes, GotStep
<1> QED
  BY <1>1, <1>2, <1>3, <1>4 DEF CallShape

-----------------------------------------------------------------------------
(* Where an event comes from.                                               *)

DataInv ==
    /\ \A o \in owed : o[2] \in stored
    /\ \A k \in 1..Len(r2c) : r2c[k].type = "EVENT" => r2c[k].ev \in stored
    /\ \A i \in SubIds : \A k \in 1..Len(queue[i]) :
          /\ queue[i][k].sub = i
          /\ queue[i][k].type = "EVENT" => queue[i][k].ev \in stored \ Forged
    /\ DeliveredIsVerified

LEMMA StoredGrows ==
    ASSUME IInv, [Next]_vars
    PROVE  stored \subseteq stored'
BY StepAnswering, StutterAnswering, FreshConnection DEF Answering

(* What the relay owes after a step of its own.                             *)
LEMMA OwedFrom ==
    ASSUME IInv, [Next]_vars, NEW o \in owed'
    PROVE  o \in owed \/ o[2] \in stored'
<1>1. CASE \E t \in Tasks : CallStep(t)
  BY <1>1, CallStepKept DEF StepKept, outside, relayVars
<1>2. CASE owed' \subseteq owed
  BY <1>2
<1>3. CASE RelayReads
  <2>1. CASE RelayEvent(Head(c2r))
    BY <2>1 DEF RelayEvent
  <2>2. CASE RelayReq(Head(c2r))
    BY <2>2 DEF RelayReq
  <2>3. CASE RelayClose(Head(c2r))
    BY <2>3 DEF RelayClose, Forget
  <2>4. CASE RelayAuth(Head(c2r))
    BY <2>4 DEF RelayAuth
  <2> QED
    BY <1>3, <2>1, <2>2, <2>3, <2>4 DEF RelayReads
<1>4. CASE (RelayStep /\ ~RelayReads) \/ \E i \in SubIds : RelayDropsSub(i)
  BY <1>2, <1>4 DEF RelayStep, RelaySendsEvent, RelaySendsEose, RelayDropsSub, Forget
<1>5. CASE ConnectOk \/ Close \/ Drop
  BY <1>2, <1>5 DEF ConnectOk, Close, Drop, RelayForgets
<1>6. CASE \/ HandleMessage \/ ReaderStumbles \/ ConnectFails \/ ConnectionLost
           \/ (\E i \in SubIds : Resubscribe(i)) \/ Resubscribed \/ ReaderCrashes
           \/ UNCHANGED vars
  BY <1>2, <1>6 DEF HandleMessage, ReaderStumbles, ConnectFails, ConnectionLost,
                    Resubscribe, Resubscribed, ReaderCrashes, vars, relayVars
<1>7. CASE RelayGivesMore
  BY <1>2, <1>7 DEF RelayGivesMore, RelayRepeats, OthersPublish, relayVars
<1> QED
  BY <1>1, <1>3, <1>4, <1>5, <1>6, <1>7, NextCases

(* The frames of a queue after a step.                                      *)
LEMMA QueuedFrom ==
    ASSUME IInv, NEW i \in SubIds, QueueStep(i), NEW k \in 1..Len(queue'[i])
    PROVE  \/ \E j \in 1..Len(queue[i]) : queue'[i][k] = queue[i][j]
           \/ queue'[i][k] = ClosedFrame(i, "error")
           \/ /\ HandleMessage /\ HandleSub(Head(r2c)) /\ Accepts(Head(r2c))
              /\ Head(r2c).sub = i /\ queue'[i][k] = Head(r2c)
<1> DEFINE q == queue[i]
<1>1. q \in Seq(SubFrames)
  BY DEF IInv, TypeOK, TablesType
<1> HIDE DEF q
<1>2. Len(q) \in Nat
  BY <1>1
<1>3. ASSUME NEW m, queue'[i] = Append(q, m)
      PROVE  queue'[i][k] = m \/ \E j \in 1..Len(q) : queue'[i][k] = q[j]
  <2>1. IF k \in 1..Len(q) THEN queue'[i][k] = q[k] ELSE queue'[i][k] = m
    BY <1>1, <1>2, <1>3
  <2> QED
    BY <2>1
<1>4. ASSUME q # <<>>, queue'[i] = Tail(q)
      PROVE  \E j \in 1..Len(q) : queue'[i][k] = q[j]
  <2>1. k + 1 \in 1..Len(q) /\ queue'[i][k] = q[k + 1]
    BY <1>1, <1>2, <1>4
  <2> QED
    BY <2>1
<1>5. queue'[i] # <<>>
  OBVIOUS
<1> QED
  BY <1>3, <1>4, <1>5 DEF QueueStep, q

LEMMA NextKeepsIInv ==
    ASSUME IInv, [Next]_vars
    PROVE  IInv'
BY StutterInv, NextCases, CallStepInv, HandleMessageInv, ConnectFailsInv, ReconnectInv,
   LinkInv, RelayInv

LEMMA DataInvNext ==
    ASSUME IInv, FirstAttempt, DataInv, [Next]_vars
    PROVE  DataInv'
<1>1. stored \subseteq stored'
  BY StoredGrows
<1>2. \A o \in owed' : o[2] \in stored'
  BY <1>1, OwedFrom DEF DataInv
<1>3. ASSUME NEW k \in 1..Len(r2c'), r2c'[k].type = "EVENT"
      PROVE  r2c'[k].ev \in stored'
  <2>1. CASE ReceivedBefore(r2c'[k])
    BY <1>1, <1>3, <2>1 DEF ReceivedBefore, DataInv
  <2>2. CASE <<r2c'[k].sub, r2c'[k].ev>> \in owed
    BY <1>1, <2>2 DEF DataInv
  <2>3. CASE r2c'[k].ev \in got[r2c'[k].sub[1]] /\ r2c'[k].type = "EVENT"
    <3>1. r2c'[k] \in RelayFrames
      BY NextKeepsIInv DEF IInv, TypeOK, LinkType
    <3>2. r2c'[k].sub[1] \in Tasks
      BY <1>3, <3>1, RelayFrameFields DEF SubIds, Tasks
    <3> QED
      BY <1>1, <2>3, <3>2 DEF DataInv, DeliveredIsVerified
  <2> QED
    BY <1>3, <2>1, <2>2, <2>3, ReceivedFrom DEF RelayFrame
<1>4. ASSUME NEW i \in SubIds, NEW k \in 1..Len(queue'[i])
      PROVE  /\ queue'[i][k].sub = i
             /\ queue'[i][k].type = "EVENT" => queue'[i][k].ev \in stored' \ Forged
  <2>1. CASE \E j \in 1..Len(queue[i]) : queue'[i][k] = queue[i][j]
    BY <1>1, <2>1 DEF DataInv
  <2>2. CASE queue'[i][k] = ClosedFrame(i, "error")
    BY <2>2 DEF ClosedFrame
  <2>3. CASE /\ HandleMessage /\ HandleSub(Head(r2c)) /\ Accepts(Head(r2c))
             /\ Head(r2c).sub = i /\ queue'[i][k] = Head(r2c)
    <3>1. r2c # <<>>
      BY <2>3 DEF HandleMessage
    <3>2. Head(r2c).type = "EVENT" => Head(r2c).ev \in stored
      BY <3>1, HeadOfLink DEF DataInv
    <3> QED
      BY <1>1, <2>3, <3>2 DEF Accepts
  <2> QED
    BY <2>1, <2>2, <2>3, QueueSteps, QueuedFrom
<1>5. DeliveredIsVerified'
  <2>1. CASE got' = got
    BY <1>1, <2>1 DEF DataInv, DeliveredIsVerified
  <2>2. ASSUME NEW t \in Tasks, CallStep(t)
        PROVE  DeliveredIsVerified'
    <3>1. CallShape(t) /\ got \in [Tasks -> SUBSET Events]
      BY <2>2, CallShapes DEF IInv, TypeOK, MemoType
    <3>2. CASE got' = [got EXCEPT ![t] = {}]
      BY <1>1, <3>1, <3>2 DEF DataInv, DeliveredIsVerified
    <3>3. CASE /\ TakesItem(t) /\ Head(queue[ReadsFrom(t)]).type = "EVENT"
               /\ got' = [got EXCEPT ![t] = got[t] \cup {Head(queue[ReadsFrom(t)]).ev}]
      <4> DEFINE q == queue[ReadsFrom(t)]
      <4>1. t \in Queriers \/ t \in Subscribers
        BY <3>3 DEF TakesItem
      <4>2. ReadsFrom(t) \in SubIds
        BY <4>1, TasksApart DEF ReadsFrom, TryOf, SubIds
      <4>3. q \in Seq(SubFrames) /\ q # <<>>
        BY <3>3, <4>2 DEF TakesItem, IInv, TypeOK, TablesType
      <4>4. 1 \in 1..Len(q) /\ Head(q) = q[1]
        BY <4>3
      <4>5. Head(q).ev \in stored \ Forged
        BY <3>3, <4>2, <4>4 DEF DataInv
      <4> QED
        BY <1>1, <3>1, <3>3, <4>5 DEF DataInv, DeliveredIsVerified
    <3> QED
      BY <2>1, <3>1, <3>2, <3>3, GotOfCall DEF GotStep
  <2> QED
    BY <2>1, <2>2, PlacesAlone
<1> QED
  BY <1>2, <1>3, <1>4, <1>5 DEF DataInv

LEMMA DataInit == Init => DataInv
<1> SUFFICES ASSUME Init PROVE DataInv
  OBVIOUS
<1>1. \A k \in 1..Len(r2c) : r2c[k].type # "EVENT"
  BY DEF Init, Greeting
<1> QED
  BY <1>1 DEF Init, DataInv, DeliveredIsVerified

LEMMA DataHolds == Spec => []DataInv
<1>1. IInv /\ FirstAttempt /\ DataInv /\ [Next]_vars => DataInv'
  BY DataInvNext
<1> QED
  BY <1>1, DataInit, IInvHolds, FreshHolds, PTL DEF Spec

(* No caller is handed an event that does not verify or that the relay does *)
(* not hold, by whatever way, queue or retry it came (_handle_event).       *)
THEOREM VerifiedDelivery == Spec => []DeliveredIsVerified
<1>1. DataInv => DeliveredIsVerified
  BY DEF DataInv
<1> QED
  BY <1>1, DataHolds, PTL

-----------------------------------------------------------------------------
(* The order of frames.                                                     *)

Ends(m, i)     == m.type = "EOSE" /\ m.sub = i
Bears(m, i, e) == m.type = "EVENT" /\ m.sub = i /\ m.ev = e

(* One of the first n frames bears event e to subscription i.               *)
Brings(frames, n, i, e) == \E j \in 1..n : Bears(frames[j], i, e)

LEMMA BringsGrown ==
    ASSUME NEW S, NEW frames \in Seq(S), NEW m, NEW i, NEW e
    PROVE  /\ \A n \in 0..Len(frames) :
                 Brings(frames, n, i, e) => Brings(Append(frames, m), n, i, e)
           /\ Brings(frames, Len(frames), i, e) \/ Bears(m, i, e)
                 => Brings(Append(frames, m), Len(frames) + 1, i, e)
           /\ Len(frames) \in Nat /\ Len(Append(frames, m)) = Len(frames) + 1
           /\ \A k \in 1..Len(Append(frames, m)) :
                 Append(frames, m)[k] =
                    IF k \in 1..Len(frames) THEN frames[k] ELSE m
<1>1. Len(frames) \in Nat /\ Len(Append(frames, m)) = Len(frames) + 1
  OBVIOUS
<1>2. \A k \in 1..Len(Append(frames, m)) :
         Append(frames, m)[k] = IF k \in 1..Len(frames) THEN frames[k] ELSE m
  BY <1>1
<1>3. ASSUME NEW n \in 0..Len(frames), Brings(frames, n, i, e)
      PROVE  Brings(Append(frames, m), n, i, e)
  <2>1. PICK j \in 1..n : Bears(frames[j], i, e)
    BY <1>3 DEF Brings
  <2>2. j \in 1..Len(frames) /\ j \in 1..Len(Append(frames, m))
    BY <1>1
  <2> QED
    BY <1>2, <2>1, <2>2 DEF Brings
<1>4. Brings(frames, Len(frames), i, e) => Brings(Append(frames, m), Len(frames) + 1, i, e)
  <2>1. \A j \in 1..Len(frames) : j \in 1..(Len(frames) + 1)
    BY <1>1
  <2> QED
    BY <1>1, <1>2, <2>1 DEF Brings
<1>5. Bears(m, i, e) => Brings(Append(frames, m), Len(frames) + 1, i, e)
  <2>1. Len(frames) + 1 \in 1..(Len(frames) + 1) /\ Len(frames) + 1 \notin 1..Len(frames)
    BY <1>1
  <2> QED
    BY <1>1, <1>2, <2>1 DEF Brings
<1> QED
  BY <1>1, <1>2, <1>3, <1>4, <1>5

LEMMA BringsShrunk ==
    ASSUME NEW S, NEW frames \in Seq(S), frames # <<>>, NEW i, NEW e
    PROVE  /\ \A n \in 1..Len(frames) : Brings(frames, n, i, e) =>
                 Bears(Head(frames), i, e) \/ Brings(Tail(frames), n - 1, i, e)
           /\ Len(frames) \in Nat /\ Len(Tail(frames)) = Len(frames) - 1
           /\ \A k \in 1..Len(Tail(frames)) : Tail(frames)[k] = frames[k + 1]
                                              /\ k + 1 \in 1..Len(frames)
<1>1. /\ Len(frames) \in Nat /\ Len(Tail(frames)) = Len(frames) - 1
      /\ Head(frames) = frames[1]
  OBVIOUS
<1>2. \A k \in 1..Len(Tail(frames)) : Tail(frames)[k] = frames[k + 1]
                                      /\ k + 1 \in 1..Len(frames)
  BY <1>1
<1>3. ASSUME NEW n \in 1..Len(frames), Brings(frames, n, i, e),
             ~Bears(Head(frames), i, e)
      PROVE  Brings(Tail(frames), n - 1, i, e)
  <2>1. PICK j \in 1..n : Bears(frames[j], i, e)
    BY <1>3 DEF Brings
  <2>2. j # 1
    BY <1>1, <1>3, <2>1
  <2>3. j - 1 \in 1..(n - 1) /\ j - 1 \in 1..Len(Tail(frames)) /\ (j - 1) + 1 = j
    BY <1>1, <2>2
  <2> QED
    BY <1>2, <2>1, <2>3 DEF Brings
<1> QED
  BY <1>1, <1>2, <1>3

-----------------------------------------------------------------------------
(* A query and the end of what is stored.                                   *)

(* No EOSE of subscription i is anywhere, nor a REQ to bring one.           *)
Fresh(i) ==
    /\ i \notin eoseDue
    /\ \A k \in 1..Len(r2c) : ~Ends(r2c[k], i)
    /\ \A k \in 1..Len(queue[i]) : queue[i][k].type # "EOSE"
    /\ ~RequestedIn(c2r, i)

InHand(q, i, e) == e \in got[q] \/ Brings(queue[i], Len(queue[i]), i, e)

QueueLeg(q, i) ==
    \A k \in 1..Len(queue[i]) : queue[i][k].type = "EOSE" =>
        \A e \in atStart[q] : e \in got[q] \/ Brings(queue[i], k - 1, i, e)

LinkLeg(q, i) ==
    \A k \in 1..Len(r2c) : Ends(r2c[k], i) =>
        \A e \in atStart[q] : InHand(q, i, e) \/ Brings(r2c, k - 1, i, e)

RelayLeg(q, i) ==
    i \in eoseDue =>
        \A e \in atStart[q] :
            InHand(q, i, e) \/ Brings(r2c, Len(r2c), i, e) \/ <<i, e>> \in owed

(* Before every EOSE, the events q has to find.                             *)
Covered(q, i) == QueueLeg(q, i) /\ LinkLeg(q, i) /\ RelayLeg(q, i)

QueryInv ==
    /\ ws # "open" => eoseDue = {}
    /\ \A q \in Queriers :
          /\ atStart[q] \subseteq stored \ Forged
          /\ pc[q] = "idle" => Fresh(<<q, 1>>)
          /\ ~retried[q] => Fresh(<<q, 2>>)
          /\ pc[q] = "collect" => Covered(q, TryOf(q))
          /\ result[q] = "ok" => atStart[q] \subseteq got[q]

LEMMA EoseFrom ==
    ASSUME IInv, [Next]_vars, NEW i \in eoseDue'
    PROVE  /\ ws' = "open" \/ i \in eoseDue
           /\ i \in eoseDue \/ RequestedIn(c2r, i)
<1>1. CASE \E t \in Tasks : CallStep(t)
  BY <1>1, CallStepKept DEF StepKept, outside, relayVars
<1>2. CASE eoseDue' \subseteq eoseDue
  BY <1>2
<1>3. CASE RelayReads
  <2> DEFINE m == Head(c2r)
  <2>1. ws' = "open" /\ c2r # <<>> /\ c2r \in Seq(ClientFrames)
    BY <1>3 DEF RelayReads, clientVars, sockVars, IInv, TypeOK, LinkType
  <2>2. 1 \in 1..Len(c2r) /\ c2r[1] = m
    BY <2>1
  <2> HIDE DEF m
  <2>3. CASE RelayReq(m)
    <3>1. i \in eoseDue \/ (i = m.sub /\ m.type = "REQ")
      BY <2>3 DEF RelayReq
    <3> QED
      BY <2>1, <2>2, <3>1 DEF RequestedIn
  <2>4. CASE RelayEvent(m) \/ RelayClose(m) \/ RelayAuth(m)
    BY <1>2, <2>4 DEF RelayEvent, RelayClose, Forget, RelayAuth
  <2> QED
    BY <1>3, <2>3, <2>4 DEF RelayReads, m
<1>4. CASE (RelayStep /\ ~RelayReads) \/ \E j \in SubIds : RelayDropsSub(j)
  BY <1>2, <1>4 DEF RelayStep, RelaySendsEvent, RelaySendsEose, RelayDropsSub, Forget
<1>5. CASE ConnectOk \/ Close \/ Drop
  BY <1>5 DEF ConnectOk, Close, Drop, RelayForgets
<1>6. CASE \/ HandleMessage \/ ReaderStumbles \/ ConnectFails \/ ConnectionLost
           \/ (\E j \in SubIds : Resubscribe(j)) \/ Resubscribed \/ ReaderCrashes
           \/ UNCHANGED vars
  BY <1>2, <1>6 DEF HandleMessage, ReaderStumbles, ConnectFails, ConnectionLost,
                    Resubscribe, Resubscribed, ReaderCrashes, vars, relayVars
<1>7. CASE RelayGivesMore
  BY <1>2, <1>7 DEF RelayGivesMore, RelayRepeats, OthersPublish, relayVars
<1> QED
  BY <1>1, <1>3, <1>4, <1>5, <1>6, <1>7, NextCases

(* A connection that ends takes every debt of the relay with it.            *)
LEMMA DebtsEnd ==
    ASSUME IInv, [Next]_vars, ws # "open" => eoseDue = {}
    PROVE  (ws # "open" => eoseDue = {})'
<1>1. CASE Close \/ Drop
  BY <1>1 DEF Close, Drop, RelayForgets
<1>2. CASE ws' = ws
  BY <1>2, EoseFrom
<1>3. CASE ConnectOk
  BY <1>3 DEF ConnectOk
<1>4. CASE \E t \in Tasks : CallStep(t)
  BY <1>2, <1>4, CallStepKept DEF StepKept, outside, sockVars
<1> QED
  BY <1>1, <1>2, <1>3, <1>4, NextCases
     DEF HandleMessage, ReaderStumbles, ConnectFails, ConnectionLost, Resubscribe,
         Resubscribed, ReaderCrashes, RelayStep, RelayReads, RelaySendsEvent,
         RelaySendsEose, RelayDropsSub, RelayGivesMore, RelayRepeats, OthersPublish,
         vars, clientVars, sockVars

(* A querier's REQ is sent once, when the query or its retry begins.        *)
LEMMA RequestFrom ==
    ASSUME IInv, FirstAttempt, SubsInv, [Next]_vars, NEW q \in Queriers, NEW n \in {1, 2},
           RequestedIn(c2r', <<q, n>>)
    PROVE  \/ RequestedIn(c2r, <<q, n>>)
           \/ pc'[q] = "collect" /\ n = IF retried'[q] THEN 2 ELSE 1
<1>1. PICK k \in 1..Len(c2r') : c2r'[k].type = "REQ" /\ c2r'[k].sub = <<q, n>>
  BY DEF RequestedIn
<1>2. CASE SentBefore(c2r'[k])
  BY <1>1, <1>2 DEF SentBefore, RequestedIn
<1>3. CASE \E t \in Tasks : SentFrame(t, c2r'[k])
  <2>1. PICK t \in Tasks : SentFrame(t, c2r'[k])
    BY <1>3
  <2>2. \/ t \in Subscribers /\ <<q, n>> = <<t, 1>>
        \/ pc'[t] = "collect" /\ <<q, n>> = <<t, IF retried'[t] THEN 2 ELSE 1>>
    BY <1>1, <2>1 DEF SentFrame
  <2> QED
    BY <2>2, TasksApart
<1>4. CASE \E i \in resub : c2r'[k] = SubFrame("REQ", i)
  <2>1. PICK i \in resub : c2r'[k] = SubFrame("REQ", i)
    BY <1>4
  <2>2. i = <<q, n>>
    BY <1>1, <2>1 DEF SubFrame
  <2>3. i \in Subscribers \X {1}
    BY DEF SubsInv
  <2> QED
    BY <2>2, <2>3, TasksApart
<1> QED
  BY <1>2, <1>3, <1>4, SentFrom

LEMMA FreshKept ==
    ASSUME IInv, FirstAttempt, DataInv, [Next]_vars, NEW i \in SubIds, Fresh(i),
           ~RequestedIn(c2r', i)
    PROVE  Fresh(i)'
<1>1. i \notin eoseDue'
  BY EoseFrom DEF Fresh
<1>2. \A k \in 1..Len(r2c') : ~Ends(r2c'[k], i)
  BY ReceivedFrom DEF Fresh, Ends, ReceivedBefore, RelayFrame
<1>3. ASSUME NEW k \in 1..Len(queue'[i])
      PROVE  queue'[i][k].type # "EOSE"
  <2>1. CASE \E j \in 1..Len(queue[i]) : queue'[i][k] = queue[i][j]
    BY <2>1 DEF Fresh
  <2>2. CASE queue'[i][k] = ClosedFrame(i, "error")
    BY <2>2 DEF ClosedFrame
  <2>3. CASE HandleMessage /\ Head(r2c).sub = i /\ queue'[i][k] = Head(r2c)
    <3>1. r2c # <<>>
      BY <2>3 DEF HandleMessage
    <3> QED
      BY <2>3, <3>1, HeadOfLink DEF Fresh, Ends
  <2> QED
    BY <2>1, <2>2, <2>3, QueueSteps, QueuedFrom
<1> QED
  BY <1>1, <1>2, <1>3 DEF Fresh, Ends, RequestedIn

(* What a step that q does not take leaves q.                               *)
LEMMA OthersStep ==
    ASSUME IInv, FirstAttempt, [Next]_vars, NEW q \in Tasks, ~CallStep(q)
    PROVE  /\ pc'[q] = pc[q] /\ result'[q] = result[q] /\ retried'[q] = retried[q]
           /\ got'[q] = got[q] /\ atStart'[q] = atStart[q]
<1>1. CASE ~\E t \in Tasks : CallStep(t)
  BY <1>1, PlacesAlone
<1>2. ASSUME NEW t \in Tasks, CallStep(t)
      PROVE  /\ pc'[q] = pc[q] /\ result'[q] = result[q] /\ retried'[q] = retried[q]
             /\ got'[q] = got[q] /\ atStart'[q] = atStart[q]
  <2>1. t # q /\ CallShape(t) /\ MemoStep(t) /\ Kept(t)
    BY <1>2, CallShapes, CallStepKept DEF StepKept
  <2>2. /\ retried \in [Tasks -> BOOLEAN] /\ got \in [Tasks -> SUBSET Events]
        /\ atStart \in [Tasks -> SUBSET Events]
    BY DEF IInv, TypeOK, MemoType
  <2>3. retried'[q] = retried[q] /\ atStart'[q] = atStart[q]
    BY <2>1, <2>2 DEF MemoStep
  <2>4. got'[q] = got[q]
    BY <2>1, <2>2, GotOfCall DEF GotStep
  <2> QED
    BY <2>1, <2>3, <2>4 DEF Kept
<1> QED
  BY <1>1, <1>2

LEMMA QueueOfOthers ==
    ASSUME IInv, FirstAttempt, [Next]_vars, NEW q \in Tasks, ~CallStep(q),
           NEW i \in SubIds, i[1] = q
    PROVE  \/ queue'[i] = queue[i]
           \/ queue'[i] = Append(queue[i], ClosedFrame(i, "error"))
           \/ /\ HandleMessage /\ HandleSub(Head(r2c))
              /\ Head(r2c).sub = i /\ Accepts(Head(r2c))
              /\ queue'[i] = Append(queue[i], Head(r2c))
<1>1. \A t : ReadsFrom(t) = i => t = q
  BY DEF ReadsFrom, TryOf
<1> QED
  BY <1>1, QueueSteps DEF QueueStep

(* Legs of Covered, by what happens to the queue and to the link.           *)
LEMMA QueueLegKept ==
    ASSUME IInv, NEW q \in Tasks, NEW i \in SubIds, QueueLeg(q, i),
           got'[q] = got[q], atStart'[q] = atStart[q],
           \/ queue'[i] = queue[i]
           \/ \E m : m.type # "EOSE" /\ queue'[i] = Append(queue[i], m)
    PROVE  QueueLeg(q, i)' /\ \A e : InHand(q, i, e) => InHand(q, i, e)'
<1> DEFINE s == queue[i]
<1>1. s \in Seq(SubFrames)
  BY DEF IInv, TypeOK, TablesType
<1>2. CASE queue'[i] = queue[i]
  BY <1>2 DEF QueueLeg, InHand, Brings, Bears
<1>3. ASSUME NEW m, m.type # "EOSE", queue'[i] = Append(s, m)
      PROVE  QueueLeg(q, i)' /\ \A e : InHand(q, i, e) => InHand(q, i, e)'
  <2> HIDE DEF s
  <2>1. \A e : InHand(q, i, e) => InHand(q, i, e)'
    BY <1>1, <1>3, BringsGrown DEF InHand, Brings, Bears, s
  <2>2. ASSUME NEW k \in 1..Len(queue'[i]), queue'[i][k].type = "EOSE",
               NEW e \in atStart[q], e \notin got[q]
        PROVE  Brings(queue'[i], k - 1, i, e)
    <3>1. /\ Len(s) \in Nat /\ Len(queue'[i]) = Len(s) + 1
          /\ queue'[i][k] = IF k \in 1..Len(s) THEN s[k] ELSE m
      BY <1>1, <1>3, BringsGrown
    <3>2. k \in 1..Len(s) /\ queue'[i][k] = s[k]
      BY <1>3, <2>2, <3>1
    <3>3. Brings(s, k - 1, i, e)
      BY <2>2, <3>2 DEF QueueLeg, s
    <3>4. k - 1 \in 0..Len(s)
      BY <3>1, <3>2
    <3>5. Brings(Append(s, m), k - 1, i, e)
      BY <1>1, <3>3, <3>4, BringsGrown
    <3> QED
      BY <1>3, <3>5
  <2>3. QueueLeg(q, i)'
    BY <1>3, <2>2 DEF QueueLeg, Brings, Bears
  <2> QED
    BY <2>1, <2>3
<1> QED
  BY <1>2, <1>3

(* The link gains one frame, the last of its kind if it is an EOSE.         *)
LEMMA LinkLegGrown ==
    ASSUME IInv, NEW q \in Tasks, NEW i \in SubIds, LinkLeg(q, i), RelayLeg(q, i),
           atStart'[q] = atStart[q], \A e : InHand(q, i, e) => InHand(q, i, e)',
           NEW n, r2c' = Append(r2c, n),
           i \in eoseDue' => i \in eoseDue /\
              \A e : <<i, e>> \in owed => <<i, e>> \in owed' \/ Bears(n, i, e),
           Ends(n, i) => i \in eoseDue /\ \A e : <<i, e>> \notin owed
    PROVE  LinkLeg(q, i)' /\ RelayLeg(q, i)'
<1>1. r2c \in Seq(RelayFrames)
  BY DEF IInv, TypeOK, LinkType
<1>2. /\ Len(r2c) \in Nat /\ Len(r2c') = Len(r2c) + 1
      /\ \A k \in 1..Len(r2c') : r2c'[k] = IF k \in 1..Len(r2c) THEN r2c[k] ELSE n
  BY <1>1, BringsGrown
<1>7. \A e : \A j \in 0..Len(r2c) : Brings(r2c, j, i, e) => Brings(r2c', j, i, e)
  <2> SUFFICES ASSUME NEW e
               PROVE  \A j \in 0..Len(r2c) : Brings(r2c, j, i, e) => Brings(r2c', j, i, e)
    OBVIOUS
  <2>1. \A j \in 0..Len(r2c) :
           Brings(r2c, j, i, e) => Brings(Append(r2c, n), j, i, e)
    BY <1>1, BringsGrown
  <2> QED
    BY <2>1
<1>3. ASSUME NEW k \in 1..Len(r2c'), Ends(r2c'[k], i), NEW e \in atStart[q]
      PROVE  InHand(q, i, e)' \/ Brings(r2c', k - 1, i, e)
  <2>1. CASE k \in 1..Len(r2c)
    <3>1. InHand(q, i, e) \/ Brings(r2c, k - 1, i, e)
      BY <1>2, <1>3, <2>1 DEF LinkLeg
    <3>2. k - 1 \in 0..Len(r2c)
      BY <1>2, <2>1
    <3> QED
      BY <1>3, <1>7, <3>1, <3>2
  <2>2. CASE k \notin 1..Len(r2c)
    <3>1. k - 1 = Len(r2c) /\ Len(r2c) \in 0..Len(r2c) /\ Ends(n, i)
      BY <1>2, <1>3, <2>2
    <3>2. InHand(q, i, e) \/ Brings(r2c, Len(r2c), i, e)
      BY <3>1 DEF RelayLeg
    <3> QED
      BY <1>3, <1>7, <3>1, <3>2
  <2> QED
    BY <2>1, <2>2
<1>4. ASSUME i \in eoseDue', NEW e \in atStart[q]
      PROVE  InHand(q, i, e)' \/ Brings(r2c', Len(r2c'), i, e) \/ <<i, e>> \in owed'
  <2>1. InHand(q, i, e) \/ Brings(r2c, Len(r2c), i, e) \/ <<i, e>> \in owed
    BY <1>4 DEF RelayLeg
  <2>2. Brings(r2c, Len(r2c), i, e) \/ Bears(n, i, e) => Brings(r2c', Len(r2c'), i, e)
    BY <1>1, <1>2, BringsGrown
  <2> QED
    BY <1>4, <2>1, <2>2
<1>5. LinkLeg(q, i)'
  BY <1>3 DEF LinkLeg, Ends, Brings, Bears
<1>6. RelayLeg(q, i)'
  BY <1>4 DEF RelayLeg, Brings, Bears
<1> QED
  BY <1>5, <1>6

(* The link stays or is cut.                                                *)
LEMMA LinkLegCut ==
    ASSUME IInv, NEW q \in Tasks, NEW i \in SubIds, LinkLeg(q, i), RelayLeg(q, i),
           atStart'[q] = atStart[q], \A e : InHand(q, i, e) => InHand(q, i, e)',
           \/ /\ r2c' = r2c
              /\ i \in eoseDue' =>
                    \/ \A e \in atStart[q] : <<i, e>> \in owed'
                    \/ i \in eoseDue /\ \A e : <<i, e>> \in owed => <<i, e>> \in owed'
           \/ i \notin eoseDue' /\ \E n \in 0..Len(r2c) : r2c' = SubSeq(r2c, 1, n)
           \/ i \notin eoseDue' /\ \A k \in 1..Len(r2c') : r2c'[k].type # "EOSE"
    PROVE  LinkLeg(q, i)' /\ RelayLeg(q, i)'
<1>1. r2c \in Seq(RelayFrames) /\ Len(r2c) \in Nat
  BY DEF IInv, TypeOK, LinkType
<1>2. CASE r2c' = r2c /\ (i \in eoseDue' =>
               \/ \A e \in atStart[q] : <<i, e>> \in owed'
               \/ i \in eoseDue /\ \A e : <<i, e>> \in owed => <<i, e>> \in owed')
  <2>1. LinkLeg(q, i)'
    BY <1>2 DEF LinkLeg, Ends, Brings, Bears
  <2>2. RelayLeg(q, i)'
    BY <1>2 DEF RelayLeg, Brings, Bears
  <2> QED
    BY <2>1, <2>2
<1>3. ASSUME i \notin eoseDue', NEW n \in 0..Len(r2c), r2c' = SubSeq(r2c, 1, n)
      PROVE  LinkLeg(q, i)' /\ RelayLeg(q, i)'
  <2>1. Len(r2c') = n /\ \A k \in 1..Len(r2c') : k \in 1..Len(r2c) /\ r2c'[k] = r2c[k]
    BY <1>1, <1>3
  <2>2. ASSUME NEW k \in 1..Len(r2c'), Ends(r2c'[k], i), NEW e \in atStart[q]
        PROVE  InHand(q, i, e)' \/ Brings(r2c', k - 1, i, e)
    <3>1. InHand(q, i, e) \/ Brings(r2c, k - 1, i, e)
      BY <2>1, <2>2 DEF LinkLeg
    <3>2. \A j \in 1..(k - 1) : j \in 1..Len(r2c')
      BY <1>1, <1>3, <2>1
    <3> QED
      BY <2>1, <3>1, <3>2 DEF Brings
  <2>3. LinkLeg(q, i)'
    BY <1>3, <2>2 DEF LinkLeg, Ends, Brings, Bears
  <2> QED
    BY <1>3, <2>3 DEF RelayLeg
<1>4. CASE i \notin eoseDue' /\ \A k \in 1..Len(r2c') : r2c'[k].type # "EOSE"
  BY <1>4 DEF LinkLeg, RelayLeg, Ends
<1> QED
  BY <1>2, <1>3, <1>4

(* The reader takes the first frame off the link.                           *)
LEMMA LinkLegShrunk ==
    ASSUME IInv, NEW q \in Tasks, NEW i \in SubIds, LinkLeg(q, i), RelayLeg(q, i),
           r2c # <<>>, r2c' = Tail(r2c), UNCHANGED <<owed, eoseDue>>,
           atStart'[q] = atStart[q],
           \A e \in atStart[q] :
              InHand(q, i, e) \/ Bears(Head(r2c), i, e) => InHand(q, i, e)'
    PROVE  LinkLeg(q, i)' /\ RelayLeg(q, i)'
<1> DEFINE m == Head(r2c)
<1>1. r2c \in Seq(RelayFrames)
  BY DEF IInv, TypeOK, LinkType
<1>2. /\ Len(r2c) \in Nat /\ Len(r2c') = Len(r2c) - 1 /\ Len(r2c) \in 1..Len(r2c)
      /\ \A k \in 1..Len(r2c') : r2c'[k] = r2c[k + 1] /\ k + 1 \in 1..Len(r2c)
  BY <1>1
<1>3. \A n \in 1..Len(r2c) : \A e :
         Brings(r2c, n, i, e) => Bears(m, i, e) \/ Brings(r2c', n - 1, i, e)
  BY <1>1, BringsShrunk
<1>4. ASSUME NEW k \in 1..Len(r2c'), Ends(r2c'[k], i), NEW e \in atStart[q]
      PROVE  InHand(q, i, e)' \/ Brings(r2c', k - 1, i, e)
  <2>1. k + 1 \in 1..Len(r2c) /\ Ends(r2c[k + 1], i) /\ (k + 1) - 1 = k
    BY <1>2, <1>4
  <2>2. InHand(q, i, e) \/ Brings(r2c, k, i, e)
    BY <1>4, <2>1 DEF LinkLeg
  <2>3. k \in 1..Len(r2c)
    BY <1>2, <1>4
  <2>4. Brings(r2c, k, i, e) => Bears(m, i, e) \/ Brings(r2c', k - 1, i, e)
    BY <1>3, <2>3
  <2> QED
    BY <2>2, <2>4
<1>5. ASSUME i \in eoseDue, NEW e \in atStart[q]
      PROVE  InHand(q, i, e)' \/ Brings(r2c', Len(r2c'), i, e) \/ <<i, e>> \in owed
  <2>1. InHand(q, i, e) \/ Brings(r2c, Len(r2c), i, e) \/ <<i, e>> \in owed
    BY <1>5 DEF RelayLeg
  <2>2. Brings(r2c, Len(r2c), i, e) => Bears(m, i, e) \/ Brings(r2c', Len(r2c'), i, e)
    BY <1>2, <1>3
  <2> QED
    BY <2>1, <2>2
<1>6. LinkLeg(q, i)'
  BY <1>4 DEF LinkLeg, Ends, Brings, Bears
<1>7. RelayLeg(q, i)'
  BY <1>5 DEF RelayLeg, Brings, Bears
<1> QED
  BY <1>6, <1>7

(* The reader moves the first frame of the link to the end of the queue.    *)
LEMMA CoveredByMessage ==
    ASSUME IInv, FirstAttempt, SubsInv, DataInv, HandleMessage, NEW q \in Queriers,
           pc[q] = "collect", atStart[q] \cap Forged = {}, Covered(q, TryOf(q)),
           got'[q] = got[q], atStart'[q] = atStart[q], TryOf(q)' = TryOf(q)
    PROVE  Covered(q, TryOf(q))'
<1> DEFINE i == TryOf(q)
           m == Head(r2c)
<1>0. q \in Tasks /\ i \in SubIds /\ i \in subs
  BY TasksApart DEF TryOf, SubIds, SubsInv
<1>1. /\ r2c \in Seq(RelayFrames) /\ r2c # <<>> /\ r2c' = Tail(r2c)
      /\ UNCHANGED <<owed, eoseDue>>
  BY DEF HandleMessage, relayVars, IInv, TypeOK, LinkType
<1>2. queue[i] \in Seq(SubFrames) /\ queue \in [SubIds -> Seq(SubFrames)]
  BY <1>0 DEF IInv, TypeOK, TablesType
<1> HIDE DEF i
<1>3. /\ Len(r2c) \in Nat /\ 1 \in 1..Len(r2c) /\ m = r2c[1]
      /\ Len(r2c') = Len(r2c) - 1
      /\ \A k \in 1..Len(r2c') : r2c'[k] = r2c[k + 1] /\ k + 1 \in 1..Len(r2c)
  BY <1>1
<1>4. QueueLeg(q, i) /\ LinkLeg(q, i) /\ RelayLeg(q, i)
  BY DEF Covered, i
<1>6. \A e : ~Brings(r2c, 0, i, e)
  BY DEF Brings
<1> HIDE DEF m
<1>7. ASSUME \A e \in atStart[q] : InHand(q, i, e) \/ Bears(m, i, e) => InHand(q, i, e)'
      PROVE  LinkLeg(q, i)' /\ RelayLeg(q, i)'
  BY <1>0, <1>1, <1>4, <1>7, LinkLegShrunk DEF i, m
<1>8. CASE HandleSub(m) /\ Accepts(m) /\ m.sub = i
  <2>1. queue'[i] = Append(queue[i], m)
    BY <1>0, <1>2, <1>8 DEF HandleSub
  <2>2. \A e : InHand(q, i, e) \/ Bears(m, i, e) => InHand(q, i, e)'
    <3> DEFINE s == queue[i]
    <3>1. s \in Seq(SubFrames) /\ queue'[i] = Append(s, m)
      BY <1>2, <2>1
    <3> HIDE DEF s
    <3>2. \A e : Brings(s, Len(s), i, e) \/ Bears(m, i, e)
                    => Brings(Append(s, m), Len(Append(s, m)), i, e)
      BY <3>1, BringsGrown
    <3>3. \A e : Brings(s, Len(s), i, e) \/ Bears(m, i, e)
                    => Brings(queue'[i], Len(queue'[i]), i, e)
      BY <3>1, <3>2
    <3>4. \A e : InHand(q, i, e)' <=>
                   e \in got[q] \/ Brings(queue'[i], Len(queue'[i]), i, e)
      BY DEF InHand, Brings, Bears, i
    <3> QED
      BY <3>3, <3>4 DEF InHand, s
  <2>3. LinkLeg(q, i)' /\ RelayLeg(q, i)'
    BY <1>7, <2>2
  <2>4. CASE m.type # "EOSE"
    <3>1. QueueLeg(q, i)'
      BY <1>0, <1>4, <2>1, <2>4, QueueLegKept DEF i
    <3> QED
      BY <2>3, <3>1 DEF Covered, i
  <2>5. CASE m.type = "EOSE"
    <3> DEFINE s == queue[i]
    <3>1. /\ Len(s) \in Nat /\ Len(queue'[i]) = Len(s) + 1
          /\ \A k \in 1..Len(queue'[i]) :
                queue'[i][k] = IF k \in 1..Len(s) THEN s[k] ELSE m
      BY <1>2, <2>1, BringsGrown
    <3>2. ASSUME NEW k \in 1..Len(queue'[i]), queue'[i][k].type = "EOSE",
                 NEW e \in atStart[q], e \notin got[q]
          PROVE  Brings(queue'[i], k - 1, i, e)
      <4>1. k - 1 \in 0..Len(s) /\ s \in Seq(SubFrames)
        BY <1>2, <3>1
      <4>2. CASE k \in 1..Len(s)
        <5>1. Brings(s, k - 1, i, e)
          BY <1>4, <3>1, <3>2, <4>2 DEF QueueLeg
        <5> HIDE DEF s
        <5>2. Brings(Append(s, m), k - 1, i, e)
          BY <4>1, <5>1, BringsGrown
        <5> QED
          BY <2>1, <5>2 DEF s
      <4>3. CASE k \notin 1..Len(s)
        <5>1. Ends(r2c[1], i)
          BY <1>3, <1>8, <2>5 DEF Ends
        <5>2. InHand(q, i, e)
          BY <1>3, <1>4, <1>6, <3>2, <5>1 DEF LinkLeg
        <5>3. Brings(s, Len(s), i, e) /\ k - 1 = Len(s)
          BY <3>1, <3>2, <4>3, <5>2 DEF InHand
        <5>4. Brings(s, k - 1, i, e)
          BY <5>3
        <5> HIDE DEF s
        <5>5. Brings(Append(s, m), k - 1, i, e)
          BY <4>1, <5>4, BringsGrown
        <5> QED
          BY <2>1, <5>5 DEF s
      <4> QED
        BY <4>2, <4>3
    <3>3. QueueLeg(q, i)'
      BY <3>2 DEF QueueLeg, Brings, Bears, i
    <3> QED
      BY <2>3, <3>3 DEF Covered, i
  <2> QED
    BY <2>4, <2>5
<1>9. CASE ~(HandleSub(m) /\ Accepts(m) /\ m.sub = i)
  <2>1. queue'[i] = queue[i]
    BY <1>0, <1>2, <1>9 DEF HandleMessage, HandleSub, HandleOk, OnAuthChallenge, m
  <2>2. \A e \in atStart[q] : ~Bears(m, i, e)
    BY <1>0, <1>9 DEF Bears, HandleMessage, HandleSub, HandleOk, OnAuthChallenge, Accepts, m
  <2>3. QueueLeg(q, i)' /\ \A e : InHand(q, i, e) => InHand(q, i, e)'
    BY <1>0, <1>4, <2>1, QueueLegKept DEF i
  <2>4. LinkLeg(q, i)' /\ RelayLeg(q, i)'
    BY <1>7, <2>2, <2>3
  <2> QED
    BY <2>3, <2>4 DEF Covered, i
<1> QED
  BY <1>8, <1>9

(* The steps of the relay, for a subscription i whose events in hand stay   *)
(* in hand.                                                                 *)
LEMMA CoveredByRelay ==
    ASSUME IInv, \/ RelayStep \/ (\E j \in SubIds : RelayDropsSub(j))
                 \/ RelayGivesMore,
           NEW q \in Queriers, NEW i \in SubIds, atStart[q] \subseteq stored,
           LinkLeg(q, i), RelayLeg(q, i), atStart'[q] = atStart[q],
           \A e : InHand(q, i, e) => InHand(q, i, e)'
    PROVE  LinkLeg(q, i)' /\ RelayLeg(q, i)'
<1>0. q \in Tasks
  BY TasksApart
<1>1. CASE RelayReads
  <2> DEFINE m == Head(c2r)
  <2>1. CASE RelayEvent(m)
    <3>1. PICK a : r2c' = Append(r2c, OkFrame(m.ev, a))
      BY <2>1 DEF RelayEvent
    <3>2. eoseDue' = eoseDue /\ owed \subseteq owed'
      BY <2>1 DEF RelayEvent
    <3>3. ~Ends(OkFrame(m.ev, a), i)
      BY DEF Ends, OkFrame
    <3> QED
      BY <1>0, <3>1, <3>2, <3>3, LinkLegGrown
  <2>2. CASE RelayAuth(m)
    <3>1. PICK a : r2c' = Append(r2c, OkFrame(m.challenge, a))
      BY <2>2 DEF RelayAuth
    <3>2. eoseDue' = eoseDue /\ owed' = owed
      BY <2>2 DEF RelayAuth
    <3>3. ~Ends(OkFrame(m.challenge, a), i)
      BY DEF Ends, OkFrame
    <3> QED
      BY <1>0, <3>1, <3>2, <3>3, LinkLegGrown
  <2>3. CASE RelayReq(m) /\ Trusted
    <3>1. /\ r2c' = r2c /\ owed' = owed \cup ({m.sub} \X stored)
          /\ eoseDue' = eoseDue \cup {m.sub}
      BY <2>3 DEF RelayReq
    <3> HIDE DEF m
    <3>2. m.sub = i => \A e \in atStart[q] : <<i, e>> \in owed'
      BY <3>1
    <3>3. m.sub # i => (i \in eoseDue' => i \in eoseDue)
      BY <3>1
    <3>4. \A e : <<i, e>> \in owed => <<i, e>> \in owed'
      BY <3>1
    <3> QED
      BY <1>0, <3>1, <3>2, <3>3, <3>4, LinkLegCut
  <2>4. CASE RelayReq(m) /\ ~Trusted
    <3> DEFINE n == ClosedFrame(m.sub, "auth-required")
    <3>1. r2c' = Append(r2c, n) /\ eoseDue' = eoseDue /\ owed' = owed
      BY <2>4 DEF RelayReq
    <3>2. ~Ends(n, i)
      BY DEF Ends, ClosedFrame
    <3> HIDE DEF n
    <3> QED
      BY <1>0, <3>1, <3>2, LinkLegGrown
  <2>5. CASE RelayClose(m)
    <3>1. /\ r2c' = r2c /\ owed' = {o \in owed : o[1] # m.sub}
          /\ eoseDue' = eoseDue \ {m.sub}
      BY <2>5 DEF RelayClose, Forget
    <3> HIDE DEF m
    <3>2. i \in eoseDue' =>
             i \in eoseDue /\ \A e : <<i, e>> \in owed => <<i, e>> \in owed'
      BY <3>1
    <3> QED
      BY <1>0, <3>1, <3>2, LinkLegCut
  <2> QED
    BY <1>1, <2>1, <2>2, <2>3, <2>4, <2>5 DEF RelayReads
<1>2. ASSUME NEW o \in SubIds \X Events, RelaySendsEvent(o)
      PROVE  LinkLeg(q, i)' /\ RelayLeg(q, i)'
  <2> DEFINE n == EventFrame(o[1], o[2])
  <2>1. r2c' = Append(r2c, n) /\ eoseDue' = eoseDue /\ owed' = owed \ {o}
    BY <1>2 DEF RelaySendsEvent
  <2>2. ~Ends(n, i) /\ \A e : <<i, e>> = o => Bears(n, i, e)
    BY DEF Ends, Bears, EventFrame
  <2> HIDE DEF n
  <2>3. \A e : <<i, e>> \in owed => <<i, e>> \in owed' \/ Bears(n, i, e)
    BY <2>1, <2>2
  <2> QED
    BY <1>0, <2>1, <2>2, <2>3, LinkLegGrown
<1>3. ASSUME NEW j \in SubIds, RelaySendsEose(j)
      PROVE  LinkLeg(q, i)' /\ RelayLeg(q, i)'
  <2> DEFINE n == EoseFrame(j)
  <2>1. /\ r2c' = Append(r2c, n) /\ eoseDue' = eoseDue \ {j} /\ owed' = owed
        /\ j \in eoseDue /\ \A o \in owed : o[1] # j
    BY <1>3 DEF RelaySendsEose
  <2>2. Ends(n, i) => i = j
    BY DEF Ends, EoseFrame
  <2> HIDE DEF n
  <2>3. Ends(n, i) => i \in eoseDue /\ \A e : <<i, e>> \notin owed
    BY <2>1, <2>2
  <2> QED
    BY <1>0, <2>1, <2>3, LinkLegGrown
<1>4. ASSUME NEW j \in SubIds, RelayDropsSub(j)
      PROVE  LinkLeg(q, i)' /\ RelayLeg(q, i)'
  <2> DEFINE n == ClosedFrame(j, "error")
  <2>1. /\ r2c' = Append(r2c, n) /\ eoseDue' = eoseDue \ {j}
        /\ owed' = {o \in owed : o[1] # j}
    BY <1>4 DEF RelayDropsSub, Forget
  <2>2. ~Ends(n, i)
    BY DEF Ends, ClosedFrame
  <2> HIDE DEF n
  <2>3. i \in eoseDue' =>
           i \in eoseDue /\ \A e : <<i, e>> \in owed => <<i, e>> \in owed'
    BY <2>1
  <2> QED
    BY <1>0, <2>1, <2>2, <2>3, LinkLegGrown
<1>5. ASSUME NEW j \in SubIds, NEW e \in Events, RelayRepeats(j, e)
      PROVE  LinkLeg(q, i)' /\ RelayLeg(q, i)'
  <2> DEFINE n == EventFrame(j, e)
  <2>1. r2c' = Append(r2c, n) /\ eoseDue' = eoseDue /\ owed' = owed
    BY <1>5 DEF RelayRepeats, relayVars
  <2>2. ~Ends(n, i)
    BY DEF Ends, EventFrame
  <2> HIDE DEF n
  <2> QED
    BY <1>0, <2>1, <2>2, LinkLegGrown
<1>6. ASSUME NEW e \in Foreign, OthersPublish(e)
      PROVE  LinkLeg(q, i)' /\ RelayLeg(q, i)'
  <2>1. r2c' = r2c /\ eoseDue' = eoseDue /\ owed \subseteq owed'
    BY <1>6 DEF OthersPublish
  <2> QED
    BY <1>0, <2>1, LinkLegCut
<1> QED
  BY <1>1, <1>2, <1>3, <1>4, <1>5, <1>6 DEF RelayStep, RelayGivesMore

LEMMA CoveredByOthers ==
    ASSUME IInv, FirstAttempt, SubsInv, DataInv, ws # "open" => eoseDue = {},
           [Next]_vars, NEW q \in Queriers, ~CallStep(q), pc[q] = "collect",
           atStart[q] \subseteq stored \ Forged, Covered(q, TryOf(q))
    PROVE  Covered(q, TryOf(q))'
<1> DEFINE i == TryOf(q)
<1>0. q \in Tasks /\ i \in SubIds /\ i[1] = q
  BY TasksApart DEF TryOf, SubIds
<1>1. got'[q] = got[q] /\ atStart'[q] = atStart[q] /\ TryOf(q)' = TryOf(q)
  BY <1>0, OthersStep DEF TryOf
<1>2. CASE HandleMessage
  BY <1>1, <1>2, CoveredByMessage
<1>3. CASE ~HandleMessage
  <2>1. queue'[i] = queue[i] \/ queue'[i] = Append(queue[i], ClosedFrame(i, "error"))
    BY <1>0, <1>3, QueueOfOthers
  <2>2. ClosedFrame(i, "error").type # "EOSE"
    BY DEF ClosedFrame
  <2> HIDE DEF i
  <2>3. QueueLeg(q, i) /\ LinkLeg(q, i) /\ RelayLeg(q, i)
    BY DEF Covered, i
  <2>4. i' = i
    BY <1>1 DEF i
  <2> DEFINE s == queue[i]
             h == \A e : InHand(q, i, e) => InHand(q, i, e)'
  <2>5. QueueLeg(q, i)' /\ h
    BY <1>0, <1>1, <2>1, <2>2, <2>3, QueueLegKept DEF i
  <2>6. ASSUME LinkLeg(q, i)' /\ RelayLeg(q, i)'
        PROVE  Covered(q, TryOf(q))'
    BY <2>5, <2>6 DEF Covered, i
  <2>7. CASE RelayStep \/ (\E j \in SubIds : RelayDropsSub(j)) \/ RelayGivesMore
    BY <1>0, <1>1, <2>3, <2>5, <2>6, <2>7, CoveredByRelay DEF i
  <2>8. CASE UNCHANGED <<r2c, owed, eoseDue>>
    BY <1>0, <1>1, <2>3, <2>5, <2>6, <2>8, LinkLegCut DEF i
  <2>9. CASE \E t \in Tasks : CallStep(t)
    BY <2>8, <2>9, CallStepKept DEF StepKept, outside, relayVars
  <2>10. CASE Close \/ Drop
    <3>1. i \notin eoseDue'
      BY <2>10 DEF Close, Drop, RelayForgets
    <3>2. \/ \E n \in 0..Len(r2c) : r2c' = SubSeq(r2c, 1, n)
          \/ \A k \in 1..Len(r2c') : r2c'[k].type # "EOSE"
      BY <2>10 DEF Close, Drop
    <3> QED
      BY <1>0, <1>1, <2>3, <2>5, <2>6, <3>1, <3>2, LinkLegCut DEF i
  <2>11. CASE ConnectOk
    <3>1. i \notin eoseDue'
      BY <2>11 DEF ConnectOk, RelayForgets
    <3>2. \A k \in 1..Len(r2c') : r2c'[k].type # "EOSE"
      BY <2>11 DEF ConnectOk, Greeting
    <3> QED
      BY <1>0, <1>1, <2>3, <2>5, <2>6, <3>1, <3>2, LinkLegCut DEF i
  <2>12. CASE ConnectFails \/ ConnectionLost \/ (\E j \in SubIds : Resubscribe(j))
                \/ Resubscribed \/ ReaderCrashes \/ UNCHANGED vars
    BY <2>8, <2>12 DEF ConnectFails, ConnectionLost, Resubscribe, Resubscribed,
                       ReaderCrashes, vars, relayVars
  <2>13. CASE ReaderStumbles
    <3>1. r2c # <<>> /\ r2c' = Tail(r2c) /\ UNCHANGED <<owed, eoseDue>>
      BY <2>13 DEF ReaderStumbles, relayVars
    <3>2. Head(r2c).type = "EVENT" /\ Head(r2c).ev \in Forged
      BY <2>13, EventsAssumption DEF ReaderStumbles, Raises
    <3>3. \A e \in atStart[q] : ~Bears(Head(r2c), i, e)
      BY <3>2 DEF Bears
    <3> QED
      BY <1>0, <1>1, <2>3, <2>5, <2>6, <3>1, <3>3, LinkLegShrunk DEF i
  <2> QED
    BY <1>3, <2>7, <2>9, <2>10, <2>11, <2>12, <2>13, NextCases
<1> QED
  BY <1>2, <1>3

(* How a step of t ends: with the call over and a result, or with the call  *)
(* still in progress.                                                       *)
LEMMA OutcomeOfCall ==
    ASSUME IInv, NEW t \in Tasks, CallShape(t)
    PROVE  \/ Leaves(t) /\ pc'[t] = "done" /\ result'[t] # "none"
           \/ ~Leaves(t) /\ pc'[t] \notin {"idle", "done"} /\ result' = result
<1>1. pc \in [Tasks -> Places] /\ result \in [Tasks -> Results]
  BY DEF IInv, TypeOK, CallsType
<1>2. CASE Leaves(t)
  <2>1. PICK r \in Results \ {"none"} : Leave(t, r)
    BY <1>2 DEF Leaves
  <2>2. pc'[t] = "done" /\ (result'[t] = r \/ result'[t] = "connClosed")
    BY <1>1, <2>1 DEF Leave
  <2> QED
    BY <1>2, <2>1, <2>2
<1>3. CASE ~Leaves(t)
  <2>1. pc'[t] \notin {"idle", "done"} /\ result' = result
    <3>1. CASE Publishes(t) \/ Queries(t) \/ Subscribes(t)
      BY <1>1, <3>1 DEF Publishes, PublishSigned, Queries, QueryScoped, Subscribes,
                        Request, MayStart
    <3>2. CASE SendsAuth(t) \/ GoesOn(t) \/ AwaitsChallenge(t)
      BY <1>1, <3>2 DEF SendsAuth, SendAuth, GoesOn, Authenticated, AwaitsChallenge
    <3>3. CASE Asks(t)
      BY <1>1, <3>3 DEF Asks, AskAuth
    <3>4. CASE TakesItem(t)
      BY <3>4 DEF TakesItem
    <3> QED
      BY <1>3, <3>1, <3>2, <3>3, <3>4 DEF CallShape
  <2> QED
    BY <1>3, <2>1
<1> QED
  BY <1>2, <1>3

ResInv == \A t \in Tasks : result[t] # "none" <=> pc[t] = "done"

LEMMA ResInvNext ==
    ASSUME IInv, FirstAttempt, ResInv, [Next]_vars
    PROVE  ResInv'
<1>1. ASSUME NEW t \in Tasks
      PROVE  result'[t] # "none" <=> pc'[t] = "done"
  <2>1. CASE CallStep(t)
    <3>1. CallShape(t)
      BY <2>1, CallShapes
    <3>2. pc[t] # "done"
      BY <3>1, DoneIsDone
    <3> QED
      BY <3>1, <3>2, OutcomeOfCall DEF ResInv
  <2>2. CASE ~CallStep(t)
    BY <2>2, OthersStep DEF ResInv
  <2> QED
    BY <2>1, <2>2
<1> QED
  BY <1>1 DEF ResInv

-----------------------------------------------------------------------------
(* A step of the query itself.                                              *)
LEMMA CoveredByQuery ==
    ASSUME IInv, FirstAttempt, DataInv, QueryInv, NEW q \in Queriers, CallStep(q),
           pc'[q] = "collect"
    PROVE  Covered(q, TryOf(q))'
<1>0. q \in Tasks /\ q \notin Publishers /\ q \notin Subscribers
  BY TasksApart
<1>1. CallShape(q) /\ MemoStep(q) /\ UNCHANGED <<r2c, eoseDue, owed>>
  BY <1>0, CallShapes, CallStepKept DEF StepKept, outside, relayVars
<1>2. /\ pc \in [Tasks -> Places] /\ retried \in [Tasks -> BOOLEAN]
      /\ got \in [Tasks -> SUBSET Events] /\ queue \in [SubIds -> Seq(SubFrames)]
  BY DEF IInv, TypeOK, CallsType, MemoType, TablesType
<1>3. CASE Queries(q)
  <2>1. queue' = queue /\ pc[q] \in {"idle", "resume"} /\ ~retried[q]
    BY <1>3 DEF Queries, QueryScoped, MayStart, FirstAttempt
  <2>2. Fresh(TryOf(q)')
    <3>1. CASE pc[q] = "idle"
      <4>1. TryOf(q)' = <<q, 1>>
        BY <1>1, <2>1, <3>1 DEF MemoStep, TryOf
      <4> QED
        BY <3>1, <4>1 DEF QueryInv
    <3>2. CASE pc[q] = "resume"
      <4>1. TryOf(q)' = <<q, 2>>
        BY <1>0, <1>1, <1>2, <3>2 DEF MemoStep, TryOf
      <4> QED
        BY <2>1, <4>1 DEF QueryInv
    <3> QED
      BY <2>1, <3>1, <3>2
  <2> QED
    BY <1>1, <2>1, <2>2 DEF Covered, QueueLeg, LinkLeg, RelayLeg, Fresh, Ends, TryOf
<1>4. CASE TakesItem(q)
  <2> DEFINE i == TryOf(q)
             s == queue[i]
             x == Head(s)
  <2>1. /\ pc[q] = "collect" /\ s # <<>> /\ x.type = "EVENT"
        /\ got' = [got EXCEPT ![q] = got[q] \cup {x.ev}]
        /\ queue' = [queue EXCEPT ![i] = Tail(s)]
    BY <1>0, <1>4 DEF TakesItem, ReadsFrom
  <2>2. i \in SubIds /\ s \in Seq(SubFrames)
    BY <1>2 DEF TryOf, SubIds
  <2>3. TryOf(q)' = i /\ atStart'[q] = atStart[q]
    BY <1>1, <2>1 DEF MemoStep, TryOf
  <2>4. queue'[i] = Tail(s) /\ got'[q] = got[q] \cup {x.ev}
    BY <1>0, <1>2, <2>1, <2>2
  <2>5. QueueLeg(q, i) /\ LinkLeg(q, i) /\ RelayLeg(q, i)
    BY <2>1 DEF QueryInv, Covered
  <2> HIDE DEF x, i
  <2>6. /\ \A n \in 1..Len(s) : \A e : Brings(s, n, i, e) =>
              Bears(x, i, e) \/ Brings(Tail(s), n - 1, i, e)
        /\ Len(s) \in Nat /\ Len(Tail(s)) = Len(s) - 1 /\ Len(s) \in 1..Len(s)
        /\ \A k \in 1..Len(Tail(s)) : Tail(s)[k] = s[k + 1] /\ k + 1 \in 1..Len(s)
    <3> HIDE DEF s
    <3>1. Len(s) \in Nat /\ Len(Tail(s)) = Len(s) - 1 /\ Len(s) \in 1..Len(s)
      BY <2>1, <2>2
    <3>2. \A n \in 1..Len(s) : \A e : Brings(s, n, i, e) =>
              Bears(Head(s), i, e) \/ Brings(Tail(s), n - 1, i, e)
      BY <2>1, <2>2, BringsShrunk
    <3>3. \A k \in 1..Len(Tail(s)) : Tail(s)[k] = s[k + 1] /\ k + 1 \in 1..Len(s)
      BY <3>1, <2>1, <2>2
    <3> QED
      BY <3>1, <3>2, <3>3 DEF x
  <2> HIDE DEF s
  <2>7. \A e : Bears(x, i, e) => e \in got'[q]
    BY <2>4 DEF Bears
  <2>8. ASSUME NEW e, InHand(q, i, e)
        PROVE  e \in got'[q] \/ Brings(queue'[i], Len(queue'[i]), i, e)
    BY <2>4, <2>6, <2>7, <2>8 DEF InHand, s
  <2>9. ASSUME NEW k \in 1..Len(queue'[i]), queue'[i][k].type = "EOSE",
               NEW e \in atStart[q]
        PROVE  e \in got'[q] \/ Brings(queue'[i], k - 1, i, e)
    <3>1. k + 1 \in 1..Len(s) /\ s[k + 1].type = "EOSE" /\ (k + 1) - 1 = k /\ k \in 1..Len(s)
      BY <2>4, <2>6, <2>9
    <3>2. e \in got[q] \/ Brings(s, k, i, e)
      BY <2>5, <3>1 DEF QueueLeg, s
    <3> QED
      BY <2>4, <2>6, <2>7, <3>1, <3>2
  <2>10. QueueLeg(q, i)'
    BY <2>3, <2>9 DEF QueueLeg, Brings, Bears, i
  <2>11. \A e : InHand(q, i, e) => InHand(q, i, e)'
    BY <2>3, <2>8 DEF InHand, Brings, Bears, i
  <2>12. LinkLeg(q, i)' /\ RelayLeg(q, i)'
    BY <1>0, <1>1, <2>2, <2>3, <2>5, <2>11, LinkLegCut DEF i
  <2> QED
    BY <2>10, <2>12 DEF Covered, i
<1>5. CASE ~Queries(q) /\ ~TakesItem(q)
  <2>1. pc'[q] # "collect"
    <3>1. CASE Leaves(q)
      BY <1>0, <1>2, <3>1 DEF Leaves, Leave
    <3>2. CASE SendsAuth(q) \/ GoesOn(q) \/ AwaitsChallenge(q)
      BY <1>0, <1>2, <3>2 DEF SendsAuth, SendAuth, GoesOn, Authenticated, AwaitsChallenge
    <3>3. CASE Asks(q)
      BY <1>0, <1>2, <3>3 DEF Asks, AskAuth
    <3> QED
      BY <1>0, <1>1, <1>5, <3>1, <3>2, <3>3 DEF CallShape, Publishes, Subscribes
  <2> QED
    BY <2>1
<1> QED
  BY <1>3, <1>4, <1>5

(* A query that returns has what it had to find.                            *)
LEMMA QueryAnswered ==
    ASSUME IInv, FirstAttempt, QueryInv, ResInv, [Next]_vars,
           NEW q \in Queriers, result'[q] = "ok"
    PROVE  atStart'[q] \subseteq got'[q]
<1>0. q \in Tasks /\ q \notin Publishers
  BY TasksApart
<1>1. CASE ~CallStep(q)
  BY <1>0, <1>1, OthersStep DEF QueryInv
<1>2. CASE CallStep(q)
  <2>1. CallShape(q) /\ MemoStep(q)
    BY <1>0, <1>2, CallShapes
  <2>2. Leaves(q)
    BY <1>0, <2>1, OutcomeOfCall, DoneIsDone DEF ResInv
  <2>3. PICK r \in Results \ {"none"} : Leave(q, r) /\ (r = "ok" => Successful(q))
    BY <2>2 DEF Leaves
  <2>4. r = "ok"
    BY <1>0, <2>3 DEF Leave, IInv, TypeOK, CallsType
  <2> DEFINE i == TryOf(q)
             s == queue[i]
  <2>5. pc[q] = "collect" /\ s # <<>> /\ Head(s).type = "EOSE"
    BY <1>0, <2>3, <2>4 DEF Successful, ReadsFrom
  <2>6. i \in SubIds
    BY DEF TryOf, SubIds
  <2>7. s \in Seq(SubFrames)
    BY <2>6 DEF IInv, TypeOK, TablesType
  <2>8. 1 \in 1..Len(s) /\ s[1] = Head(s)
    BY <2>5, <2>7
  <2>9. QueueLeg(q, i)
    BY <2>5 DEF QueryInv, Covered
  <2>10. \A e : ~Brings(s, 1 - 1, i, e)
    BY DEF Brings
  <2>11. atStart[q] \subseteq got[q]
    BY <2>5, <2>8, <2>9, <2>10 DEF QueueLeg
  <2> QED
    BY <2>1, <2>2, <2>5, <2>11 DEF Leaves, MemoStep
<1> QED
  BY <1>1, <1>2

LEMMA QueryInvNext ==
    ASSUME IInv, FirstAttempt, SubsInv, DataInv, QueryInv, ResInv, [Next]_vars
    PROVE  QueryInv'
<1>1. (ws # "open" => eoseDue = {})'
  BY DebtsEnd DEF QueryInv
<1>2. ASSUME NEW q \in Queriers
      PROVE  /\ (atStart[q] \subseteq stored \ Forged)'
             /\ pc'[q] = "idle" => Fresh(<<q, 1>>)'
             /\ ~retried'[q] => Fresh(<<q, 2>>)'
             /\ pc'[q] = "collect" => Covered(q, TryOf(q))'
             /\ result'[q] = "ok" => atStart'[q] \subseteq got'[q]
  <2>0. q \in Tasks /\ <<q, 1>> \in SubIds /\ <<q, 2>> \in SubIds
    BY TasksApart DEF SubIds
  <2>1. CallStep(q) => CallShape(q) /\ MemoStep(q)
    BY <2>0, CallShapes
  <2>2. atStart'[q] = atStart[q] \/ atStart'[q] = stored \ Forged
    <3>1. CASE CallStep(q)
      BY <2>0, <2>1, <3>1 DEF MemoStep, IInv, TypeOK, MemoType
    <3> QED
      BY <2>0, <3>1, OthersStep
  <2>3. atStart'[q] \subseteq stored' \ Forged
    BY <2>2, StoredGrows DEF QueryInv
  <2>4. pc'[q] = "idle" => pc[q] = "idle"
    BY <2>0, <2>1, OthersStep, OutcomeOfCall
  <2>5. ~retried'[q] => ~retried[q]
    <3>1. CASE CallStep(q)
      BY <2>0, <2>1, <3>1, TasksApart DEF MemoStep, IInv, TypeOK, MemoType
    <3> QED
      BY <2>0, <3>1, OthersStep
  <2>6. ASSUME pc'[q] = "idle"
        PROVE  Fresh(<<q, 1>>)'
    <3>1. Fresh(<<q, 1>>)
      BY <2>4, <2>6 DEF QueryInv
    <3>2. ~RequestedIn(c2r', <<q, 1>>)
      BY <2>6, <3>1, RequestFrom DEF Fresh
    <3> QED
      BY <2>0, <3>1, <3>2, FreshKept
  <2>7. ASSUME ~retried'[q]
        PROVE  Fresh(<<q, 2>>)'
    <3>1. Fresh(<<q, 2>>)
      BY <2>5, <2>7 DEF QueryInv
    <3>2. ~RequestedIn(c2r', <<q, 2>>)
      <4>1. ~RequestedIn(c2r, <<q, 2>>)
        BY <3>1 DEF Fresh
      <4>2. 2 \in {1, 2} /\ 2 # IF retried'[q] THEN 2 ELSE 1
        BY <2>7
      <4>3. RequestedIn(c2r', <<q, 2>>) => RequestedIn(c2r, <<q, 2>>)
                 \/ 2 = IF retried'[q] THEN 2 ELSE 1
        BY RequestFrom
      <4> QED
        BY <4>1, <4>2, <4>3
    <3> QED
      BY <2>0, <3>1, <3>2, FreshKept
  <2>8. ASSUME pc'[q] = "collect"
        PROVE  Covered(q, TryOf(q))'
    <3>1. CASE CallStep(q)
      BY <2>8, <3>1, CoveredByQuery
    <3>2. CASE ~CallStep(q)
      <4>1. pc[q] = "collect"
        BY <2>0, <2>8, <3>2, OthersStep
      <4> QED
        BY <3>2, <4>1, CoveredByOthers DEF QueryInv
    <3> QED
      BY <3>1, <3>2
  <2> QED
    BY <2>3, <2>6, <2>7, <2>8, QueryAnswered
<1> QED
  BY <1>1, <1>2 DEF QueryInv

LEMMA QueryInit == Init => QueryInv /\ ResInv
<1> SUFFICES ASSUME Init PROVE QueryInv /\ ResInv
  OBVIOUS
<1>1. ResInv
  BY DEF Init, ResInv
<1>2. \A k \in 1..Len(r2c) : r2c[k].type # "EOSE"
  BY DEF Init, Greeting
<1>3. \A i \in SubIds : Fresh(i)
  BY <1>2 DEF Init, Fresh, Ends, RequestedIn
<1>4. \A q \in Queriers : q \in Tasks /\ <<q, 1>> \in SubIds /\ <<q, 2>> \in SubIds
  BY TasksApart DEF SubIds
<1> QED
  BY <1>1, <1>3, <1>4 DEF Init, QueryInv

LEMMA QueryHolds == Spec => [](QueryInv /\ ResInv)
<1>1. IInv /\ FirstAttempt /\ SubsInv /\ DataInv /\ QueryInv /\ ResInv
      /\ [Next]_vars => (QueryInv /\ ResInv)'
  BY QueryInvNext, ResInvNext
<1> QED
  BY <1>1, QueryInit, IInvHolds, FreshHolds, TablesHold, DataHolds, PTL DEF Spec

(* A query that returns has every verified event the relay held when it was *)
(* called, across drops, an authentication and its retry: the EOSE it       *)
(* returns on is of the attempt in progress, and everything it had to find  *)
(* came before (_query_scoped).                                             *)
THEOREM CompleteQueries == Spec => []QueryIsComplete
<1>1. QueryInv => QueryIsComplete
  BY DEF QueryInv, QueryIsComplete
<1> QED
  BY <1>1, QueryHolds, PTL

-----------------------------------------------------------------------------
(* RelayClient implements RelayPort.                                        *)

(* What is on its way to be accepted was published by a call that began.    *)
PubInv ==
    \A k \in 1..Len(c2r) : c2r[k].type = "EVENT" =>
        \E p \in Publishers : c2r[k].ev = EventOf[p] /\ pc[p] # "idle"

LEMMA PubInvNext ==
    ASSUME IInv, FirstAttempt, PubInv, [Next]_vars
    PROVE  PubInv'
<1>1. ASSUME NEW t \in Tasks, pc[t] # "idle" \/ CallStep(t)
      PROVE  pc'[t] # "idle"
  BY <1>1, CallShapes, OutcomeOfCall, OthersStep
<1>2. ASSUME NEW k \in 1..Len(c2r'), c2r'[k].type = "EVENT"
      PROVE  \E p \in Publishers : c2r'[k].ev = EventOf[p] /\ pc'[p] # "idle"
  <2>1. CASE SentBefore(c2r'[k])
    BY <1>1, <1>2, <2>1, TasksApart DEF SentBefore, PubInv
  <2>2. ASSUME NEW t \in Tasks, CallStep(t), SentFrame(t, c2r'[k])
        PROVE  \E p \in Publishers : c2r'[k].ev = EventOf[p] /\ pc'[p] # "idle"
    BY <1>1, <1>2, <2>2 DEF SentFrame
  <2>3. \A i : c2r'[k] # SubFrame("REQ", i)
    BY <1>2 DEF SubFrame
  <2> QED
    BY <2>1, <2>2, <2>3, SentFrom
<1> QED
  BY <1>2 DEF PubInv

(* How the relay comes to hold more.                                        *)
LEMMA StoredFrom ==
    ASSUME IInv, PubInv, [Next]_vars, ~\E t \in Tasks : CallStep(t)
    PROVE  \/ stored' = stored
           \/ \E p \in Publishers : /\ pc[p] # "idle" /\ EventOf[p] \notin Blocked
                                    /\ stored' = stored \cup {EventOf[p]}
           \/ \E e \in Foreign : e \notin Blocked /\ stored' = stored \cup {e}
<1>1. CASE RelayReads
  <2> DEFINE m == Head(c2r)
  <2>1. c2r # <<>> /\ c2r \in Seq(ClientFrames)
    BY <1>1 DEF RelayReads, IInv, TypeOK, LinkType
  <2>2. 1 \in 1..Len(c2r) /\ c2r[1] = m
    BY <2>1
  <2> HIDE DEF m
  <2>3. CASE RelayEvent(m)
    <3>1. m.type = "EVENT"
      BY <2>3 DEF RelayEvent
    <3>2. stored' = stored \/ (m.ev \notin Blocked /\ stored' = stored \cup {m.ev})
      BY <2>3 DEF RelayEvent
    <3>3. PICK p \in Publishers : m.ev = EventOf[p] /\ pc[p] # "idle"
      BY <2>2, <3>1 DEF PubInv
    <3> QED
      BY <3>2, <3>3
  <2>4. CASE RelayReq(m) \/ RelayClose(m) \/ RelayAuth(m)
    BY <2>4 DEF RelayReq, RelayClose, RelayAuth
  <2> QED
    BY <1>1, <2>3, <2>4 DEF RelayReads, m
<1>2. CASE (RelayStep /\ ~RelayReads) \/ \E j \in SubIds : RelayDropsSub(j)
  BY <1>2 DEF RelayStep, RelaySendsEvent, RelaySendsEose, RelayDropsSub
<1>3. CASE HandleMessage \/ ReaderStumbles \/ ConnectFails \/ ConnectionLost
             \/ ConnectOk \/ (\E j \in SubIds : Resubscribe(j)) \/ Resubscribed
             \/ ReaderCrashes \/ Close \/ Drop \/ UNCHANGED vars
  BY <1>3 DEF HandleMessage, ReaderStumbles, ConnectFails, ConnectionLost, ConnectOk, Resubscribe,
              Resubscribed, ReaderCrashes, Close, Drop, vars, relayVars, RelayForgets
<1>4. CASE RelayGivesMore
  BY <1>4 DEF RelayGivesMore, RelayRepeats, OthersPublish, relayVars
<1> QED
  BY <1>1, <1>2, <1>3, <1>4, NextCases

Phases    == [t \in Tasks |-> Phase(t)]
Delivered == [t \in Tasks |-> HandedOver(t)]

(* A step of t changes what the port shows of t, and nothing else.          *)
LEMMA PortOfCall ==
    ASSUME IInv, FirstAttempt, NEW t \in Tasks, CallStep(t)
    PROVE  /\ Phases' = [Phases EXCEPT ![t] = Phase(t)']
           /\ Delivered' = [Delivered EXCEPT ![t] = HandedOver(t)']
           /\ result' = [result EXCEPT ![t] = result'[t]]
           /\ stored' = stored
           /\ atStart' = IF pc[t] = "idle" /\ t \in Queriers
                         THEN [atStart EXCEPT ![t] = stored \ Forged] ELSE atStart
<1>1. CallShape(t) /\ MemoStep(t) /\ StepKept(t)
  BY CallShapes, CallStepKept
<1>2. result' \in [Tasks -> Results] /\ result \in [Tasks -> Results]
  BY <1>1 DEF StepKept, Kept, CallsType, IInv, TypeOK
<1>3. \A u \in Tasks \ {t} : pc'[u] = pc[u] /\ result'[u] = result[u]
  BY <1>1 DEF StepKept, Kept
<1>4. \A u \in Tasks \ {t} : got'[u] = got[u]
  BY <1>1, GotOfCall DEF GotStep, IInv, TypeOK, MemoType
<1>5. \A u \in Tasks \ {t} : Phase(u)' = Phase(u)
  BY <1>3 DEF Phase
<1>6. \A u \in Tasks \ {t} : HandedOver(u)' = HandedOver(u)
  BY <1>3, <1>4 DEF HandedOver
<1>7. Phases' = [Phases EXCEPT ![t] = Phase(t)']
  BY <1>5 DEF Phases
<1>8. Delivered' = [Delivered EXCEPT ![t] = HandedOver(t)']
  BY <1>6 DEF Delivered
<1>9. result' = [result EXCEPT ![t] = result'[t]]
  BY <1>2, <1>3
<1>10. stored' = stored
  BY <1>1 DEF StepKept, outside, relayVars
<1> QED
  BY <1>1, <1>7, <1>8, <1>9, <1>10 DEF MemoStep

(* What a querier has collected is not handed over before its call ends.    *)
LEMMA HandedOverWhile ==
    ASSUME ResInv, IInv, FirstAttempt, NEW t \in Tasks, CallStep(t), result'[t] # "ok",
           ~(TakesItem(t) /\ t \in Subscribers)
    PROVE  HandedOver(t)' = HandedOver(t)
<1>1. CallShape(t) /\ pc[t] # "done" /\ GotStep(t)
  BY CallShapes, DoneIsDone, GotOfCall
<1>2. result[t] = "none"
  BY <1>1 DEF ResInv
<1>3. t \notin Queriers => got'[t] = got[t]
  BY <1>1 DEF GotStep, Queries, TakesItem
<1> QED
  BY <1>2, <1>3 DEF HandedOver

(* The first step of a call.                                                *)
LEMMA CallsAtPort ==
    ASSUME IInv, FirstAttempt, ResInv, NEW t \in Tasks, CallStep(t), pc[t] = "idle"
    PROVE  Port!Call(t) \/ Port!CallFails(t)
<1>1. CallShape(t) /\ result[t] = "none" /\ Phase(t) = "idle"
  BY CallShapes DEF ResInv, Phase
<1>2. /\ Phases' = [Phases EXCEPT ![t] = Phase(t)']
      /\ Delivered' = [Delivered EXCEPT ![t] = HandedOver(t)']
      /\ result' = [result EXCEPT ![t] = result'[t]]
      /\ stored' = stored
      /\ atStart' = IF t \in Queriers THEN [atStart EXCEPT ![t] = stored \ Forged]
                                      ELSE atStart
  BY PortOfCall
<1>3. ~TakesItem(t) /\ ~Successful(t)
  BY DEF TakesItem, Successful
<1>4. CASE Leaves(t)
  <2>1. PICK r \in Results \ {"none"} : Leave(t, r) /\ (r = "ok" => Successful(t))
    BY <1>4 DEF Leaves
  <2>2. result'[t] \in Port!Errors
    BY <1>3, <2>1 DEF Leave, Results, Port!Errors, IInv, TypeOK, CallsType
  <2>3. result'[t] # "ok"
    BY <2>2 DEF Port!Errors
  <2>4. Phase(t)' = "done"
    BY <1>1, <1>4, OutcomeOfCall DEF Phase
  <2>5. Delivered' = Delivered
    BY <1>2, <1>3, <2>3, HandedOverWhile DEF Delivered
  <2>6. Phases[t] = "idle"
    BY <1>1 DEF Phases
  <2>7. Port!Snapshot(t)
    BY <1>2 DEF Port!Snapshot
  <2> QED
    BY <1>2, <2>2, <2>4, <2>5, <2>6, <2>7
       DEF Port!CallFails, Phases, Delivered
<1>5. CASE ~Leaves(t)
  <2>1. pc'[t] \notin {"idle", "done"} /\ result' = result
    BY <1>1, <1>5, OutcomeOfCall
  <2>2. Phase(t)' = "pending"
    BY <2>1 DEF Phase
  <2>3. result'[t] # "ok"
    BY <1>1, <2>1
  <2>4. Delivered' = Delivered
    BY <1>2, <1>3, <2>3, HandedOverWhile DEF Delivered
  <2>5. Phases[t] = "idle"
    BY <1>1 DEF Phases
  <2>6. Port!Snapshot(t)
    BY <1>2 DEF Port!Snapshot
  <2> QED
    BY <1>2, <2>1, <2>2, <2>4, <2>5, <2>6 DEF Port!Call, Phases, Delivered
<1> QED
  BY <1>4, <1>5

(* The last step of a call that had begun.                                  *)
LEMMA ReturnsAtPort ==
    ASSUME IInv, FirstAttempt, QueryInv, ResInv, DataInv, PublishInv,
           NEW t \in Tasks, CallStep(t), pc[t] # "idle", Leaves(t)
    PROVE  \/ Port!Fails(t)
           \/ t \in Publishers /\ Port!Published(t)
           \/ t \in Queriers /\ Port!Answered(t)
<1>1. CallShape(t) /\ pc[t] # "done"
  BY CallShapes, DoneIsDone
<1>2. /\ Phases' = [Phases EXCEPT ![t] = Phase(t)']
      /\ Delivered' = [Delivered EXCEPT ![t] = HandedOver(t)']
      /\ result' = [result EXCEPT ![t] = result'[t]]
      /\ stored' = stored /\ atStart' = atStart
  BY PortOfCall
<1>3. Phase(t)' = "done" /\ Phases[t] = "pending"
  BY <1>1, OutcomeOfCall DEF Phase, Phases
<1>4. PICK r \in Results \ {"none"} : Leave(t, r) /\ (r = "ok" => Successful(t))
  BY DEF Leaves
<1>5. result'[t] \in Port!Errors \cup {"ok"} /\ (result'[t] = "ok" => Successful(t))
  BY <1>4 DEF Leave, Results, Port!Errors, IInv, TypeOK, CallsType
<1>6. Port!Return(t, result'[t])
  BY <1>2, <1>3 DEF Port!Return, Phases
<1>7. ~TakesItem(t) \/ t \notin Subscribers
  <2>1. TakesItem(t) => pc'[t] # "done"
    BY <1>1 DEF TakesItem
  <2> QED
    BY <1>1, <2>1, OutcomeOfCall
<1>8. CASE result'[t] # "ok"
  <2>1. Delivered' = Delivered
    BY <1>2, <1>7, <1>8, HandedOverWhile DEF Delivered
  <2> QED
    BY <1>5, <1>6, <1>8, <2>1 DEF Port!Fails, Delivered
<1>9. CASE result'[t] = "ok" /\ t \in Publishers
  <2>1. t \notin Queriers /\ got' = got
    BY <1>9, TasksApart DEF Leaves
  <2>2. HandedOver(t)' = HandedOver(t)
    BY <2>1 DEF HandedOver
  <2>3. Delivered' = Delivered
    BY <1>2, <2>2 DEF Delivered
  <2>4. EventOf[t] \in stored
    BY <1>5, <1>9, <2>1 DEF Successful, PublishInv, AwaitsOk
  <2> QED
    BY <1>6, <1>9, <2>3, <2>4 DEF Port!Published, Delivered
<1>10. CASE result'[t] = "ok" /\ t \in Queriers
  <2>1. got' = got
    BY DEF Leaves
  <2>2. atStart'[t] \subseteq got'[t]
    BY <1>10, QueryAnswered DEF Next, CallStep, Tasks
  <2>3. got[t] \in SUBSET (stored \ Forged) /\ atStart[t] \subseteq got[t]
    BY <1>2, <2>1, <2>2 DEF DataInv, DeliveredIsVerified
  <2>4. HandedOver(t)' = got[t]
    BY <1>10, <2>1 DEF HandedOver
  <2>5. Delivered' = [Delivered EXCEPT ![t] = got[t]]
    BY <1>2, <2>4
  <2> QED
    BY <1>6, <1>10, <2>3, <2>5 DEF Port!Answered, Delivered
<1> QED
  BY <1>5, <1>8, <1>9, <1>10 DEF Successful

(* Every other step of a call that had begun.                               *)
LEMMA ProgressAtPort ==
    ASSUME IInv, FirstAttempt, ResInv, DataInv,
           NEW t \in Tasks, CallStep(t), pc[t] # "idle", ~Leaves(t)
    PROVE  \/ UNCHANGED Port!portVars
           \/ t \in Subscribers /\ \E e \in Events : Port!Deliver(t, e)
<1>1. CallShape(t) /\ pc[t] # "done" /\ GotStep(t) /\ result[t] = "none"
  BY CallShapes, DoneIsDone, GotOfCall DEF ResInv
<1>2. /\ Phases' = [Phases EXCEPT ![t] = Phase(t)']
      /\ Delivered' = [Delivered EXCEPT ![t] = HandedOver(t)']
      /\ stored' = stored /\ atStart' = atStart
  BY PortOfCall
<1>3. pc'[t] \notin {"idle", "done"} /\ result' = result
  BY <1>1, OutcomeOfCall
<1>4. Phase(t)' = Phase(t) /\ Phase(t) = "pending"
  BY <1>1, <1>3 DEF Phase
<1>5. Phases' = Phases /\ Phases[t] = "pending"
  BY <1>2, <1>4 DEF Phases
<1>6. CASE TakesItem(t) /\ t \in Subscribers /\ got' # got
  <2> DEFINE s == queue[<<t, 1>>]
             e == Head(s).ev
  <2>1. t \notin Queriers
    BY <1>6, TasksApart
  <2>2. /\ s # <<>> /\ Head(s).type = "EVENT"
        /\ got' = [got EXCEPT ![t] = got[t] \cup {e}]
    BY <1>6, <2>1 DEF TakesItem, ReadsFrom
  <2>3. <<t, 1>> \in SubIds
    BY <1>6 DEF SubIds
  <2>4. s \in Seq(SubFrames)
    BY <2>3 DEF IInv, TypeOK, TablesType
  <2>5. 1 \in 1..Len(s) /\ s[1] = Head(s)
    BY <2>2, <2>4
  <2>6. e \in stored \ Forged
    BY <2>2, <2>3, <2>5 DEF DataInv
  <2>7. e \in Events
    BY <2>6 DEF IInv, TypeOK, RelayType
  <2> HIDE DEF e
  <2>8. HandedOver(t)' = HandedOver(t) \cup {e}
    BY <2>1, <2>2 DEF HandedOver, IInv, TypeOK, MemoType
  <2>9. Delivered' = [Delivered EXCEPT ![t] = Delivered[t] \cup {e}]
    BY <1>2, <2>8 DEF Delivered
  <2> QED
    BY <1>2, <1>3, <1>5, <1>6, <2>6, <2>7, <2>9 DEF Port!Deliver, Phases, Delivered
<1>7. CASE ~(TakesItem(t) /\ t \in Subscribers /\ got' # got)
  <2>1. HandedOver(t)' = HandedOver(t)
    <3>1. CASE TakesItem(t) /\ t \in Subscribers
      BY <1>3, <1>7, <3>1 DEF HandedOver
    <3>2. CASE ~(TakesItem(t) /\ t \in Subscribers)
      BY <1>1, <1>3, <3>2, HandedOverWhile
    <3> QED
      BY <3>1, <3>2
  <2>2. Delivered' = Delivered
    BY <1>2, <2>1 DEF Delivered
  <2> QED
    BY <1>2, <1>3, <1>5, <2>2 DEF Port!portVars, Phases, Delivered
<1> QED
  BY <1>6, <1>7

(* The steps of the reader, the link and the relay.                         *)
LEMMA OthersAtPort ==
    ASSUME IInv, PubInv, [Next]_vars, ~\E t \in Tasks : CallStep(t)
    PROVE  \/ UNCHANGED Port!portVars
           \/ \E p \in Publishers : Port!Accept(p)
           \/ \E e \in Foreign : Port!OthersAccepted(e)
<1>1. UNCHANGED <<pc, got, result, atStart>>
  BY PlacesAlone
<1>2. \A t \in Tasks : Phase(t)' = Phase(t) /\ HandedOver(t)' = HandedOver(t)
  BY <1>1 DEF Phase, HandedOver
<1>3. Phases' = Phases /\ Delivered' = Delivered
  BY <1>2 DEF Phases, Delivered
<1>4. CASE stored' = stored
  BY <1>1, <1>3, <1>4 DEF Port!portVars, Phases, Delivered
<1>5. ASSUME NEW p \in Publishers, pc[p] # "idle", EventOf[p] \notin Blocked,
             stored' = stored \cup {EventOf[p]}
      PROVE  Port!Accept(p)
  <2>1. Phases[p] # "idle"
    BY <1>5, TasksApart DEF Phases, Phase
  <2> QED
    BY <1>1, <1>3, <1>5, <2>1 DEF Port!Accept, Phases, Delivered
<1>6. ASSUME NEW e \in Foreign, e \notin Blocked, stored' = stored \cup {e}
      PROVE  Port!OthersAccepted(e)
  BY <1>1, <1>3, <1>6 DEF Port!OthersAccepted, Phases, Delivered
<1> QED
  BY <1>4, <1>5, <1>6, StoredFrom

LEMMA PortStep ==
    ASSUME IInv, FirstAttempt, QueryInv, ResInv, DataInv, PublishInv, PubInv, [Next]_vars
    PROVE  [Port!PortNext]_Port!portVars
<1>1. ASSUME NEW t \in Tasks, CallStep(t)
      PROVE  [Port!PortNext]_Port!portVars
  <2>1. CASE pc[t] = "idle"
    BY <1>1, <2>1, CallsAtPort DEF Port!PortNext, Port!Tasks, Tasks
  <2>2. CASE pc[t] # "idle" /\ Leaves(t)
    BY <1>1, <2>2, ReturnsAtPort DEF Port!PortNext, Port!Tasks, Tasks
  <2>3. CASE pc[t] # "idle" /\ ~Leaves(t)
    BY <1>1, <2>3, ProgressAtPort DEF Port!PortNext
  <2> QED
    BY <2>1, <2>2, <2>3
<1>2. CASE ~\E t \in Tasks : CallStep(t)
  BY <1>2, OthersAtPort DEF Port!PortNext
<1> QED
  BY <1>1, <1>2

LEMMA PortStarts == Init => Port!PortInit /\ PubInv
<1> SUFFICES ASSUME Init PROVE Port!PortInit /\ PubInv
  OBVIOUS
<1>1. \A t \in Tasks : Phase(t) = "idle" /\ HandedOver(t) = {}
  BY DEF Init, Phase, HandedOver
<1> QED
  BY <1>1 DEF Init, PubInv, Port!PortInit, Port!Tasks, Tasks

(* RelayClient keeps the promise of RelayPort: whatever drops, reconnects,  *)
(* authentications, retries and timeouts lie between, a caller sees a call  *)
(* that begins once and returns once, a publish that succeeds only after its*)
(* event was accepted, a query that returns all it had to find, and nothing *)
(* handed over that is not verified and at the relay (publish, query,       *)
(* subscribe).                                                              *)
THEOREM ImplementsPort == Spec => PortSpec
<1>1. Init => Port!PortInit /\ PubInv /\ PublishInv
  BY PortStarts, AnswersInit
<1>2. IInv /\ FirstAttempt /\ PubInv /\ PublishInv /\ [Next]_vars
      => (PubInv /\ PublishInv)'
  BY PubInvNext, PublishInvNext
<1>3. IInv /\ FirstAttempt /\ QueryInv /\ ResInv /\ DataInv /\ PublishInv /\ PubInv
      /\ [Next]_vars => [Port!PortNext]_Port!portVars
  BY PortStep
<1> QED
  BY <1>1, <1>2, <1>3, IInvHolds, FreshHolds, DataHolds, QueryHolds, PTL
     DEF Spec, PortSpec, Port!PortSpec

=============================================================================
