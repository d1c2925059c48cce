--------------------------- MODULE RelayClientProofs ---------------------------
(***************************************************************************)
(* What RelayClient promises for every number of tasks, every set of events*)
(* and every bound on connections and attempts.                            *)
(*                                                                         *)
(* TypeOK is not inductive: that the AUTH event a task sends carries a     *)
(* challenge, and that attempts never passes its limit, depend on which    *)
(* futures are pending where.  Waiting says so, and every safety theorem   *)
(* rests on it: a future is registered for exactly the call that awaits it.*)
(***************************************************************************)
EXTENDS RelayClient, TLAPS

(* A future in _pending_ok is awaited by the call it is registered for, and *)
(* a call that waits for a challenge has its future in _auth_waiters; a task*)
(* that awaits none has none that is done.                                  *)
Waiting ==
    /\ \A id \in Ids, t \in Tasks : pendingOk[id] = t =>
          \/ pc[t] = "awaitOk" /\ t \in Publishers /\ id = EventOf[t]
          \/ pc[t] = "authOk" /\ id = answering[t]
    /\ \A t \in Tasks :
          /\ pc[t] = "authChallenge" /\ fut[t] = "pending" => t \in authWaiters
          /\ pc[t] \notin {"awaitOk", "authChallenge", "authOk"} => fut[t] = "pending"
          /\ pc[t] = "awaitOk" => t \in Publishers
          /\ pc[t] = "authChallenge" /\ fut[t] = "ok" => answering[t] \in Challenges
          /\ pc[t] = "authOk" => answering[t] \in Challenges

AttemptsLeft == run = "connecting" => attempts < MaxAttempts

IInv == TypeOK /\ AttemptsLeft /\ Waiting /\ OneAuthenticates

-----------------------------------------------------------------------------
(* Frames.                                                                  *)

(* The frames the client and the relay build are frames.                    *)
LEMMA Frames ==
    /\ \A i \in SubIds :
          /\ SubFrame("CLOSE", i) \in ClientFrames
          /\ SubFrame("REQ", i) \in ClientFrames
          /\ EoseFrame(i) \in RelayFrames
          /\ \A m \in {"auth-required", "error"} :
                ClosedFrame(i, m) \in SubFrames /\ ClosedFrame(i, m) \in RelayFrames
          /\ \A e \in Events : EventFrame(i, e) \in RelayFrames
    /\ \A id \in Ids, a \in Answers : OkFrame(id, a) \in RelayFrames
    /\ \A e \in Events : [type |-> "EVENT", ev |-> e] \in ClientFrames
    /\ \A c \in Challenges :
          /\ [type |-> "AUTH", challenge |-> c] \in ClientFrames
          /\ [type |-> "AUTH", challenge |-> c] \in RelayFrames
  BY DEF SubFrame, EoseFrame, ClosedFrame, EventFrame, OkFrame, ClientFrames,
         SubFrames, RelayFrames

(* What a client frame of each type carries.                                *)
LEMMA ClientFrameFields ==
    ASSUME NEW m \in ClientFrames
    PROVE  /\ m.type \in {"EVENT", "REQ", "CLOSE", "AUTH"}
           /\ m.type = "EVENT" => m.ev \in Events
           /\ m.type \in {"REQ", "CLOSE"} => m.sub \in SubIds
           /\ m.type = "AUTH" => m.challenge \in Challenges
  BY DEF ClientFrames

(* What a relay frame of each type carries.                                 *)
LEMMA RelayFrameFields ==
    ASSUME NEW m \in RelayFrames
    PROVE  /\ m.type \in {"EVENT", "EOSE", "CLOSED"} => m \in SubFrames /\ m.sub \in SubIds
           /\ m.type = "OK" => m.id \in Ids /\ m.answer \in Answers
           /\ m.type = "AUTH" => m.challenge \in Challenges
  BY DEF RelayFrames, SubFrames

(* What an item of a queue carries, and where a queue is left by taking it. *)
LEMMA TakeItem ==
    ASSUME TablesType, NEW i \in SubIds, queue[i] # <<>>
    PROVE  /\ Head(queue[i]).type = "EVENT" => Head(queue[i]).ev \in Events
           /\ [queue EXCEPT ![i] = Tail(queue[i])] \in [SubIds -> Seq(SubFrames)]
<1>1. queue[i] \in Seq(SubFrames)
  BY DEF TablesType
<1>2. Head(queue[i]) \in SubFrames /\ Tail(queue[i]) \in Seq(SubFrames)
  BY <1>1
<1>3. Head(queue[i]).type = "EVENT" => Head(queue[i]).ev \in Events
  BY <1>2 DEF SubFrames
<1> QED
  BY <1>2, <1>3 DEF TablesType

-----------------------------------------------------------------------------
(* The steps of a call.                                                     *)

(* What a step of task t keeps: the types of all it touches, Waiting, and   *)
(* the state of the other tasks; whatever t awaited is over.                *)
Kept(t) ==
    /\ TablesType' /\ CallsType' /\ c2r' \in Seq(ClientFrames)
    /\ Waiting' /\ OneAuthenticates'
    /\ fut'[t] = "pending"
    /\ \A u \in Tasks \ {t} :
          /\ pc'[u] = pc[u] /\ fut'[u] = fut[u]
          /\ answering'[u] = answering[u] /\ result'[u] = result[u]

LEMMA SentType ==
    ASSUME TypeOK, NEW frames \in Seq(ClientFrames)
    PROVE  Sent(frames) \in Seq(ClientFrames)
  BY DEF Sent, TypeOK, LinkType

LEMMA ClosesType ==
    ASSUME TypeOK, NEW t
    PROVE  Closes(t) \in Seq(ClientFrames)
<1>1. \A i \in subs : SubFrame("CLOSE", i) \in ClientFrames
  BY Frames DEF TypeOK, TablesType
<1> QED
  BY <1>1 DEF Closes

(* The futures registered for t are those its finally blocks pop.           *)
LEMMA PoppedAll ==
    ASSUME IInv, NEW t \in Tasks
    PROVE  /\ Popped(t) \in [Ids -> Tasks \cup {NoTask}]
           /\ \A id \in Ids : Popped(t)[id] # t
           /\ \A id \in Ids, u \in Tasks : Popped(t)[id] = u => pendingOk[id] = u
<1>1. \A id \in Ids : pendingOk[id] = t => id \in OwnIds(t)
  BY DEF IInv, Waiting, OwnIds
<1>2. NoTask \notin Tasks
  BY TasksAssumption
<1> QED
  BY <1>1, <1>2 DEF Popped, IInv, TypeOK, TablesType

LEMMA LeaveKept ==
    ASSUME IInv, NEW t \in Tasks, NEW r \in Results, Leave(t, r)
    PROVE  Kept(t) /\ pc'[t] = "done" /\ (t \in Publishers => result'[t] = r)
<1> USE DEF IInv, TypeOK, Leave
<1>1. TablesType'
  <2>1. subs' \subseteq SubIds /\ authWaiters' \subseteq Tasks
    BY DEF TablesType
  <2>2. queue' \in [SubIds -> Seq(SubFrames)]
    BY DEF TablesType
  <2>3. authLock' \in Seq(Tasks)
    BY DEF TablesType, Released, Holds
  <2> QED
    BY <2>1, <2>2, <2>3, PoppedAll DEF TablesType
<1>2. CallsType'
  <2>1. pc' \in [Tasks -> Places] /\ fut' \in [Tasks -> Answers \cup {"pending", "error"}]
    BY DEF CallsType, Places
  <2>2. answering' \in [Tasks -> 0..MaxConns]
    BY BoundsAssumption DEF CallsType
  <2>3. result' \in [Tasks -> Results]
    BY DEF CallsType, Results
  <2> QED
    BY <2>1, <2>2, <2>3 DEF CallsType
<1>3. c2r' \in Seq(ClientFrames)
  BY SentType, ClosesType
<1>4. /\ \A u \in Tasks \ {t} : /\ pc'[u] = pc[u] /\ fut'[u] = fut[u]
                                /\ answering'[u] = answering[u] /\ result'[u] = result[u]
      /\ pc'[t] = "done" /\ fut'[t] = "pending"
      /\ t \in Publishers => result'[t] = r
  BY DEF CallsType
<1>7. /\ \A u \in Tasks \ {t} : \A id \in Ids : pendingOk'[id] = u => pendingOk[id] = u
      /\ \A id \in Ids : pendingOk'[id] # t
      /\ authWaiters' = authWaiters
  BY PoppedAll
<1>5. Waiting'
  BY <1>4, <1>7 DEF Waiting, TablesType
<1>6. OneAuthenticates'
  BY <1>4 DEF OneAuthenticates, Released, Holds
<1> QED
  BY <1>1, <1>2, <1>3, <1>4, <1>5, <1>6 DEF Kept

LEMMA AskAuthKept ==
    ASSUME IInv, NEW t \in Tasks, AskAuth(t), pc[t] # "authChallenge",
           queue' \in [SubIds -> Seq(SubFrames)]
    PROVE  Kept(t) /\ pc'[t] = "authLock" /\ result' = result
<1> USE DEF IInv, TypeOK, AskAuth
<1>1. TablesType'
  <2>1. authLock' \in Seq(Tasks)
    BY DEF TablesType
  <2> QED
    BY <2>1, PoppedAll DEF TablesType
<1>2. CallsType'
  BY DEF CallsType, Places
<1>3. c2r' \in Seq(ClientFrames)
  BY DEF LinkType
<1>4. /\ \A u \in Tasks \ {t} : /\ pc'[u] = pc[u] /\ fut'[u] = fut[u]
                                /\ answering'[u] = answering[u] /\ result'[u] = result[u]
      /\ pc'[t] = "authLock" /\ fut'[t] = "pending"
  BY DEF CallsType
<1>6. \A u \in Tasks \ {t} : \A id \in Ids : pendingOk'[id] = u => pendingOk[id] = u
  BY PoppedAll
<1>7. \A id \in Ids : pendingOk'[id] # t
  BY PoppedAll
<1>8. Waiting'
  BY <1>4, <1>6, <1>7 DEF Waiting, TablesType
<1>9. OneAuthenticates'
  <2>1. \A u \in Tasks \ {t} : authLock # <<>> /\ authLock[1] = u
                               => authLock' # <<>> /\ authLock'[1] = u
    BY DEF TablesType
  <2> QED
    BY <1>4, <2>1 DEF OneAuthenticates
<1> QED
  BY <1>1, <1>2, <1>3, <1>4, <1>8, <1>9 DEF Kept

LEMMA QueueOnlyKept ==
    ASSUME IInv, NEW t \in Tasks, pc[t] \in {"collect", "listen"},
           queue' \in [SubIds -> Seq(SubFrames)],
           UNCHANGED <<pc, fut, result, subs, pendingOk, authLock,
                       authWaiters, answering, c2r>>
    PROVE  Kept(t)
<1>1. TablesType' /\ CallsType' /\ c2r' \in Seq(ClientFrames)
  BY DEF IInv, TypeOK, TablesType, CallsType, LinkType
<1>2. Waiting' /\ fut'[t] = "pending"
  BY DEF IInv, Waiting
<1>3. OneAuthenticates'
  BY DEF IInv, OneAuthenticates
<1> QED
  BY <1>1, <1>2, <1>3 DEF Kept

LEMMA SendAuthKept ==
    ASSUME IInv, NEW t \in Tasks, NEW c \in Challenges, SendAuth(t, c),
           pc[t] \in {"authLock", "authChallenge"}, Holds(t)
    PROVE  Kept(t) /\ (t \in Publishers /\ result'[t] = "ok" => result[t] = "ok")
<1>1. CASE ws = "open"
  <2> USE <1>1 DEF IInv, TypeOK, SendAuth
  <2>1. TablesType'
    BY DEF TablesType
  <2>2. CallsType'
    <3>1. c \in 0..MaxConns
      BY BoundsAssumption DEF Challenges
    <3> QED
      BY <3>1 DEF CallsType, Places
  <2>3. c2r' \in Seq(ClientFrames)
    <3>1. [type |-> "AUTH", challenge |-> c] \in ClientFrames
      BY Frames
    <3>2. c2r' = Append(c2r, [type |-> "AUTH", challenge |-> c])
      BY SMTT(30) DEF LinkType
    <3>3. c2r \in Seq(ClientFrames)
      BY DEF LinkType
    <3> HIDE DEF IInv, TypeOK, SendAuth, QueryScoped, Request
    <3> QED
      BY <3>1, <3>2, <3>3
  <2>4. /\ \A u \in Tasks \ {t} : /\ pc'[u] = pc[u] /\ fut'[u] = fut[u]
                                  /\ answering'[u] = answering[u] /\ result'[u] = result[u]
        /\ pc'[t] = "authOk" /\ fut'[t] = "pending" /\ answering'[t] = c
    BY DEF CallsType
  <2>5. \A id \in Ids : pendingOk[id] # t
    BY DEF Waiting
  <2>6. Waiting'
    <3>1. \A u \in Tasks, id \in Ids : pendingOk'[id] = u =>
             IF u = t THEN id = c ELSE pendingOk[id] = u
      BY <2>5, TasksAssumption DEF TablesType
    <3>2. authWaiters' = authWaiters
      OBVIOUS
    <3>3. Waiting
      OBVIOUS
    <3> HIDE DEF IInv, TypeOK, SendAuth
    <3>4. ASSUME NEW u \in Tasks, NEW id \in Ids, pendingOk'[id] = u
          PROVE  \/ pc'[u] = "awaitOk" /\ u \in Publishers /\ id = EventOf[u]
                 \/ pc'[u] = "authOk" /\ id = answering'[u]
      BY <2>4, <3>1, <3>3, <3>4 DEF Waiting
    <3>5. ASSUME NEW u \in Tasks
          PROVE  /\ pc'[u] = "authChallenge" /\ fut'[u] = "pending" => u \in authWaiters'
                 /\ pc'[u] \notin {"awaitOk", "authChallenge", "authOk"} => fut'[u] = "pending"
                 /\ pc'[u] = "awaitOk" => u \in Publishers
                 /\ pc'[u] = "authChallenge" /\ fut'[u] = "ok" => answering'[u] \in Challenges
                 /\ pc'[u] = "authOk" => answering'[u] \in Challenges
      BY <2>4, <3>2, <3>3 DEF Waiting
    <3> QED
      BY <3>4, <3>5 DEF Waiting
  <2>7. OneAuthenticates'
    BY <2>4 DEF OneAuthenticates, Holds
  <2> QED
    BY <2>1, <2>2, <2>3, <2>4, <2>6, <2>7 DEF Kept
<1>2. CASE ws # "open"
  <2>1. SendError \in Results \ {"ok"} /\ Leave(t, SendError)
    BY <1>2 DEF SendAuth, SendError, Results
  <2> QED
    BY <2>1, LeaveKept
<1> QED
  BY <1>1, <1>2

LEMMA PublishSignedKept ==
    ASSUME IInv, NEW p \in Publishers, PublishSigned(p), pc[p] \in {"idle", "resume"}
    PROVE  Kept(p) /\ (result'[p] = "ok" => result[p] = "ok")
<1>0. p \in Tasks
  BY DEF Tasks
<1>1. CASE ws = "open"
  <2> USE <1>0, <1>1 DEF IInv, TypeOK, PublishSigned
  <2>1. TablesType'
    BY DEF TablesType
  <2>2. CallsType'
    BY DEF CallsType, Places
  <2>3. c2r' \in Seq(ClientFrames)
    <3>1. [type |-> "EVENT", ev |-> EventOf[p]] \in ClientFrames
      BY Frames, EventsAssumption
    <3> QED
      BY <3>1 DEF LinkType
  <2>4. /\ \A u \in Tasks \ {p} : pc'[u] = pc[u]
        /\ pc'[p] = "awaitOk" /\ fut' = fut /\ answering' = answering /\ result' = result
        /\ fut[p] = "pending"
    BY DEF CallsType, Waiting
  <2>5. \A id \in Ids : pendingOk[id] # p
    BY DEF Waiting
  <2>7. Waiting'
    <3>1. \A u \in Tasks, id \in Ids : pendingOk'[id] = u =>
             IF u = p THEN id = EventOf[p] ELSE pendingOk[id] = u
      BY <2>5, TasksAssumption DEF TablesType
    <3>2. authWaiters' = authWaiters
      OBVIOUS
    <3> QED
      BY <2>4, <3>1, <3>2 DEF Waiting
  <2>8. OneAuthenticates'
    BY <2>4 DEF OneAuthenticates
  <2> QED
    BY <2>1, <2>2, <2>3, <2>4, <2>7, <2>8 DEF Kept
<1>2. CASE ws # "open"
  <2>1. SendError \in Results \ {"ok"} /\ Leave(p, SendError)
    BY <1>2 DEF PublishSigned, SendError, Results
  <2> QED
    BY <1>0, <2>1, LeaveKept
<1> QED
  BY <1>1, <1>2

LEMMA QueryScopedKept ==
    ASSUME IInv, NEW q \in Queriers, NEW n \in {1, 2}, QueryScoped(q, n),
           pc[q] \in {"idle", "resume"}
    PROVE  Kept(q) /\ got' \in [Tasks -> SUBSET Events]
<1>0. q \in Tasks /\ <<q, n>> \in SubIds
  BY DEF Tasks, SubIds
<1>1. CASE ws = "open"
  <2> USE <1>0, <1>1 DEF IInv, TypeOK, QueryScoped
  <2>1. TablesType'
    BY DEF TablesType
  <2>2. CallsType' /\ got' \in [Tasks -> SUBSET Events]
    BY DEF CallsType, Places, MemoType
  <2>3. c2r' \in Seq(ClientFrames)
    <3>1. SubFrame("REQ", <<q, n>>) \in ClientFrames
      BY Frames
    <3>2. c2r' = Append(c2r, SubFrame("REQ", <<q, n>>))
      BY SMTT(30) DEF LinkType
    <3>3. c2r \in Seq(ClientFrames)
      BY DEF LinkType
    <3> HIDE DEF IInv, TypeOK, SendAuth, QueryScoped, Request
    <3> QED
      BY <3>1, <3>2, <3>3
  <2>4. /\ \A u \in Tasks \ {q} : pc'[u] = pc[u]
        /\ pc'[q] = "collect" /\ fut' = fut /\ answering' = answering /\ result' = result
        /\ fut[q] = "pending"
    BY DEF CallsType, Waiting
  <2>5. Waiting'
    BY <2>4, TasksAssumption DEF Waiting, TablesType
  <2>6. OneAuthenticates'
    BY <2>4 DEF OneAuthenticates
  <2> QED
    BY <2>1, <2>2, <2>3, <2>4, <2>5, <2>6 DEF Kept
<1>2. CASE ws # "open"
  <2>1. SendError \in Results /\ Leave(q, SendError) /\ got' = got
    BY <1>2 DEF QueryScoped, SendError, Results
  <2> QED
    BY <1>0, <2>1, LeaveKept DEF IInv, TypeOK, MemoType
<1> QED
  BY <1>1, <1>2

LEMMA RequestKept ==
    ASSUME IInv, NEW s \in Subscribers, Request(s), pc[s] \in {"idle", "resume"}
    PROVE  Kept(s)
<1>0. s \in Tasks /\ <<s, 1>> \in SubIds
  BY DEF Tasks, SubIds
<1>1. CASE ws = "open"
  <2> USE <1>0, <1>1 DEF IInv, TypeOK, Request
  <2>1. TablesType'
    BY DEF TablesType
  <2>2. CallsType'
    BY DEF CallsType, Places
  <2>3. c2r' \in Seq(ClientFrames)
    <3>1. SubFrame("REQ", <<s, 1>>) \in ClientFrames
      BY Frames
    <3>2. c2r' = Append(c2r, SubFrame("REQ", <<s, 1>>))
      BY SMTT(30) DEF LinkType, Req
    <3>3. c2r \in Seq(ClientFrames)
      BY DEF LinkType
    <3> HIDE DEF IInv, TypeOK, SendAuth, QueryScoped, Request
    <3> QED
      BY <3>1, <3>2, <3>3
  <2>4. /\ \A u \in Tasks \ {s} : pc'[u] = pc[u]
        /\ pc'[s] = "listen" /\ fut' = fut /\ answering' = answering /\ result' = result
        /\ fut[s] = "pending"
    BY DEF CallsType, Waiting
  <2>5. Waiting'
    BY <2>4, TasksAssumption DEF Waiting, TablesType
  <2>6. OneAuthenticates'
    BY <2>4 DEF OneAuthenticates
  <2> QED
    BY <2>1, <2>2, <2>3, <2>4, <2>5, <2>6 DEF Kept
<1>2. CASE ws # "open"
  <2>1. SendError \in Results /\ Leave(s, SendError)
    BY <1>2 DEF Request, SendError, Results
  <2> QED
    BY <1>0, <2>1, LeaveKept
<1> QED
  BY <1>1, <1>2

-----------------------------------------------------------------------------
(* The steps of the calls, all together.                                    *)

CallStep(t) ==
    \/ t \in Publishers /\ Publish(t)
    \/ t \in Queriers /\ Query(t)
    \/ t \in Subscribers /\ (Subscribe(t) \/ Unsubscribe(t))
    \/ TaskStep(t)
    \/ Timeout(t)

(* What a step of t does to what the safety properties speak of: a publish  *)
(* succeeds, and the client believes itself authenticated, only on an OK.   *)
Honest(t) ==
    /\ t \in Publishers /\ result'[t] = "ok" =>
          result[t] = "ok" \/ (pc[t] = "awaitOk" /\ fut[t] = "ok")
    /\ authed' => authed \/ (pc[t] = "authOk" /\ fut[t] = "ok")

StepKept(t) == Kept(t) /\ MemoType' /\ UNCHANGED outside /\ Honest(t)

LEMMA PublishKept ==
    ASSUME IInv, NEW p \in Publishers, Publish(p) \/ PublishAnswered(p)
    PROVE  StepKept(p)
<1>0. p \in Tasks
  BY DEF Tasks
<1>1. CASE Publish(p)
  <2>1. PublishSigned(p) /\ pc[p] = "idle" /\ UNCHANGED <<outside, memoVars>>
    BY <1>1 DEF Publish, MayCall
  <2>2. Kept(p) /\ (result'[p] = "ok" => result[p] = "ok")
    BY <2>1, PublishSignedKept
  <2>3. MemoType' /\ authed' = authed
    BY <2>1 DEF memoVars, MemoType, IInv, TypeOK
  <2> QED
    BY <2>1, <2>2, <2>3 DEF StepKept, Honest
<1>2. CASE PublishAnswered(p)
  <2>1. pc[p] = "awaitOk" /\ UNCHANGED <<outside, memoVars>>
    BY <1>2 DEF PublishAnswered
  <2>2. MemoType' /\ authed' = authed
    BY <2>1 DEF memoVars, MemoType, IInv, TypeOK
  <2>3. CASE AskAuth(p) /\ UNCHANGED queue
    <3>1. queue' \in [SubIds -> Seq(SubFrames)]
      BY <2>3 DEF IInv, TypeOK, TablesType
    <3>2. Kept(p) /\ result' = result
      BY <1>0, <2>1, <2>3, <3>1, AskAuthKept
    <3> QED
      BY <2>1, <2>2, <3>2 DEF StepKept, Honest
  <2>4. ASSUME NEW r \in Results, Leave(p, r), r = "ok" => fut[p] = "ok"
        PROVE  StepKept(p)
    <3>1. Kept(p) /\ result'[p] = r
      BY <1>0, <2>4, LeaveKept
    <3> QED
      BY <2>1, <2>2, <2>4, <3>1 DEF StepKept, Honest
  <2>5. {"ok", "refused", "relayError"} \subseteq Results
    BY DEF Results
  <2> QED
    BY <1>2, <2>3, <2>4, <2>5 DEF PublishAnswered
<1> QED
  BY <1>1, <1>2

LEMMA QueryKept ==
    ASSUME IInv, NEW q \in Queriers, Query(q) \/ QueryItem(q)
    PROVE  StepKept(q)
<1>0. q \in Tasks /\ q \notin Publishers /\ TryOf(q) \in SubIds
  BY TasksAssumption DEF Tasks, TryOf, SubIds
<1>1. CASE Query(q)
  <2>1. /\ QueryScoped(q, 1) /\ pc[q] = "idle"
        /\ UNCHANGED <<outside, authed, challenge, retried>>
        /\ atStart' = [atStart EXCEPT ![q] = stored \ Forged]
    BY <1>1 DEF Query, MayCall
  <2>2. Kept(q) /\ got' \in [Tasks -> SUBSET Events]
    BY <2>1, QueryScopedKept
  <2>3. MemoType'
    BY <2>1, <2>2 DEF MemoType, IInv, TypeOK, RelayType
  <2> QED
    BY <1>0, <2>1, <2>2, <2>3 DEF StepKept, Honest
<1>2. CASE QueryItem(q)
  <2> DEFINE item == Head(queue[TryOf(q)])
             rest == [queue EXCEPT ![TryOf(q)] = Tail(queue[TryOf(q)])]
  <2>1. /\ pc[q] = "collect" /\ queue[TryOf(q)] # <<>>
        /\ UNCHANGED <<outside, authed, challenge, retried, atStart>>
    BY <1>2 DEF QueryItem
  <2>2. item.type = "EVENT" => item.ev \in Events
    BY <1>0, <2>1, TakeItem DEF IInv, TypeOK
  <2>3. rest \in [SubIds -> Seq(SubFrames)]
    BY <1>0, <2>1, TakeItem DEF IInv, TypeOK
  <2>4. MemoType'
    <3>1. got' \in [Tasks -> SUBSET Events]
      BY <1>0, <1>2, <2>2 DEF QueryItem, MemoType, IInv, TypeOK
    <3> QED
      BY <2>1, <3>1 DEF MemoType, IInv, TypeOK
  <2>5. Kept(q)
    <3>1. CASE Leave(q, "ok") \/ Leave(q, "relayError")
      BY <1>0, <3>1, LeaveKept DEF Results
    <3>2. CASE AskAuth(q) /\ queue' = rest
      BY <1>0, <2>1, <2>3, <3>2, AskAuthKept
    <3>3. CASE /\ queue' = rest
               /\ UNCHANGED <<pc, fut, result, subs, pendingOk, authLock,
                              authWaiters, answering, c2r>>
      BY <1>0, <2>1, <2>3, <3>3, QueueOnlyKept
    <3> QED
      BY <1>2, <3>1, <3>2, <3>3 DEF QueryItem
  <2> QED
    BY <1>0, <2>1, <2>4, <2>5 DEF StepKept, Honest
<1> QED
  BY <1>1, <1>2

LEMMA SubscribeKept ==
    ASSUME IInv, NEW s \in Subscribers,
           Subscribe(s) \/ SubscriptionItem(s) \/ Unsubscribe(s)
    PROVE  StepKept(s)
<1>0. s \in Tasks /\ s \notin Publishers /\ <<s, 1>> \in SubIds
  BY TasksAssumption DEF Tasks, SubIds
<1>1. CASE Subscribe(s)
  <2>1. Request(s) /\ pc[s] = "idle" /\ UNCHANGED <<outside, memoVars>>
    BY <1>1 DEF Subscribe, MayCall
  <2>2. MemoType' /\ authed' = authed
    BY <2>1 DEF memoVars, MemoType, IInv, TypeOK
  <2> QED
    BY <1>0, <2>1, <2>2, RequestKept DEF StepKept, Honest
<1>2. CASE SubscriptionItem(s)
  <2> DEFINE item == Head(queue[<<s, 1>>])
             rest == [queue EXCEPT ![<<s, 1>>] = Tail(queue[<<s, 1>>])]
  <2>1. /\ pc[s] = "listen" /\ queue[<<s, 1>>] # <<>>
        /\ UNCHANGED <<outside, authed, challenge, retried, atStart>>
    BY <1>2 DEF SubscriptionItem
  <2>2. item.type = "EVENT" => item.ev \in Events
    BY <1>0, <2>1, TakeItem DEF IInv, TypeOK
  <2>3. rest \in [SubIds -> Seq(SubFrames)]
    BY <1>0, <2>1, TakeItem DEF IInv, TypeOK
  <2>4. MemoType'
    <3>1. got' \in [Tasks -> SUBSET Events]
      BY <1>0, <1>2, <2>2 DEF SubscriptionItem, MemoType, IInv, TypeOK
    <3> QED
      BY <2>1, <3>1 DEF MemoType, IInv, TypeOK
  <2>5. Kept(s)
    <3>1. CASE Leave(s, "relayError")
      BY <1>0, <3>1, LeaveKept DEF Results
    <3>2. CASE AskAuth(s) /\ queue' = rest
      BY <1>0, <2>1, <2>3, <3>2, AskAuthKept
    <3>3. CASE /\ queue' = rest
               /\ UNCHANGED <<pc, fut, result, subs, pendingOk, authLock,
                              authWaiters, answering, c2r>>
      BY <1>0, <2>1, <2>3, <3>3, QueueOnlyKept
    <3> QED
      BY <1>2, <3>1, <3>2, <3>3 DEF SubscriptionItem
  <2> QED
    BY <1>0, <2>1, <2>4, <2>5 DEF StepKept, Honest
<1>3. CASE Unsubscribe(s)
  <2>1. Leave(s, "stopped") /\ UNCHANGED <<outside, memoVars>>
    BY <1>3 DEF Unsubscribe
  <2>2. MemoType' /\ authed' = authed
    BY <2>1 DEF memoVars, MemoType, IInv, TypeOK
  <2>3. Kept(s)
    BY <1>0, <2>1, LeaveKept DEF Results
  <2> QED
    BY <1>0, <2>1, <2>2, <2>3 DEF StepKept, Honest
<1> QED
  BY <1>1, <1>2, <1>3

LEMMA AuthenticatedKept ==
    ASSUME IInv, NEW t \in Tasks, Authenticated(t), Holds(t),
           pc[t] \in {"authLock", "authOk"}, pendingOk' = Popped(t),
           UNCHANGED <<result, subs, queue, c2r, authWaiters>>
    PROVE  Kept(t)
<1> USE DEF IInv, TypeOK, Authenticated
<1>1. TablesType'
  <2>1. authLock' \in Seq(Tasks)
    BY DEF TablesType, Holds
  <2> QED
    BY <2>1, PoppedAll DEF TablesType
<1>2. CallsType'
  <2>1. 0 \in 0..MaxConns
    BY BoundsAssumption
  <2> QED
    BY <2>1 DEF CallsType, Places
<1>3. c2r' \in Seq(ClientFrames)
  BY DEF LinkType
<1>4. /\ \A u \in Tasks \ {t} : /\ pc'[u] = pc[u] /\ fut'[u] = fut[u]
                                /\ answering'[u] = answering[u] /\ result'[u] = result[u]
      /\ pc'[t] = "resume" /\ fut'[t] = "pending"
  BY DEF CallsType
<1>6. \A u \in Tasks \ {t} : \A id \in Ids : pendingOk'[id] = u => pendingOk[id] = u
  BY PoppedAll
<1>7. \A id \in Ids : pendingOk'[id] # t
  BY PoppedAll
<1>8. Waiting'
  BY <1>4, <1>6, <1>7 DEF Waiting, TablesType
<1>9. OneAuthenticates'
  BY <1>4 DEF OneAuthenticates, Holds
<1> QED
  BY <1>1, <1>2, <1>3, <1>4, <1>8, <1>9 DEF Kept

LEMMA AuthenticateKept ==
    ASSUME IInv, NEW t \in Tasks, Authenticate(t)
    PROVE  StepKept(t)
<1>1. /\ pc[t] = "authLock" /\ Holds(t)
      /\ UNCHANGED <<outside, memoVars>>
  BY DEF Authenticate
<1>2. MemoType' /\ authed' = authed
  BY <1>1 DEF memoVars, MemoType, IInv, TypeOK
<1>3. CASE Authenticated(t) /\ UNCHANGED <<result, subs, queue, c2r, pendingOk, authWaiters>>
  <2>1. pendingOk' = Popped(t)
    <3>1. OwnIds(t) = {}
      BY <1>1 DEF OwnIds
    <3>2. pendingOk \in [Ids -> Tasks \cup {NoTask}]
      BY DEF IInv, TypeOK, TablesType
    <3> QED
      BY <1>3, <3>1, <3>2 DEF Popped
  <2>2. Kept(t)
    BY <1>1, <1>3, <2>1, AuthenticatedKept
  <2> QED
    BY <1>1, <1>2, <1>3, <2>2 DEF StepKept, Honest
<1>4. CASE challenge # 0 /\ SendAuth(t, challenge)
  <2>1. challenge \in Challenges
    BY <1>4, BoundsAssumption DEF IInv, TypeOK, MemoType, Challenges
  <2>2. Kept(t) /\ (t \in Publishers /\ result'[t] = "ok" => result[t] = "ok")
    BY <1>1, <1>4, <2>1, SendAuthKept
  <2> QED
    BY <1>1, <1>2, <2>2 DEF StepKept, Honest
<1>5. CASE /\ authWaiters' = authWaiters \cup {t}
           /\ pc' = [pc EXCEPT ![t] = "authChallenge"]
           /\ UNCHANGED <<fut, result, subs, queue, c2r, pendingOk, authLock, answering>>
  <2> USE <1>1, <1>5 DEF IInv, TypeOK
  <2>1. TablesType'
    BY DEF TablesType
  <2>2. CallsType' /\ c2r' \in Seq(ClientFrames)
    BY DEF CallsType, Places, LinkType
  <2>3. /\ \A u \in Tasks \ {t} : pc'[u] = pc[u]
        /\ pc'[t] = "authChallenge" /\ fut[t] = "pending"
    BY DEF CallsType, Waiting
  <2>4. Waiting'
    BY <2>3 DEF Waiting
  <2>5. OneAuthenticates'
    BY <2>3 DEF OneAuthenticates, Holds
  <2>6. Kept(t)
    BY <2>1, <2>2, <2>3, <2>4, <2>5 DEF Kept
  <2> QED
    BY <1>2, <2>6 DEF StepKept, Honest
<1> QED
  BY <1>3, <1>4, <1>5 DEF Authenticate

LEMMA AuthChallengedKept ==
    ASSUME IInv, NEW t \in Tasks, AuthChallenged(t)
    PROVE  StepKept(t)
<1>1. pc[t] = "authChallenge" /\ UNCHANGED <<outside, memoVars>>
  BY DEF AuthChallenged
<1>2. MemoType' /\ authed' = authed
  BY <1>1 DEF memoVars, MemoType, IInv, TypeOK
<1>3. Holds(t)
  BY <1>1 DEF IInv, OneAuthenticates, Holds
<1>4. CASE fut[t] = "ok" /\ SendAuth(t, answering[t])
  <2>1. answering[t] \in Challenges
    BY <1>1, <1>4 DEF IInv, Waiting
  <2>2. Kept(t) /\ (t \in Publishers /\ result'[t] = "ok" => result[t] = "ok")
    BY <1>1, <1>3, <1>4, <2>1, SendAuthKept
  <2> QED
    BY <1>1, <1>2, <2>2 DEF StepKept, Honest
<1>5. CASE Leave(t, "relayError")
  <2>1. Kept(t) /\ (t \in Publishers => result'[t] = "relayError")
    BY <1>5, LeaveKept DEF Results
  <2> QED
    BY <1>1, <1>2, <2>1 DEF StepKept, Honest
<1> QED
  BY <1>4, <1>5 DEF AuthChallenged

LEMMA AuthAnsweredKept ==
    ASSUME IInv, NEW t \in Tasks, AuthAnswered(t)
    PROVE  StepKept(t)
<1>1. pc[t] = "authOk" /\ UNCHANGED <<outside, retried, got, atStart>>
  BY DEF AuthAnswered
<1>2. CASE /\ fut[t] = "ok"
           /\ authed' = TRUE /\ challenge' = 0
           /\ pendingOk' = Popped(t)
           /\ Authenticated(t)
           /\ UNCHANGED <<result, subs, queue, c2r, authWaiters>>
  <2>1. Holds(t)
    BY <1>1 DEF IInv, OneAuthenticates, Holds
  <2>2. Kept(t)
    BY <1>1, <1>2, <2>1, AuthenticatedKept
  <2>3. MemoType'
    BY <1>1, <1>2, BoundsAssumption DEF MemoType, IInv, TypeOK
  <2> QED
    BY <1>1, <1>2, <2>2, <2>3 DEF StepKept, Honest
<1>3. ASSUME NEW r \in {"refused", "relayError"}, Leave(t, r), UNCHANGED <<authed, challenge>>
      PROVE  StepKept(t)
  <2>1. Kept(t) /\ (t \in Publishers => result'[t] = r)
    BY <1>3, LeaveKept DEF Results
  <2>2. MemoType' /\ authed' = authed
    BY <1>1, <1>3 DEF MemoType, IInv, TypeOK
  <2> QED
    BY <1>1, <2>1, <2>2 DEF StepKept, Honest
<1> QED
  BY <1>2, <1>3 DEF AuthAnswered

LEMMA ResumeKept ==
    ASSUME IInv, NEW t \in Tasks, Resume(t)
    PROVE  StepKept(t)
<1>1. /\ pc[t] = "resume" /\ UNCHANGED <<outside, authed, challenge, atStart>>
      /\ retried' = [retried EXCEPT ![t] = t \notin Subscribers]
  BY DEF Resume
<1>2. retried' \in [Tasks -> BOOLEAN]
  BY <1>1 DEF IInv, TypeOK, MemoType
<1>3. CASE t \in Publishers /\ PublishSigned(t) /\ UNCHANGED got
  <2>1. Kept(t) /\ (result'[t] = "ok" => result[t] = "ok")
    BY <1>1, <1>3, PublishSignedKept
  <2>2. MemoType'
    BY <1>1, <1>2, <1>3 DEF IInv, TypeOK, MemoType
  <2> QED
    BY <1>1, <2>1, <2>2 DEF StepKept, Honest
<1>4. CASE t \in Queriers /\ QueryScoped(t, 2)
  <2>1. t \notin Publishers /\ Kept(t) /\ got' \in [Tasks -> SUBSET Events]
    BY <1>1, <1>4, QueryScopedKept, TasksAssumption
  <2>2. MemoType'
    BY <1>1, <1>2, <2>1 DEF IInv, TypeOK, MemoType
  <2> QED
    BY <1>1, <2>1, <2>2 DEF StepKept, Honest
<1>5. CASE t \in Subscribers /\ Request(t) /\ UNCHANGED got
  <2>1. t \notin Publishers /\ Kept(t)
    BY <1>1, <1>5, RequestKept, TasksAssumption
  <2>2. MemoType'
    BY <1>1, <1>2, <1>5 DEF IInv, TypeOK, MemoType
  <2> QED
    BY <1>1, <2>1, <2>2 DEF StepKept, Honest
<1> QED
  BY <1>3, <1>4, <1>5 DEF Resume

LEMMA TimeoutKept ==
    ASSUME IInv, NEW t \in Tasks, Timeout(t)
    PROVE  StepKept(t)
<1>1. Leave(t, "timeout") /\ UNCHANGED <<outside, memoVars>>
  BY DEF Timeout, TimeoutResult
<1>2. MemoType' /\ authed' = authed
  BY <1>1 DEF memoVars, MemoType, IInv, TypeOK
<1>3. Kept(t) /\ (t \in Publishers => result'[t] = "timeout")
  BY <1>1, LeaveKept DEF Results
<1> QED
  BY <1>1, <1>2, <1>3 DEF StepKept, Honest

LEMMA CallStepKept ==
    ASSUME IInv, NEW t \in Tasks, CallStep(t)
    PROVE  StepKept(t)
  BY PublishKept, QueryKept, SubscribeKept, AuthenticateKept, AuthChallengedKept,
     AuthAnsweredKept, ResumeKept, TimeoutKept DEF CallStep, TaskStep

LEMMA CallStepInv ==
    ASSUME IInv, NEW t \in Tasks, CallStep(t)
    PROVE  IInv'
<1>1. StepKept(t)
  BY CallStepKept
<1>2. ReaderType' /\ RelayType' /\ AttemptsLeft'
  BY <1>1 DEF StepKept, outside, runVars, sockVars, relayVars, IInv, TypeOK,
              ReaderType, RelayType, AttemptsLeft
<1>3. LinkType'
  BY <1>1 DEF StepKept, Kept, outside, IInv, TypeOK, LinkType
<1> QED
  BY <1>1, <1>2, <1>3 DEF StepKept, Kept, IInv, TypeOK

-----------------------------------------------------------------------------
(* The steps of the reader.                                                 *)

LEMMA HandleMessageInv ==
    ASSUME IInv, HandleMessage
    PROVE  IInv'
<1> DEFINE m == Head(r2c)
<1>1. /\ run = "reading" /\ r2c # <<>> /\ r2c' = Tail(r2c)
      /\ UNCHANGED <<run, attempts, resub, sockVars, subs, pendingOk, authed,
                     authLock, pc, retried, got, result, atStart, c2r, relayVars>>
  BY DEF HandleMessage
<1>2. m \in RelayFrames /\ LinkType'
  BY <1>1 DEF IInv, TypeOK, LinkType
<1>3. ReaderType' /\ RelayType' /\ AttemptsLeft'
  BY <1>1 DEF sockVars, relayVars, IInv, TypeOK, ReaderType, RelayType, AttemptsLeft
<1>4. OneAuthenticates'
  BY <1>1 DEF IInv, OneAuthenticates
<1> HIDE DEF m
<1>5. CASE HandleSub(m)
  <2>1. m \in SubFrames /\ m.sub \in SubIds
    BY <1>2, <1>5, RelayFrameFields DEF HandleSub
  <2>2. queue' \in [SubIds -> Seq(SubFrames)]
    BY <1>5, <2>1 DEF HandleSub, IInv, TypeOK, TablesType
  <2>3. TablesType' /\ CallsType' /\ MemoType'
    BY <1>1, <1>5, <2>2 DEF HandleSub, IInv, TypeOK, TablesType, CallsType, MemoType
  <2>4. Waiting'
    BY <1>1, <1>5 DEF HandleSub, IInv, Waiting
  <2> QED
    BY <1>2, <1>3, <1>4, <2>3, <2>4 DEF IInv, TypeOK
<1>6. CASE HandleOk(m)
  <2>1. m.id \in Ids /\ m.answer \in Answers
    BY <1>2, <1>6, RelayFrameFields DEF HandleOk
  <2>2. fut' \in [Tasks -> Answers \cup {"pending", "error"}]
    BY <1>6, <2>1 DEF HandleOk, IInv, TypeOK, CallsType
  <2>3. TablesType' /\ CallsType' /\ MemoType'
    BY <1>1, <1>6, <2>2 DEF HandleOk, IInv, TypeOK, TablesType, CallsType, MemoType
  <2>4. \A t \in Tasks : fut'[t] = fut[t] \/ pc[t] \in {"awaitOk", "authOk"}
    <3>1. ASSUME NEW t \in Tasks
          PROVE  fut'[t] = IF pendingOk[m.id] = t /\ fut[t] = "pending"
                           THEN m.answer ELSE fut[t]
      BY <1>6 DEF HandleOk, Waiter
    <3>2. \A t \in Tasks : pendingOk[m.id] = t => pc[t] \in {"awaitOk", "authOk"}
      BY <2>1 DEF IInv, Waiting
    <3> QED
      BY <3>1, <3>2
  <2>5. UNCHANGED <<pc, pendingOk, authWaiters, answering>>
    BY <1>1, <1>6 DEF HandleOk
  <2>6. \A t \in Tasks : fut'[t] = "pending" => fut[t] = "pending"
    BY <1>6, <2>1, <2>2 DEF HandleOk, Waiter, Answers, IInv, TypeOK, CallsType
  <2>7. Waiting'
    BY <2>4, <2>5, <2>6 DEF IInv, Waiting
  <2> QED
    BY <1>2, <1>3, <1>4, <2>3, <2>7 DEF IInv, TypeOK
<1>7. CASE OnAuthChallenge(m)
  <2>1. m.challenge \in Challenges /\ m.challenge \in 0..MaxConns
    BY <1>2, <1>7, RelayFrameFields, BoundsAssumption DEF OnAuthChallenge, Challenges
  <2>2. /\ fut' \in [Tasks -> Answers \cup {"pending", "error"}]
        /\ answering' \in [Tasks -> 0..MaxConns]
    BY <1>7, <2>1 DEF OnAuthChallenge, IInv, TypeOK, CallsType, Answers
  <2>3. TablesType' /\ CallsType' /\ MemoType'
    BY <1>1, <1>7, <2>1, <2>2
       DEF OnAuthChallenge, IInv, TypeOK, TablesType, CallsType, MemoType
  <2>4. \A t \in Tasks : \/ fut'[t] = fut[t] /\ answering'[t] = answering[t]
                         \/ pc[t] = "authChallenge" /\ answering'[t] \in Challenges
    BY <1>7, <2>1 DEF OnAuthChallenge, PendingWaiters, IInv, TypeOK, CallsType
  <2>5. \A t \in Tasks : ~(pc[t] = "authChallenge" /\ fut'[t] = "pending")
    BY <1>7 DEF OnAuthChallenge, PendingWaiters, IInv, Waiting, TypeOK, CallsType
  <2>6. Waiting'
    BY <1>1, <1>7, <2>4, <2>5 DEF OnAuthChallenge, IInv, Waiting
  <2> QED
    BY <1>2, <1>3, <1>4, <2>3, <2>6 DEF IInv, TypeOK
<1> QED
  BY <1>5, <1>6, <1>7 DEF HandleMessage, m

LEMMA ConnectFailsInv ==
    ASSUME IInv, ConnectFails
    PROVE  IInv'
<1>1. /\ run = "connecting" /\ attempts' = attempts + 1
      /\ UNCHANGED <<resub, sockVars, subs, authed, challenge, authLock, answering,
                     pc, retried, got, result, atStart, c2r, r2c, relayVars>>
  BY DEF ConnectFails
<1>2. MemoType' /\ LinkType' /\ RelayType' /\ OneAuthenticates'
  BY <1>1 DEF relayVars, IInv, TypeOK, MemoType, LinkType, RelayType, OneAuthenticates
<1>3. attempts' \in 0..MaxAttempts /\ (~Exhausted => attempts' < MaxAttempts)
  BY <1>1, BoundsAssumption DEF IInv, TypeOK, ReaderType, AttemptsLeft, Exhausted
<1>4. CASE Exhausted
  <2>1. run' = "gaveUp" /\ FailPending
    BY <1>4 DEF ConnectFails
  <2>2. ReaderType' /\ AttemptsLeft'
    BY <1>1, <1>3, <2>1 DEF sockVars, IInv, TypeOK, ReaderType, AttemptsLeft
  <2>3. TablesType'
    <3>1. \A i \in SubIds : ClosedFrame(i, "error") \in SubFrames
      BY Frames
    <3>2. queue' \in [SubIds -> Seq(SubFrames)]
      BY <2>1, <3>1 DEF FailPending, ClosedQueues, IInv, TypeOK, TablesType
    <3> QED
      BY <1>1, <2>1, <3>2 DEF FailPending, IInv, TypeOK, TablesType
  <2>4. CallsType'
    BY <1>1, <2>1 DEF FailPending, IInv, TypeOK, CallsType
  <2>5. \A t \in Tasks : \/ fut'[t] = fut[t]
                         \/ fut'[t] = "error" /\ pc[t] \in {"awaitOk", "authChallenge", "authOk"}
    BY <2>1 DEF FailPending, PendingWaiters, IInv, Waiting
  <2>7. \A t \in Tasks : ~(pc[t] = "authChallenge" /\ fut'[t] = "pending")
    BY <2>1 DEF FailPending, PendingWaiters, IInv, Waiting, TypeOK, CallsType
  <2>6. Waiting'
    BY <1>1, <2>1, <2>5, <2>7, TasksAssumption DEF FailPending, IInv, Waiting
  <2> QED
    BY <1>2, <2>2, <2>3, <2>4, <2>6 DEF IInv, TypeOK
<1>5. CASE ~Exhausted
  <2>1. UNCHANGED <<run, fut, pendingOk, authWaiters, queue>>
    BY <1>5 DEF ConnectFails
  <2>2. ReaderType' /\ AttemptsLeft'
    BY <1>1, <1>3, <1>5, <2>1 DEF sockVars, IInv, TypeOK, ReaderType, AttemptsLeft
  <2>3. TablesType' /\ CallsType' /\ Waiting'
    BY <1>1, <2>1 DEF IInv, TypeOK, TablesType, CallsType, Waiting
  <2> QED
    BY <1>2, <2>2, <2>3 DEF IInv, TypeOK
<1> QED
  BY <1>4, <1>5

(* The other steps of the reader, of the link and of the relay leave the    *)
(* calls alone.                                                             *)
LEMMA CallsAlone ==
    ASSUME IInv, UNCHANGED callVars
    PROVE  TablesType' /\ CallsType' /\ Waiting' /\ OneAuthenticates'
  BY DEF callVars, IInv, TypeOK, TablesType, CallsType, Waiting, OneAuthenticates

LEMMA MemoAlone ==
    ASSUME IInv, UNCHANGED memoVars
    PROVE  MemoType'
  BY DEF memoVars, IInv, TypeOK, MemoType

LEMMA RelayAlone ==
    ASSUME IInv, UNCHANGED relayVars
    PROVE  RelayType'
  BY DEF relayVars, IInv, TypeOK, RelayType

LEMMA GreetingType ==
    ASSUME NEW c \in Challenges
    PROVE  Greeting(c) \in Seq(RelayFrames)
  BY Frames DEF Greeting

LEMMA ReconnectInv ==
    ASSUME IInv, ReaderStumbles \/ ConnectionLost \/ ConnectOk
                   \/ (\E i \in SubIds : Resubscribe(i))
                   \/ Resubscribed \/ ReaderCrashes
    PROVE  IInv'
<1>0. /\ UNCHANGED callVars
      /\ ~ConnectOk => UNCHANGED relayVars
  BY DEF ReaderStumbles, ConnectionLost, ConnectOk, Resubscribe, Resubscribed, ReaderCrashes
<1>1. CASE ConnectionLost
  <2>1. ReaderType' /\ AttemptsLeft' /\ LinkType'
    BY <1>1, BoundsAssumption DEF ConnectionLost, sockVars, IInv, TypeOK, ReaderType,
                                  AttemptsLeft, LinkType
  <2>2. UNCHANGED memoVars /\ ~ConnectOk
    BY <1>1 DEF ConnectionLost, ConnectOk
  <2> QED
    BY <1>0, <2>1, <2>2, CallsAlone, MemoAlone, RelayAlone DEF IInv, TypeOK
<1>6. CASE ReaderStumbles
  <2>1. ~ConnectOk
    BY <1>6 DEF ReaderStumbles, ConnectOk
  <2>2. ReaderType' /\ AttemptsLeft'
    BY <1>6, BoundsAssumption DEF ReaderStumbles, sockVars, IInv, TypeOK, ReaderType,
                                  AttemptsLeft
  <2>3. LinkType'
    BY <1>6 DEF ReaderStumbles, IInv, TypeOK, LinkType
  <2>4. UNCHANGED memoVars
    BY <1>6 DEF ReaderStumbles
  <2> QED
    BY <1>0, <2>1, <2>2, <2>3, <2>4, CallsAlone, MemoAlone, RelayAlone DEF IInv, TypeOK
<1>2. CASE ConnectOk
  <2>1. conn + 1 \in Challenges
    BY <1>2, BoundsAssumption DEF ConnectOk, IInv, TypeOK, ReaderType, Challenges
  <2>2. LinkType'
    BY <1>2, <2>1, GreetingType DEF ConnectOk, IInv, TypeOK, LinkType
  <2>3. ReaderType' /\ AttemptsLeft'
    <3>1. LiveSubs \subseteq SubIds
      BY DEF LiveSubs, IInv, TypeOK, TablesType
    <3>2. /\ run' = "resubscribing" /\ ws' = "open" /\ conn' = conn + 1
          /\ resub' = LiveSubs /\ UNCHANGED attempts
      BY <1>2 DEF ConnectOk
    <3> QED
      BY <2>1, <3>1, <3>2 DEF IInv, TypeOK, ReaderType, AttemptsLeft
  <2>4. MemoType'
    <3>1. 0 \in 0..MaxConns
      BY BoundsAssumption
    <3>2. authed' = FALSE /\ challenge' = 0 /\ UNCHANGED <<retried, got, atStart>>
      BY <1>2 DEF ConnectOk, FreshAuth
    <3> QED
      BY <3>1, <3>2 DEF IInv, TypeOK, MemoType
  <2>5. RelayType'
    BY <1>2 DEF ConnectOk, RelayForgets, IInv, TypeOK, RelayType
  <2> QED
    BY <1>0, <2>2, <2>3, <2>4, <2>5, CallsAlone DEF IInv, TypeOK
<1>3. ASSUME NEW i \in SubIds, Resubscribe(i)
      PROVE  IInv'
  <2>1. LinkType'
    <3>1. SubFrame("REQ", i) \in ClientFrames
      BY Frames
    <3> QED
      BY <1>3, <3>1 DEF Resubscribe, IInv, TypeOK, LinkType
  <2>2. ReaderType' /\ AttemptsLeft' /\ UNCHANGED memoVars /\ ~ConnectOk
    BY <1>3 DEF Resubscribe, ConnectOk, sockVars, IInv, TypeOK, ReaderType, AttemptsLeft
  <2> QED
    BY <1>0, <2>1, <2>2, CallsAlone, MemoAlone, RelayAlone DEF IInv, TypeOK
<1>4. CASE Resubscribed
  <2>1. ReaderType' /\ AttemptsLeft' /\ LinkType' /\ UNCHANGED memoVars /\ ~ConnectOk
    BY <1>4, BoundsAssumption DEF Resubscribed, ConnectOk, sockVars, IInv, TypeOK, ReaderType,
                                  AttemptsLeft, LinkType
  <2> QED
    BY <1>0, <2>1, CallsAlone, MemoAlone, RelayAlone DEF IInv, TypeOK
<1>5. CASE ReaderCrashes
  <2>1. ReaderType' /\ AttemptsLeft' /\ LinkType' /\ UNCHANGED memoVars /\ ~ConnectOk
    BY <1>5 DEF ReaderCrashes, ConnectOk, sockVars, IInv, TypeOK, ReaderType, AttemptsLeft, LinkType
  <2> QED
    BY <1>0, <2>1, CallsAlone, MemoAlone, RelayAlone DEF IInv, TypeOK
<1> QED
  BY <1>1, <1>2, <1>3, <1>4, <1>5, <1>6

-----------------------------------------------------------------------------
(* The steps of the link and the relay.                                     *)

LEMMA LinkInv ==
    ASSUME IInv, Close \/ Drop
    PROVE  IInv'
<1>1. UNCHANGED <<callVars, memoVars>>
  BY DEF Close, Drop
<1>2. RelayType'
  BY DEF Close, Drop, RelayForgets, IInv, TypeOK, RelayType
<1>3. ReaderType' /\ AttemptsLeft'
  BY DEF Close, Drop, runVars, IInv, TypeOK, ReaderType, AttemptsLeft
<1>4. LinkType'
  <2>1. CASE Close
    BY <2>1 DEF Close, LinkType
  <2>2. CASE Drop
    BY <2>2 DEF Drop, IInv, TypeOK, LinkType
  <2> QED
    BY <2>1, <2>2
<1> QED
  BY <1>1, <1>2, <1>3, <1>4, CallsAlone, MemoAlone DEF IInv, TypeOK

(* What the relay may also do: send again what it sent, and store what      *)
(* another client publishes.                                                *)
RelayGivesMore ==
    \/ \E i \in SubIds, e \in Events : RelayRepeats(i, e)
    \/ \E e \in Foreign : OthersPublish(e)

LEMMA RelayInv ==
    ASSUME IInv, \/ RelayStep \/ (\E i \in SubIds : RelayDropsSub(i))
                 \/ RelayGivesMore
    PROVE  IInv'
<1>1. UNCHANGED <<runVars, sockVars, callVars, memoVars>>
  BY DEF RelayStep, RelayDropsSub, RelayReads, RelaySendsEvent, RelaySendsEose,
         RelayGivesMore, RelayRepeats, OthersPublish, clientVars
<1>2. ReaderType' /\ AttemptsLeft'
  BY <1>1 DEF runVars, sockVars, IInv, TypeOK, ReaderType, AttemptsLeft
<1>3. CASE RelayReads
  <2> DEFINE m == Head(c2r)
  <2>1. m \in ClientFrames /\ c2r' \in Seq(ClientFrames)
    BY <1>3 DEF RelayReads, IInv, TypeOK, LinkType
  <2> HIDE DEF m
  <2>2. CASE RelayEvent(m)
    <3>1. m.ev \in Events
      BY <2>1, <2>2, ClientFrameFields DEF RelayEvent
    <3>2. PICK a \in Answers : r2c' = Append(r2c, OkFrame(m.ev, a))
      BY <2>2 DEF RelayEvent, Answers
    <3>3. OkFrame(m.ev, a) \in RelayFrames
      BY <3>1, Frames DEF Ids
    <3>4. LinkType'
      BY <2>1, <3>2, <3>3 DEF IInv, TypeOK, LinkType
    <3>5. RelayType'
      BY <2>2, <3>1 DEF RelayEvent, IInv, TypeOK, RelayType
    <3> QED
      BY <1>1, <1>2, <3>4, <3>5, CallsAlone, MemoAlone DEF IInv, TypeOK
  <2>3. CASE RelayReq(m)
    <3>1. m.sub \in SubIds
      BY <2>1, <2>3, ClientFrameFields DEF RelayReq
    <3>2. ClosedFrame(m.sub, "auth-required") \in RelayFrames
      BY <3>1, Frames
    <3>3. LinkType'
      BY <2>1, <2>3, <3>2 DEF RelayReq, IInv, TypeOK, LinkType
    <3>4. RelayType'
      BY <2>3, <3>1 DEF RelayReq, IInv, TypeOK, RelayType
    <3> QED
      BY <1>1, <1>2, <3>3, <3>4, CallsAlone, MemoAlone DEF IInv, TypeOK
  <2>4. CASE RelayClose(m)
    <3>1. LinkType' /\ RelayType'
      BY <2>1, <2>4 DEF RelayClose, Forget, IInv, TypeOK, LinkType, RelayType
    <3> QED
      BY <1>1, <1>2, <3>1, CallsAlone, MemoAlone DEF IInv, TypeOK
  <2>5. CASE RelayAuth(m)
    <3>1. m.challenge \in Challenges
      BY <2>1, <2>5, ClientFrameFields DEF RelayAuth
    <3>2. PICK a \in Answers : r2c' = Append(r2c, OkFrame(m.challenge, a))
      BY <2>5 DEF RelayAuth, Answers
    <3>3. OkFrame(m.challenge, a) \in RelayFrames
      BY <3>1, Frames DEF Ids
    <3>4. LinkType'
      BY <2>1, <3>2, <3>3 DEF IInv, TypeOK, LinkType
    <3>5. RelayType'
      BY <2>5 DEF RelayAuth, IInv, TypeOK, RelayType
    <3> QED
      BY <1>1, <1>2, <3>4, <3>5, CallsAlone, MemoAlone DEF IInv, TypeOK
  <2> QED
    BY <1>3, <2>2, <2>3, <2>4, <2>5 DEF RelayReads, m
<1>4. ASSUME NEW o \in SubIds \X Events, RelaySendsEvent(o)
      PROVE  IInv'
  <2>1. EventFrame(o[1], o[2]) \in RelayFrames
    BY Frames
  <2>2. LinkType' /\ RelayType'
    BY <1>4, <2>1 DEF RelaySendsEvent, IInv, TypeOK, LinkType, RelayType
  <2> QED
    BY <1>1, <1>2, <1>4, <2>2, CallsAlone, MemoAlone DEF IInv, TypeOK
<1>5. ASSUME NEW i \in SubIds, RelaySendsEose(i) \/ RelayDropsSub(i)
      PROVE  IInv'
  <2>1. EoseFrame(i) \in RelayFrames /\ ClosedFrame(i, "error") \in RelayFrames
    BY Frames
  <2>2. LinkType' /\ RelayType'
    BY <1>5, <2>1 DEF RelaySendsEose, RelayDropsSub, Forget, IInv, TypeOK, LinkType, RelayType
  <2> QED
    BY <1>1, <1>2, <1>5, <2>2, CallsAlone, MemoAlone DEF IInv, TypeOK
<1>6. ASSUME NEW i \in SubIds, NEW e \in Events, RelayRepeats(i, e)
      PROVE  IInv'
  <2>1. EventFrame(i, e) \in RelayFrames
    BY Frames
  <2>2. LinkType' /\ RelayType'
    BY <1>6, <2>1 DEF RelayRepeats, relayVars, IInv, TypeOK, LinkType, RelayType
  <2> QED
    BY <1>1, <1>2, <2>2, CallsAlone, MemoAlone DEF IInv, TypeOK
<1>7. ASSUME NEW e \in Foreign, OthersPublish(e)
      PROVE  IInv'
  <2>1. LinkType' /\ RelayType'
    BY <1>7, EventsAssumption DEF OthersPublish, IInv, TypeOK, LinkType, RelayType
  <2> QED
    BY <1>1, <1>2, <2>1, CallsAlone, MemoAlone DEF IInv, TypeOK
<1> QED
  BY <1>3, <1>4, <1>5, <1>6, <1>7 DEF RelayStep, RelayGivesMore

-----------------------------------------------------------------------------
(* The invariant.                                                           *)

LEMMA InitInv == Init => IInv
<1> SUFFICES ASSUME Init PROVE IInv
  OBVIOUS
<1> USE BoundsAssumption, TasksAssumption, EventsAssumption DEF Init
<1>1. ReaderType /\ AttemptsLeft
  BY DEF ReaderType, AttemptsLeft, Challenges
<1>2. TablesType
  BY DEF TablesType
<1>3. CallsType /\ MemoType
  <2>1. 0 \in 0..MaxConns
    OBVIOUS
  <2>2. CallsType
    BY <2>1 DEF CallsType, Places, Results
  <2>3. MemoType
    BY <2>1 DEF MemoType
  <2> QED
    BY <2>2, <2>3
<1>4. LinkType
  BY GreetingType DEF LinkType, Challenges
<1>5. RelayType
  BY DEF RelayType
<1>6. Waiting /\ OneAuthenticates
  BY DEF Waiting, OneAuthenticates
<1> QED
  BY <1>1, <1>2, <1>3, <1>4, <1>5, <1>6 DEF IInv, TypeOK

(* Every step of the specification is a step of a call, of the reader, of   *)
(* the link or of the relay.                                                *)
LEMMA NextCases ==
    ASSUME Next
    PROVE  \/ \E t \in Tasks : CallStep(t)
           \/ HandleMessage
           \/ ConnectFails
           \/ ReaderStumbles \/ ConnectionLost \/ ConnectOk
                 \/ (\E i \in SubIds : Resubscribe(i))
                 \/ Resubscribed \/ ReaderCrashes
           \/ Close \/ Drop
           \/ RelayStep \/ (\E i \in SubIds : RelayDropsSub(i))
                 \/ RelayGivesMore
<1>1. Queriers \X {1, 2} \subseteq SubIds
  BY DEF SubIds
<1> QED
  BY <1>1 DEF Next, RunStep, CallStep, Tasks, RelayGivesMore

LEMMA StutterInv == IInv /\ UNCHANGED vars => IInv'
<1> SUFFICES ASSUME IInv, UNCHANGED vars PROVE IInv'
  OBVIOUS
<1>1. UNCHANGED <<runVars, sockVars, callVars, memoVars, c2r, r2c, relayVars>>
  BY DEF vars, clientVars
<1>2. ReaderType' /\ AttemptsLeft' /\ LinkType'
  BY <1>1 DEF runVars, sockVars, IInv, TypeOK, ReaderType, AttemptsLeft, LinkType
<1> QED
  BY <1>1, <1>2, CallsAlone, MemoAlone, RelayAlone DEF IInv, TypeOK

LEMMA IInvHolds == Spec => []IInv
<1>1. IInv /\ [Next]_vars => IInv'
  BY StutterInv, NextCases, CallStepInv, HandleMessageInv, ConnectFailsInv,
     ReconnectInv, LinkInv, RelayInv
<1> QED
  BY <1>1, InitInv, PTL DEF Spec

(* Every variable keeps its type, whatever the sizes of the instance.       *)
THEOREM TypeCorrect == Spec => []TypeOK
<1>1. IInv => TypeOK
  BY DEF IInv
<1> QED
  BY <1>1, IInvHolds, PTL

(* One task authenticates at a time, and it holds _auth_lock (_authenticate)*)
(* : no exception, timeout or reconnect lets two into the locked section.   *)
THEOREM OneAtATime == Spec => []OneAuthenticates
<1>1. IInv => OneAuthenticates
  BY DEF IInv
<1> QED
  BY <1>1, IInvHolds, PTL

-----------------------------------------------------------------------------
(* An answer a caller gets is one the relay gave: a publish that returns    *)
(* was stored, a client that believes itself authenticated is.  Both follow *)
(* an answer along its way: from the relay into the link, from the link into*)
(* the future of the task it belongs to, and from there into the result of a*)
(* call or into _authed.  The invariants say, for each leg of the way, that *)
(* an OK found there is backed by the relay.                                *)

Accepted(m)     == m.type = "OK" /\ m.answer = "ok"
EventOk(m)      == Accepted(m) /\ m.id \in Events
ChallengeOk(m)  == Accepted(m) /\ m.id \in Challenges

AwaitsOk(t)     == pc[t] = "awaitOk" /\ fut[t] = "ok"
AwaitsAuth(t)   == pc[t] = "authOk" /\ fut[t] = "ok"

PublishInv ==
    /\ \A k \in 1..Len(r2c) : EventOk(r2c[k]) => r2c[k].id \in stored
    /\ \A p \in Publishers : AwaitsOk(p) => EventOf[p] \in stored
    /\ PublishedMeansStored

(* While the relay has not authenticated the connection, no OK of an        *)
(* authentication is anywhere.                                              *)
AuthInv ==
    ws = "open" /\ ~rAuthed =>
        /\ ~authed
        /\ \A k \in 1..Len(r2c) : ~ChallengeOk(r2c[k])
        /\ \A t \in Tasks : ~AwaitsAuth(t)

-----------------------------------------------------------------------------
(* Where the frames of a changed link come from.                            *)

(* Every frame received was received before or is one of those in new.      *)
FromLink(new) ==
    \A k \in 1..Len(r2c') : r2c'[k] \in new \/ \E j \in 1..Len(r2c) : r2c'[k] = r2c[j]

LEMMA SameLink ==
    ASSUME r2c' = r2c
    PROVE  FromLink({})
  BY DEF FromLink

LEMMA LongerLink ==
    ASSUME IInv, NEW m, r2c' = Append(r2c, m)
    PROVE  FromLink({m})
<1>1. r2c \in Seq(RelayFrames)
  BY DEF IInv, TypeOK, LinkType
<1>2. Len(r2c') = Len(r2c) + 1 /\ Len(r2c) \in Nat
  BY <1>1
<1>3. \A k \in 1..Len(r2c') : IF k \in 1..Len(r2c) THEN r2c'[k] = r2c[k] ELSE r2c'[k] = m
  BY <1>1, <1>2
<1> QED
  BY <1>3 DEF FromLink

LEMMA ShorterLink ==
    ASSUME IInv, \/ r2c # <<>> /\ r2c' = Tail(r2c)
                 \/ \E n \in 0..Len(r2c) : r2c' = SubSeq(r2c, 1, n)
                 \/ r2c' = <<>>
    PROVE  FromLink({})
<1>1. r2c \in Seq(RelayFrames) /\ Len(r2c) \in Nat
  BY DEF IInv, TypeOK, LinkType
<1>2. CASE r2c # <<>> /\ r2c' = Tail(r2c)
  <2>1. \A k \in 1..Len(r2c') : k + 1 \in 1..Len(r2c) /\ r2c'[k] = r2c[k + 1]
    BY <1>1, <1>2
  <2> QED
    BY <2>1 DEF FromLink
<1>3. ASSUME NEW n \in 0..Len(r2c), r2c' = SubSeq(r2c, 1, n)
      PROVE  FromLink({})
  <2>1. \A k \in 1..Len(r2c') : k \in 1..Len(r2c) /\ r2c'[k] = r2c[k]
    BY <1>1, <1>3
  <2> QED
    BY <2>1 DEF FromLink
<1>4. CASE r2c' = <<>>
  BY <1>4 DEF FromLink
<1> QED
  BY <1>2, <1>3, <1>4

(* A message taken from the link was in it.                                 *)
LEMMA HeadOfLink ==
    ASSUME IInv, r2c # <<>>
    PROVE  Head(r2c) \in RelayFrames /\ \E j \in 1..Len(r2c) : Head(r2c) = r2c[j]
<1>1. r2c \in Seq(RelayFrames) /\ Len(r2c) \in Nat
  BY DEF IInv, TypeOK, LinkType
<1>2. 1 \in 1..Len(r2c) /\ Head(r2c) = r2c[1]
  BY <1>1
<1> QED
  BY <1>1, <1>2

-----------------------------------------------------------------------------
(* What one step can do to the answers on their way.                        *)

(* The answers that futures hold: no step but HandleMessage gives one a     *)
(* positive answer, and only that of the frame it reads.                    *)
FutureFrom(t) ==
    /\ AwaitsOk(t)' =>
          AwaitsOk(t) \/ (r2c # <<>> /\ EventOk(Head(r2c)) /\ Head(r2c).id = EventOf[t])
    /\ AwaitsAuth(t)' => AwaitsAuth(t) \/ (r2c # <<>> /\ ChallengeOk(Head(r2c)))

(* An OK that joins the link is backed by the relay.                        *)
NewFramesBacked ==
    \E new \in SUBSET RelayFrames :
        /\ FromLink(new)
        /\ \A m \in new : /\ EventOk(m) => m.id \in stored'
                          /\ ChallengeOk(m) => rAuthed'

Answering ==
    /\ stored \subseteq stored'
    /\ \A t \in Tasks : FutureFrom(t)
    /\ \A p \in Publishers : result'[p] = "ok" => result[p] = "ok" \/ AwaitsOk(p)
    /\ authed' => authed \/ \E t \in Tasks : AwaitsAuth(t)
    /\ ws' = "open" => ws = "open" /\ (rAuthed => rAuthed')
    /\ NewFramesBacked

LEMMA CallAnswering ==
    ASSUME IInv, NEW t \in Tasks, CallStep(t)
    PROVE  Answering
<1>1. StepKept(t)
  BY CallStepKept
<1>2. UNCHANGED <<r2c, ws, stored, rAuthed>>
  BY <1>1 DEF StepKept, outside, sockVars, relayVars
<1>3. \A u \in Tasks : FutureFrom(u)
  BY <1>1 DEF StepKept, Kept, FutureFrom, AwaitsOk, AwaitsAuth
<1>4. \A p \in Publishers : result'[p] = "ok" => result[p] = "ok" \/ AwaitsOk(p)
  BY <1>1 DEF StepKept, Kept, Honest, AwaitsOk, Tasks
<1>5. authed' => authed \/ AwaitsAuth(t)
  BY <1>1 DEF StepKept, Honest, AwaitsAuth
<1>6. FromLink({})
  BY <1>2, SameLink
<1> QED
  BY <1>2, <1>3, <1>4, <1>5, <1>6 DEF Answering, NewFramesBacked

LEMMA MessageAnswering ==
    ASSUME IInv, HandleMessage
    PROVE  Answering
<1> DEFINE m == Head(r2c)
<1>1. /\ r2c # <<>> /\ r2c' = Tail(r2c)
      /\ UNCHANGED <<pc, result, authed, ws, stored, rAuthed>>
  BY DEF HandleMessage, sockVars, relayVars
<1>2. FromLink({})
  BY <1>1, ShorterLink
<1>3. m \in RelayFrames
  BY <1>1, HeadOfLink
<1> HIDE DEF m
<1>4. \A t \in Tasks : FutureFrom(t)
  <2>1. CASE HandleSub(m)
    BY <1>1, <2>1 DEF HandleSub, FutureFrom, AwaitsOk, AwaitsAuth
  <2>2. CASE HandleOk(m)
    <3>1. m.id \in Ids
      BY <1>3, <2>2, RelayFrameFields DEF HandleOk
    <3> SUFFICES ASSUME NEW t \in Tasks PROVE FutureFrom(t)
      OBVIOUS
    <3>2. CASE fut'[t] = fut[t]
      BY <1>1, <3>2 DEF FutureFrom, AwaitsOk, AwaitsAuth
    <3>3. CASE fut'[t] # fut[t]
      <4>1. pendingOk[m.id] = t /\ fut'[t] = m.answer /\ m.type = "OK"
        BY <2>2, <3>3 DEF HandleOk, Waiter
      <4>2. \/ pc[t] = "awaitOk" /\ t \in Publishers /\ m.id = EventOf[t]
            \/ pc[t] = "authOk" /\ m.id = answering[t]
        BY <3>1, <4>1 DEF IInv, Waiting
      <4>3. pc[t] = "awaitOk" => m.id \in Events
        BY <4>2, EventsAssumption
      <4>4. pc[t] = "authOk" => m.id \in Challenges
        BY <4>2 DEF IInv, Waiting
      <4>5. AwaitsOk(t)' => EventOk(m) /\ m.id = EventOf[t]
        BY <1>1, <4>1, <4>2, <4>3 DEF AwaitsOk, EventOk, Accepted
      <4>6. AwaitsAuth(t)' => ChallengeOk(m)
        BY <1>1, <4>1, <4>4 DEF AwaitsAuth, ChallengeOk, Accepted
      <4> QED
        BY <1>1, <4>5, <4>6 DEF FutureFrom, m
    <3> QED
      BY <3>2, <3>3
  <2>3. CASE OnAuthChallenge(m)
    <3>1. \A t \in Tasks : fut'[t] = fut[t] \/ pc[t] = "authChallenge"
      BY <2>3 DEF OnAuthChallenge, PendingWaiters
    <3> QED
      BY <1>1, <3>1 DEF FutureFrom, AwaitsOk, AwaitsAuth
  <2> QED
    BY <2>1, <2>2, <2>3 DEF HandleMessage, m
<1> QED
  BY <1>1, <1>2, <1>4 DEF Answering, NewFramesBacked

LEMMA ReaderAnswering ==
    ASSUME IInv, \/ ConnectFails \/ ConnectionLost \/ Resubscribed \/ ReaderCrashes
                 \/ ReaderStumbles
                 \/ \E i \in SubIds : Resubscribe(i)
    PROVE  Answering
<1>1. UNCHANGED <<pc, result, authed, ws, stored, rAuthed>>
  BY DEF ConnectFails, ConnectionLost, Resubscribed, ReaderCrashes, Resubscribe,
         ReaderStumbles, sockVars, callVars, memoVars, relayVars
<1>2. \A t \in Tasks : fut'[t] = fut[t] \/ fut'[t] = "error"
  <2>1. CASE ConnectFails
    BY <2>1 DEF ConnectFails, FailPending
  <2>2. CASE UNCHANGED callVars
    BY <2>2 DEF callVars
  <2> QED
    BY <2>1, <2>2 DEF ConnectionLost, Resubscribed, ReaderCrashes, Resubscribe,
                      ReaderStumbles
<1>3. \A t \in Tasks : FutureFrom(t)
  BY <1>1, <1>2 DEF FutureFrom, AwaitsOk, AwaitsAuth
<1>4. FromLink({})
  <2>1. CASE ReaderStumbles
    BY <2>1, ShorterLink DEF ReaderStumbles
  <2>2. CASE r2c' = r2c
    BY <2>2, SameLink
  <2> QED
    BY <2>1, <2>2 DEF ConnectFails, ConnectionLost, Resubscribed, ReaderCrashes, Resubscribe
<1> QED
  BY <1>1, <1>3, <1>4 DEF Answering, NewFramesBacked

LEMMA LinkAnswering ==
    ASSUME IInv, Close \/ Drop
    PROVE  Answering
<1>1. UNCHANGED <<pc, result, fut, authed, stored>> /\ ws' # "open"
  BY DEF Close, Drop, callVars, memoVars
<1>2. FromLink({})
  BY ShorterLink DEF Close, Drop
<1>3. \A t \in Tasks : FutureFrom(t)
  BY <1>1 DEF FutureFrom, AwaitsOk, AwaitsAuth
<1> QED
  BY <1>1, <1>2, <1>3 DEF Answering, NewFramesBacked

(* A frame that is no OK needs no backing.                                  *)
LEMMA OtherFrame ==
    ASSUME IInv, NEW m \in RelayFrames, ~Accepted(m), r2c' = Append(r2c, m),
           UNCHANGED <<stored, rAuthed>>
    PROVE  stored \subseteq stored' /\ (rAuthed => rAuthed') /\ NewFramesBacked
<1>1. FromLink({m})
  BY LongerLink
<1> QED
  BY <1>1 DEF NewFramesBacked, EventOk, ChallengeOk

LEMMA RelayAnswering ==
    ASSUME IInv, \/ RelayStep \/ (\E i \in SubIds : RelayDropsSub(i))
                 \/ RelayGivesMore
    PROVE  Answering
<1>1. UNCHANGED <<pc, result, fut, authed, ws>>
  BY DEF RelayStep, RelayDropsSub, RelayReads, RelaySendsEvent, RelaySendsEose,
         RelayGivesMore, RelayRepeats, OthersPublish, clientVars, callVars, memoVars, sockVars
<1>2. \A t \in Tasks : FutureFrom(t)
  BY <1>1 DEF FutureFrom, AwaitsOk, AwaitsAuth
<1>3. SUFFICES stored \subseteq stored' /\ (rAuthed => rAuthed') /\ NewFramesBacked
  BY <1>1, <1>2 DEF Answering
<1>4. CASE RelayReads
  <2> DEFINE c == Head(c2r)
  <2>1. c \in ClientFrames
    BY <1>4 DEF RelayReads, IInv, TypeOK, LinkType
  <2> HIDE DEF c
  <2>2. CASE RelayEvent(c)
    <3>1. c.ev \in Events /\ c.ev \notin Challenges
      BY <2>1, <2>2, ClientFrameFields, EventsAssumption, BoundsAssumption
         DEF RelayEvent, Challenges
    <3>2. PICK a \in Answers : /\ r2c' = Append(r2c, OkFrame(c.ev, a))
                               /\ a = "ok" => c.ev \in stored'
      BY <2>2, <3>1 DEF RelayEvent, Answers
    <3>3. stored \subseteq stored' /\ rAuthed' = rAuthed
      BY <2>2 DEF RelayEvent
    <3>4. FromLink({OkFrame(c.ev, a)})
      BY <3>2, LongerLink
    <3>5. OkFrame(c.ev, a) \in RelayFrames
      BY <3>1, Frames DEF Ids
    <3>6. /\ EventOk(OkFrame(c.ev, a)) => c.ev \in stored'
          /\ ~ChallengeOk(OkFrame(c.ev, a))
          /\ OkFrame(c.ev, a).id = c.ev
      BY <3>1, <3>2 DEF EventOk, ChallengeOk, Accepted, OkFrame
    <3> QED
      BY <3>3, <3>4, <3>5, <3>6 DEF NewFramesBacked
  <2>3. CASE RelayReq(c)
    <3>1. c.sub \in SubIds
      BY <2>1, <2>3, ClientFrameFields DEF RelayReq
    <3>2. UNCHANGED <<stored, rAuthed>>
      BY <2>3 DEF RelayReq
    <3>3. r2c' = r2c \/ r2c' = Append(r2c, ClosedFrame(c.sub, "auth-required"))
      BY <2>3 DEF RelayReq
    <3>4. FromLink({}) \/ FromLink({ClosedFrame(c.sub, "auth-required")})
      BY <3>3, SameLink, LongerLink
    <3>5. /\ ClosedFrame(c.sub, "auth-required") \in RelayFrames
          /\ ~Accepted(ClosedFrame(c.sub, "auth-required"))
      BY <3>1, Frames DEF Accepted, ClosedFrame
    <3> QED
      BY <3>2, <3>4, <3>5 DEF NewFramesBacked, EventOk, ChallengeOk
  <2>4. CASE RelayClose(c)
    <3>1. UNCHANGED <<r2c, stored, rAuthed>>
      BY <2>4 DEF RelayClose
    <3> QED
      BY <3>1, SameLink DEF NewFramesBacked
  <2>5. CASE RelayAuth(c)
    <3>1. c.challenge \in Challenges /\ c.challenge \notin Events
      BY <2>1, <2>5, ClientFrameFields, EventsAssumption, BoundsAssumption
         DEF RelayAuth, Challenges
    <3>2. PICK a \in Answers : /\ r2c' = Append(r2c, OkFrame(c.challenge, a))
                               /\ a = "ok" => rAuthed'
      BY <2>5 DEF RelayAuth, Answers
    <3>3. stored' = stored /\ (rAuthed => rAuthed')
      BY <2>5 DEF RelayAuth
    <3>4. FromLink({OkFrame(c.challenge, a)})
      BY <3>2, LongerLink
    <3>5. OkFrame(c.challenge, a) \in RelayFrames
      BY <3>1, Frames DEF Ids
    <3>6. /\ ~EventOk(OkFrame(c.challenge, a))
          /\ ChallengeOk(OkFrame(c.challenge, a)) => rAuthed'
      BY <3>1, <3>2 DEF EventOk, ChallengeOk, Accepted, OkFrame
    <3> QED
      BY <3>3, <3>4, <3>5, <3>6 DEF NewFramesBacked
  <2> QED
    BY <1>4, <2>2, <2>3, <2>4, <2>5 DEF RelayReads, c
<1>5. ASSUME NEW o \in SubIds \X Events, RelaySendsEvent(o)
      PROVE  r2c' = Append(r2c, EventFrame(o[1], o[2])) /\ UNCHANGED <<stored, rAuthed>>
  BY <1>5 DEF RelaySendsEvent
<1>6. ASSUME NEW i \in SubIds, RelaySendsEose(i) \/ RelayDropsSub(i)
      PROVE  /\ r2c' = Append(r2c, EoseFrame(i)) \/ r2c' = Append(r2c, ClosedFrame(i, "error"))
             /\ UNCHANGED <<stored, rAuthed>>
  BY <1>6 DEF RelaySendsEose, RelayDropsSub
<1>7. CASE \E o \in SubIds \X Events : RelaySendsEvent(o)
  <2>1. PICK o \in SubIds \X Events : RelaySendsEvent(o)
    BY <1>7
  <2>2. EventFrame(o[1], o[2]) \in RelayFrames /\ ~Accepted(EventFrame(o[1], o[2]))
    BY Frames DEF EventFrame, Accepted
  <2> QED
    BY <1>5, <2>1, <2>2, OtherFrame
<1>8. CASE \E i \in SubIds : RelaySendsEose(i) \/ RelayDropsSub(i)
  <2>1. PICK i \in SubIds : RelaySendsEose(i) \/ RelayDropsSub(i)
    BY <1>8
  <2>2. /\ EoseFrame(i) \in RelayFrames /\ ~Accepted(EoseFrame(i))
        /\ ClosedFrame(i, "error") \in RelayFrames /\ ~Accepted(ClosedFrame(i, "error"))
    BY Frames DEF EoseFrame, ClosedFrame, Accepted
  <2> QED
    BY <1>6, <2>1, <2>2, OtherFrame
<1>9. ASSUME NEW i \in SubIds, NEW e \in Events, RelayRepeats(i, e)
      PROVE  stored \subseteq stored' /\ (rAuthed => rAuthed') /\ NewFramesBacked
  <2>1. EventFrame(i, e) \in RelayFrames /\ ~Accepted(EventFrame(i, e))
    BY Frames DEF EventFrame, Accepted
  <2>2. r2c' = Append(r2c, EventFrame(i, e)) /\ UNCHANGED <<stored, rAuthed>>
    BY <1>9 DEF RelayRepeats, relayVars
  <2> QED
    BY <2>1, <2>2, OtherFrame
<1>10. ASSUME NEW e \in Foreign, OthersPublish(e)
       PROVE  stored \subseteq stored' /\ (rAuthed => rAuthed') /\ NewFramesBacked
  <2>1. stored \subseteq stored' /\ UNCHANGED <<r2c, rAuthed>>
    BY <1>10 DEF OthersPublish
  <2> QED
    BY <2>1, SameLink DEF NewFramesBacked
<1> QED
  BY <1>4, <1>7, <1>8, <1>9, <1>10 DEF RelayStep, RelayGivesMore

-----------------------------------------------------------------------------
(* The invariants.                                                          *)

LEMMA StepAnswering ==
    ASSUME IInv, Next
    PROVE  Answering \/ ConnectOk
  BY NextCases, CallAnswering, MessageAnswering, ReaderAnswering, LinkAnswering,
     RelayAnswering

LEMMA StutterAnswering ==
    ASSUME IInv, UNCHANGED vars
    PROVE  Answering
<1>1. UNCHANGED <<pc, result, fut, authed, ws, r2c, stored, rAuthed>>
  BY DEF vars, clientVars, callVars, memoVars, sockVars, relayVars
<1>2. \A t \in Tasks : FutureFrom(t)
  BY <1>1 DEF FutureFrom, AwaitsOk, AwaitsAuth
<1>3. FromLink({})
  BY <1>1, SameLink
<1> QED
  BY <1>1, <1>2, <1>3 DEF Answering, NewFramesBacked

(* A new connection starts with no OK, and no task that is woken.           *)
LEMMA FreshConnection ==
    ASSUME IInv, ConnectOk
    PROVE  /\ UNCHANGED <<pc, fut, result, stored>>
           /\ \A k \in 1..Len(r2c') : ~Accepted(r2c'[k])
           /\ ~authed' /\ \A t \in Tasks : ~AwaitsAuth(t)'
<1>1. UNCHANGED <<pc, fut, result, stored>>
  BY DEF ConnectOk, callVars, relayVars
<1>2. \A k \in 1..Len(r2c') : ~Accepted(r2c'[k])
  BY DEF ConnectOk, Greeting, Accepted
<1>3. ~authed'
  BY DEF ConnectOk, FreshAuth
<1>4. \A t \in Tasks : ~AwaitsAuth(t)'
  BY <1>1 DEF ConnectOk, Woken, AwaitsAuth
<1> QED
  BY <1>1, <1>2, <1>3, <1>4

LEMMA PublishInvNext ==
    ASSUME IInv, PublishInv, [Next]_vars
    PROVE  PublishInv'
<1>1. CASE Answering
  <2>1. stored \subseteq stored'
    BY <1>1 DEF Answering
  <2>2. PICK new \in SUBSET RelayFrames :
          FromLink(new) /\ \A m \in new : EventOk(m) => m.id \in stored'
    BY <1>1 DEF Answering, NewFramesBacked
  <2>3. \A k \in 1..Len(r2c') : EventOk(r2c'[k]) => r2c'[k].id \in stored'
    BY <2>1, <2>2 DEF FromLink, PublishInv
  <2>4. ASSUME NEW p \in Publishers, AwaitsOk(p)'
        PROVE  EventOf[p] \in stored'
    <3>1. FutureFrom(p)
      BY <1>1 DEF Answering, Tasks
    <3>2. CASE AwaitsOk(p)
      BY <2>1, <3>2 DEF PublishInv
    <3>3. CASE r2c # <<>> /\ EventOk(Head(r2c)) /\ Head(r2c).id = EventOf[p]
      BY <2>1, <3>3, HeadOfLink DEF PublishInv
    <3> QED
      BY <2>4, <3>1, <3>2, <3>3 DEF FutureFrom
  <2>5. PublishedMeansStored'
    BY <1>1, <2>1 DEF Answering, PublishInv, PublishedMeansStored
  <2> QED
    BY <2>3, <2>4, <2>5 DEF PublishInv, EventOk, Accepted
<1>2. CASE ConnectOk
  BY <1>2, FreshConnection DEF PublishInv, PublishedMeansStored, AwaitsOk, EventOk, Accepted
<1> QED
  BY <1>1, <1>2, StepAnswering, StutterAnswering

LEMMA AuthInvNext ==
    ASSUME IInv, AuthInv, [Next]_vars
    PROVE  AuthInv'
<1> SUFFICES ASSUME ws' = "open", ~rAuthed'
             PROVE  /\ ~authed'
                    /\ \A k \in 1..Len(r2c') : ~ChallengeOk(r2c'[k])
                    /\ \A t \in Tasks : ~AwaitsAuth(t)'
  BY DEF AuthInv, ChallengeOk, Accepted
<1>1. CASE Answering
  <2>1. /\ ~authed
        /\ \A k \in 1..Len(r2c) : ~ChallengeOk(r2c[k])
        /\ \A t \in Tasks : ~AwaitsAuth(t)
    BY <1>1 DEF Answering, AuthInv
  <2>2. ~authed'
    BY <1>1, <2>1 DEF Answering
  <2>3. PICK new \in SUBSET RelayFrames :
          FromLink(new) /\ \A m \in new : ~ChallengeOk(m)
    BY <1>1 DEF Answering, NewFramesBacked
  <2>4. \A k \in 1..Len(r2c') : ~ChallengeOk(r2c'[k])
    BY <2>1, <2>3 DEF FromLink
  <2>5. \A t \in Tasks : ~AwaitsAuth(t)'
    BY <1>1, <2>1, HeadOfLink DEF Answering, FutureFrom
  <2> QED
    BY <2>2, <2>4, <2>5
<1>2. CASE ConnectOk
  BY <1>2, FreshConnection DEF ChallengeOk
<1> QED
  BY <1>1, <1>2, StepAnswering, StutterAnswering

LEMMA AnswersInit == Init => PublishInv /\ AuthInv
<1> SUFFICES ASSUME Init PROVE PublishInv /\ AuthInv
  OBVIOUS
<1>1. \A k \in 1..Len(r2c) : ~Accepted(r2c[k])
  BY DEF Init, Greeting, Accepted
<1> QED
  BY <1>1 DEF Init, PublishInv, AuthInv, EventOk, ChallengeOk, AwaitsOk, AwaitsAuth,
              PublishedMeansStored, Tasks

(* A publish() that returns has stored its event: no OK of another call, of *)
(* another connection or of an authentication passes for its own            *)
(* (_publish_signed, _handle_message).                                      *)
THEOREM PublishIsHonest == Spec => []PublishedMeansStored
<1>1. Init => PublishInv
  BY AnswersInit
<1>2. IInv /\ PublishInv /\ [Next]_vars => PublishInv'
  BY PublishInvNext
<1>3. PublishInv => PublishedMeansStored
  BY DEF PublishInv
<1> QED
  BY <1>1, <1>2, <1>3, IInvHolds, PTL DEF Spec

(* A client that believes itself authenticated is, on the connection it has:*)
(* no reconnect, late answer or waiting task carries _authed over           *)
(* (_authenticate, _reconnect).                                             *)
THEOREM AuthIsHonest == Spec => []AuthedMeansRelayAuthed
<1>1. Init => AuthInv
  BY AnswersInit
<1>2. IInv /\ AuthInv /\ [Next]_vars => AuthInv'
  BY AuthInvNext
<1>3. AuthInv => AuthedMeansRelayAuthed
  BY DEF AuthInv, AuthedMeansRelayAuthed
<1> QED
  BY <1>1, <1>2, <1>3, IInvHolds, PTL DEF Spec
=============================================================================
