-------------------------- MODULE RelayClientTables --------------------------
(***************************************************************************)
(* The tables of a RelayClient and the link below them stay in step: an    *)
(* authentication answers the challenge of its own connection, a call that *)
(* waits is found by its answer or its challenge, one that has ended by no *)
(* answer, and no subscription is forgotten by a reconnect.                *)
(*                                                                         *)
(* A step of a call has one of nine shapes; each invariant is kept shape by*)
(* shape, and then by the steps of the reader, the link and the relay.     *)
(***************************************************************************)
EXTENDS RelayClientProofs, SequenceTheorems

Locking == {"authLock", "authChallenge", "authOk"}

(* The queue a call reads from.                                             *)
ReadsFrom(t) == IF t \in Queriers THEN TryOf(t) ELSE <<t, 1>>

-----------------------------------------------------------------------------
(* The shapes of a step of a call.                                          *)

Successful(t) ==
    \/ t \in Publishers /\ pc[t] = "awaitOk" /\ fut[t] = "ok"
    \/ /\ t \in Queriers /\ pc[t] = "collect"
       /\ queue[ReadsFrom(t)] # <<>> /\ Head(queue[ReadsFrom(t)]).type = "EOSE"

Leaves(t) ==
    /\ \E r \in Results \ {"none"} : Leave(t, r) /\ (r = "ok" => Successful(t))
    /\ pc[t] # "done" /\ (pc[t] = "authLock" => Holds(t))
    /\ got' = got

Asks(t) ==
    /\ AskAuth(t)
    /\ \/ t \in Publishers /\ pc[t] = "awaitOk" /\ queue' = queue
       \/ /\ \/ t \in Queriers /\ pc[t] = "collect" /\ ~retried[t]
             \/ t \in Subscribers /\ pc[t] = "listen"
          /\ queue[ReadsFrom(t)] # <<>>
          /\ queue' = [queue EXCEPT ![ReadsFrom(t)] = Tail(queue[ReadsFrom(t)])]
    /\ got' = got

MayStart(t) == pc[t] \in {"idle", "resume"} /\ ws = "open"

Publishes(t) == t \in Publishers /\ MayStart(t) /\ PublishSigned(t) /\ got' = got

Queries(t) ==
    t \in Queriers /\ MayStart(t) /\ QueryScoped(t, IF retried'[t] THEN 2 ELSE 1)

Subscribes(t) == t \in Subscribers /\ MayStart(t) /\ Request(t) /\ got' = got

SendsAuth(t) ==
    /\ ws = "open" /\ got' = got
    /\ \/ pc[t] = "authLock" /\ Holds(t) /\ challenge # 0 /\ SendAuth(t, challenge)
       \/ pc[t] = "authChallenge" /\ fut[t] = "ok" /\ SendAuth(t, answering[t])

GoesOn(t) ==
    /\ pc[t] \in {"authLock", "authOk"} /\ Holds(t)
    /\ Authenticated(t) /\ pendingOk' = Popped(t)
    /\ UNCHANGED <<result, subs, queue, c2r, authWaiters, got>>

AwaitsChallenge(t) ==
    /\ pc[t] = "authLock" /\ Holds(t)
    /\ authWaiters' = authWaiters \cup {t}
    /\ pc' = [pc EXCEPT ![t] = "authChallenge"]
    /\ UNCHANGED <<fut, result, subs, queue, c2r, pendingOk, authLock, answering, got>>

TakesItem(t) ==
    /\ \/ t \in Queriers /\ pc[t] = "collect"
       \/ t \in Subscribers /\ pc[t] = "listen"
    /\ queue[ReadsFrom(t)] # <<>>
    /\ LET item == Head(queue[ReadsFrom(t)])
       IN  \/ item.type = "EVENT" /\ got' = [got EXCEPT ![t] = got[t] \cup {item.ev}]
           \/ item.type = "EOSE" /\ t \in Subscribers /\ got' = got
    /\ queue' = [queue EXCEPT ![ReadsFrom(t)] = Tail(queue[ReadsFrom(t)])]
    /\ UNCHANGED <<pc, fut, result, subs, pendingOk, authLock, authWaiters,
                   answering, c2r>>

CallShape(t) ==
    \/ Leaves(t) \/ Asks(t) \/ Publishes(t) \/ Queries(t) \/ Subscribes(t)
    \/ SendsAuth(t) \/ GoesOn(t) \/ AwaitsChallenge(t) \/ TakesItem(t)

(* What a step of t does to the rest of the memory of the calls.            *)
MemoStep(t) ==
    /\ retried' = IF pc[t] = "resume" THEN [retried EXCEPT ![t] = t \notin Subscribers]
                  ELSE retried
    /\ atStart' = IF pc[t] = "idle" /\ t \in Queriers
                  THEN [atStart EXCEPT ![t] = stored \ Forged] ELSE atStart
    /\ challenge' \in {challenge, 0}

(* A querier's authentications all follow its first attempt.                *)
FirstAttempt ==
    \A q \in Queriers :
        pc[q] \in {"idle", "resume"} \cup Locking => ~retried[q]

LEMMA TasksApart ==
    /\ \A t \in Publishers : t \in Tasks /\ t \notin Queriers /\ t \notin Subscribers
    /\ \A t \in Queriers : t \in Tasks /\ t \notin Publishers /\ t \notin Subscribers
    /\ \A t \in Subscribers : t \in Tasks /\ t \notin Publishers /\ t \notin Queriers
BY TasksAssumption DEF Tasks

LEMMA PublishShape ==
    ASSUME IInv, NEW t \in Publishers, Publish(t) \/ PublishAnswered(t)
    PROVE  CallShape(t) /\ MemoStep(t)
<1>1. MemoStep(t)
  BY TasksApart DEF MemoStep, Publish, PublishAnswered, MayCall, memoVars
<1>2. CASE Publish(t)
  <2>1. PublishSigned(t) /\ pc[t] = "idle" /\ got' = got
    BY <1>2 DEF Publish, MayCall, memoVars
  <2>2. CASE ws = "open"  BY <1>1, <2>1, <2>2 DEF CallShape, Publishes, MayStart
  <2>3. CASE ws # "open"
    BY <1>1, <2>1, <2>3 DEF PublishSigned, CallShape, Leaves, SendError, Results
  <2> QED  BY <2>2, <2>3
<1>3. CASE PublishAnswered(t)
  <2>1. pc[t] = "awaitOk" /\ got' = got  BY <1>3 DEF PublishAnswered, memoVars
  <2>2. CASE AskAuth(t) /\ UNCHANGED queue  BY <1>1, <2>1, <2>2 DEF CallShape, Asks
  <2>3. ASSUME NEW r \in {"ok", "refused", "relayError"}, Leave(t, r),
               r = "ok" => fut[t] = "ok"
        PROVE  CallShape(t)
    BY <1>1, <2>1, <2>3 DEF CallShape, Leaves, Successful, Results
  <2> QED  BY <1>1, <1>3, <2>2, <2>3 DEF PublishAnswered
<1> QED  BY <1>1, <1>2, <1>3

LEMMA QueryShape ==
    ASSUME IInv, FirstAttempt, NEW t \in Queriers, Query(t) \/ QueryItem(t)
    PROVE  CallShape(t) /\ MemoStep(t)
<1>0. t \in Tasks /\ t \notin Publishers /\ ReadsFrom(t) = TryOf(t)
  BY TasksApart DEF ReadsFrom
<1>1. CASE Query(t)
  <2>1. /\ QueryScoped(t, 1) /\ pc[t] = "idle" /\ ~retried[t]
        /\ UNCHANGED <<authed, challenge, retried>>
        /\ atStart' = [atStart EXCEPT ![t] = stored \ Forged]
    BY <1>1 DEF Query, MayCall, FirstAttempt
  <2>2. MemoStep(t)  BY <2>1 DEF MemoStep
  <2>3. CASE ws = "open"  BY <2>1, <2>2, <2>3 DEF CallShape, Queries, MayStart
  <2>4. CASE ws # "open"
    BY <2>1, <2>2, <2>4 DEF QueryScoped, CallShape, Leaves, SendError, Results
  <2> QED  BY <2>2, <2>3, <2>4
<1>2. CASE QueryItem(t)
  <2> DEFINE item == Head(queue[ReadsFrom(t)])
  <2>1. /\ pc[t] = "collect" /\ queue[ReadsFrom(t)] # <<>>
        /\ UNCHANGED <<authed, challenge, retried, atStart>>
    BY <1>0, <1>2 DEF QueryItem
  <2>2. MemoStep(t)  BY <2>1 DEF MemoStep
  <2>3. CASE /\ item.type = "EVENT"
             /\ got' = [got EXCEPT ![t] = got[t] \cup {item.ev}]
             /\ queue' = [queue EXCEPT ![ReadsFrom(t)] = Tail(queue[ReadsFrom(t)])]
             /\ UNCHANGED <<pc, fut, result, subs, pendingOk, authLock,
                            authWaiters, answering, c2r>>
    BY <2>1, <2>2, <2>3 DEF CallShape, TakesItem
  <2>4. CASE item.type = "EOSE" /\ Leave(t, "ok") /\ UNCHANGED got
    BY <2>1, <2>2, <2>4 DEF CallShape, Leaves, Successful, Results
  <2>5. CASE ~retried[t] /\ AskAuth(t) /\ UNCHANGED got
             /\ queue' = [queue EXCEPT ![ReadsFrom(t)] = Tail(queue[ReadsFrom(t)])]
    BY <2>1, <2>2, <2>5 DEF CallShape, Asks
  <2>6. CASE Leave(t, "relayError") /\ UNCHANGED got
    BY <2>1, <2>2, <2>6 DEF CallShape, Leaves, Results
  <2> QED  BY <1>0, <1>2, <2>2, <2>3, <2>4, <2>5, <2>6 DEF QueryItem
<1> QED  BY <1>1, <1>2

LEMMA SubscribeShape ==
    ASSUME IInv, NEW t \in Subscribers,
           Subscribe(t) \/ SubscriptionItem(t) \/ Unsubscribe(t)
    PROVE  CallShape(t) /\ MemoStep(t)
<1>0. t \in Tasks /\ t \notin Queriers /\ ReadsFrom(t) = <<t, 1>>
  BY TasksApart DEF ReadsFrom
<1>1. CASE Subscribe(t)
  <2>1. Request(t) /\ pc[t] = "idle" /\ UNCHANGED memoVars
    BY <1>1 DEF Subscribe, MayCall
  <2>2. MemoStep(t) /\ got' = got  BY <1>0, <2>1 DEF MemoStep, memoVars
  <2>3. CASE ws = "open"  BY <2>1, <2>2, <2>3 DEF CallShape, Subscribes, MayStart
  <2>4. CASE ws # "open"
    BY <2>1, <2>2, <2>4 DEF Request, CallShape, Leaves, SendError, Results
  <2> QED  BY <2>2, <2>3, <2>4
<1>2. CASE SubscriptionItem(t)
  <2> DEFINE item == Head(queue[ReadsFrom(t)])
  <2>1. /\ pc[t] = "listen" /\ queue[ReadsFrom(t)] # <<>>
        /\ UNCHANGED <<authed, challenge, retried, atStart>>
    BY <1>0, <1>2 DEF SubscriptionItem
  <2>2. MemoStep(t)  BY <2>1 DEF MemoStep
  <2>3. CASE /\ item.type \in {"EVENT", "EOSE"}
             /\ got' = IF item.type = "EVENT"
                       THEN [got EXCEPT ![t] = got[t] \cup {item.ev}] ELSE got
             /\ queue' = [queue EXCEPT ![ReadsFrom(t)] = Tail(queue[ReadsFrom(t)])]
             /\ UNCHANGED <<pc, fut, result, subs, pendingOk, authLock,
                            authWaiters, answering, c2r>>
    BY <2>1, <2>2, <2>3 DEF CallShape, TakesItem
  <2>4. CASE AskAuth(t) /\ UNCHANGED got
             /\ queue' = [queue EXCEPT ![ReadsFrom(t)] = Tail(queue[ReadsFrom(t)])]
    BY <2>1, <2>2, <2>4 DEF CallShape, Asks
  <2>5. CASE Leave(t, "relayError") /\ UNCHANGED got
    BY <2>1, <2>2, <2>5 DEF CallShape, Leaves, Results
  <2> QED  BY <1>0, <1>2, <2>2, <2>3, <2>4, <2>5 DEF SubscriptionItem
<1>3. CASE Unsubscribe(t)
  <2>1. Leave(t, "stopped") /\ pc[t] = "listen" /\ UNCHANGED memoVars
    BY <1>3 DEF Unsubscribe
  <2> QED  BY <2>1 DEF CallShape, Leaves, MemoStep, memoVars, Results
<1> QED  BY <1>1, <1>2, <1>3

LEMMA AuthShape ==
    ASSUME IInv, NEW t \in Tasks,
           Authenticate(t) \/ AuthChallenged(t) \/ AuthAnswered(t)
    PROVE  CallShape(t) /\ MemoStep(t)
<1>1. CASE Authenticate(t)
  <2>1. pc[t] = "authLock" /\ Holds(t) /\ UNCHANGED memoVars
    BY <1>1 DEF Authenticate
  <2>2. MemoStep(t) /\ got' = got  BY <2>1 DEF MemoStep, memoVars
  <2>3. CASE Authenticated(t)
             /\ UNCHANGED <<result, subs, queue, c2r, pendingOk, authWaiters>>
    <3>1. OwnIds(t) = {}  BY <2>1 DEF OwnIds
    <3>2. pendingOk' = Popped(t)
      BY <2>3, <3>1 DEF Popped, IInv, TypeOK, TablesType
    <3> QED  BY <2>1, <2>2, <2>3, <3>2 DEF CallShape, GoesOn
  <2>4. CASE challenge # 0 /\ SendAuth(t, challenge)
    <3>1. CASE ws = "open"
      BY <2>1, <2>2, <2>4, <3>1 DEF CallShape, SendsAuth
    <3>2. CASE ws # "open"
      BY <2>1, <2>2, <2>4, <3>2 DEF CallShape, SendAuth, Leaves, SendError, Results
    <3> QED  BY <3>1, <3>2
  <2>5. CASE /\ authWaiters' = authWaiters \cup {t}
             /\ pc' = [pc EXCEPT ![t] = "authChallenge"]
             /\ UNCHANGED <<fut, result, subs, queue, c2r, pendingOk, authLock,
                            answering>>
    BY <2>1, <2>2, <2>5 DEF CallShape, AwaitsChallenge
  <2> QED  BY <1>1, <2>2, <2>3, <2>4, <2>5 DEF Authenticate
<1>2. CASE AuthChallenged(t)
  <2>1. pc[t] = "authChallenge" /\ UNCHANGED memoVars
    BY <1>2 DEF AuthChallenged
  <2>2. MemoStep(t) /\ got' = got  BY <2>1 DEF MemoStep, memoVars
  <2>3. CASE fut[t] = "ok" /\ SendAuth(t, answering[t])
    <3>1. CASE ws = "open"
      BY <2>1, <2>2, <2>3, <3>1 DEF CallShape, SendsAuth
    <3>2. CASE ws # "open"
      BY <2>1, <2>2, <2>3, <3>2 DEF CallShape, SendAuth, Leaves, SendError, Results
    <3> QED  BY <3>1, <3>2
  <2>4. CASE Leave(t, "relayError")
    BY <2>1, <2>2, <2>4 DEF CallShape, Leaves, Results
  <2> QED  BY <1>2, <2>2, <2>3, <2>4 DEF AuthChallenged
<1>3. CASE AuthAnswered(t)
  <2>1. pc[t] = "authOk" /\ UNCHANGED <<retried, got, atStart>>
    BY <1>3 DEF AuthAnswered
  <2>2. challenge' \in {challenge, 0}  BY <1>3 DEF AuthAnswered
  <2>3. MemoStep(t)  BY <2>1, <2>2 DEF MemoStep
  <2>4. CASE pendingOk' = Popped(t) /\ Authenticated(t)
             /\ UNCHANGED <<result, subs, queue, c2r, authWaiters>>
    <3>1. Holds(t)  BY <2>1 DEF IInv, OneAuthenticates, Holds
    <3> QED  BY <2>1, <2>3, <2>4, <3>1 DEF CallShape, GoesOn
  <2>5. ASSUME NEW r \in {"refused", "relayError"}, Leave(t, r)
        PROVE  CallShape(t)
    BY <2>1, <2>5 DEF CallShape, Leaves, Results
  <2> QED  BY <1>3, <2>3, <2>4, <2>5 DEF AuthAnswered
<1> QED  BY <1>1, <1>2, <1>3

LEMMA ResumeShape ==
    ASSUME IInv, NEW t \in Tasks, Resume(t) \/ Timeout(t)
    PROVE  CallShape(t) /\ MemoStep(t)
<1>1. CASE Resume(t)
  <2>1. /\ pc[t] = "resume" /\ UNCHANGED <<challenge, atStart>>
        /\ retried' = [retried EXCEPT ![t] = t \notin Subscribers]
    BY <1>1 DEF Resume
  <2>2. MemoStep(t)  BY <2>1 DEF MemoStep
  <2>3. CASE t \in Publishers /\ PublishSigned(t) /\ UNCHANGED got
    <3>1. CASE ws = "open"  BY <2>1, <2>2, <2>3, <3>1 DEF CallShape, Publishes, MayStart
    <3>2. CASE ws # "open"
      BY <2>1, <2>2, <2>3, <3>2 DEF PublishSigned, CallShape, Leaves, SendError, Results
    <3> QED  BY <3>1, <3>2
  <2>4. CASE t \in Queriers /\ QueryScoped(t, 2)
    <3>1. retried'[t]
      BY <2>1, <2>4, TasksApart DEF IInv, TypeOK, MemoType
    <3>2. CASE ws = "open"
      BY <2>1, <2>2, <2>4, <3>1, <3>2 DEF CallShape, Queries, MayStart
    <3>3. CASE ws # "open"
      BY <2>1, <2>2, <2>4, <3>3 DEF QueryScoped, CallShape, Leaves, SendError, Results
    <3> QED  BY <3>2, <3>3
  <2>5. CASE t \in Subscribers /\ Request(t) /\ UNCHANGED got
    <3>1. CASE ws = "open"  BY <2>1, <2>2, <2>5, <3>1 DEF CallShape, Subscribes, MayStart
    <3>2. CASE ws # "open"
      BY <2>1, <2>2, <2>5, <3>2 DEF Request, CallShape, Leaves, SendError, Results
    <3> QED  BY <3>1, <3>2
  <2> QED  BY <1>1, <2>2, <2>3, <2>4, <2>5 DEF Resume
<1>2. CASE Timeout(t)
  <2>1. /\ Leave(t, "timeout") /\ UNCHANGED memoVars
        /\ pc[t] \in {"awaitOk", "collect", "authChallenge", "authOk"}
    BY <1>2 DEF Timeout, TimeoutResult
  <2> QED  BY <2>1 DEF CallShape, Leaves, MemoStep, memoVars, Results
<1> QED  BY <1>1, <1>2

LEMMA CallShapes ==
    ASSUME IInv, FirstAttempt, NEW t \in Tasks, CallStep(t)
    PROVE  CallShape(t) /\ MemoStep(t)
BY PublishShape, QueryShape, SubscribeShape, AuthShape, ResumeShape
   DEF CallStep, TaskStep

(* FirstAttempt is an invariant of its own: a call is repeated only after   *)
(* its authentication.                                                      *)
LEMMA FirstAttemptNext ==
    ASSUME IInv, FirstAttempt, [Next]_vars
    PROVE  FirstAttempt'
<1>1. CASE \E t \in Tasks : CallStep(t)
  <2>1. PICK t \in Tasks : CallStep(t)
    BY <1>1
  <2>2. CallShape(t) /\ MemoStep(t)
    BY <2>1, CallShapes
  <2>3. Kept(t) /\ CallsType' /\ MemoType'
    BY <2>1, CallStepKept DEF StepKept, Kept
  <2>4. ASSUME NEW q \in Queriers, q # t
        PROVE  pc'[q] = pc[q] /\ retried'[q] = retried[q]
    BY <2>2, <2>3, <2>4, TasksApart DEF Kept, MemoStep, IInv, TypeOK, MemoType
  <2>5. ASSUME t \in Queriers, pc'[t] \in {"idle", "resume"} \cup Locking
        PROVE  ~retried'[t]
    <3>1. retried'[t] = IF pc[t] = "resume" THEN t \notin Subscribers ELSE retried[t]
      BY <2>2 DEF MemoStep, IInv, TypeOK, MemoType
    <3>2. pc[t] # "resume" /\ (pc[t] = "collect" => ~retried[t])
             /\ pc[t] \in {"idle", "collect"} \cup Locking
      <4>1. CASE Leaves(t)
        BY <2>3, <2>5, <4>1 DEF Leaves, Leave, IInv, TypeOK, CallsType, Locking
      <4>2. CASE Asks(t)
        BY <2>5, <4>2, TasksApart DEF Asks, Locking
      <4>3. CASE Publishes(t) \/ Subscribes(t)
        BY <2>5, <4>3, TasksApart DEF Publishes, Subscribes
      <4>4. CASE Queries(t)
        BY <2>5, <4>4, TasksApart
           DEF Queries, MayStart, QueryScoped, IInv, TypeOK, CallsType, Locking
      <4>5. CASE SendsAuth(t) \/ GoesOn(t) \/ AwaitsChallenge(t)
        BY <4>5 DEF SendsAuth, GoesOn, AwaitsChallenge, Locking
      <4>6. CASE TakesItem(t)
        BY <2>5, <4>6, TasksApart DEF TakesItem, Locking
      <4> QED
        BY <2>2, <4>1, <4>2, <4>3, <4>4, <4>5, <4>6 DEF CallShape
    <3> QED
      BY <2>5, <3>1, <3>2 DEF FirstAttempt
  <2> QED
    BY <2>4, <2>5 DEF FirstAttempt, Locking
<1>2. CASE UNCHANGED <<pc, retried>>
  BY <1>2 DEF FirstAttempt, Locking
<1>3. CASE UNCHANGED vars
  BY <1>2, <1>3 DEF vars, clientVars, callVars, memoVars
<1> QED
  BY <1>1, <1>2, <1>3, NextCases
     DEF HandleMessage, ReaderStumbles, ConnectFails, ConnectionLost, ConnectOk,
         Resubscribe, Resubscribed, ReaderCrashes, Close, Drop, RelayStep, RelayDropsSub,
         RelayReads, RelaySendsEvent, RelaySendsEose, RelayGivesMore, RelayRepeats,
         OthersPublish, clientVars, callVars, memoVars

-----------------------------------------------------------------------------
(* What a call sends.                                                       *)

SentFrame(t, m) ==
    \/ m.type = "EVENT" /\ t \in Publishers /\ m.ev = EventOf[t] /\ MayStart(t)
    \/ /\ m.type = "REQ" /\ MayStart(t)
       /\ \/ /\ t \in Subscribers /\ pc'[t] = "listen"
             /\ m.sub = <<t, 1>>
          \/ /\ t \in Queriers /\ pc'[t] = "collect"
             /\ m.sub = <<t, IF retried'[t] THEN 2 ELSE 1>>
    \/ m.type = "CLOSE" /\ m.sub[1] = t /\ pc'[t] = "done"
    \/ /\ m.type = "AUTH"
       /\ \/ challenge # 0 /\ m.challenge = challenge
          \/ pc[t] = "authChallenge" /\ fut[t] = "ok" /\ m.challenge = answering[t]

(* The link grows at its end, by frames of t, on an open connection.        *)
Sends(t) ==
    /\ ws # "open" => c2r' = c2r
    /\ \A k \in 1..Len(c2r) : k \in 1..Len(c2r') /\ c2r'[k] = c2r[k]
    /\ \A k \in 1..Len(c2r') :
          \/ k \in 1..Len(c2r) /\ c2r'[k] = c2r[k]
          \/ SentFrame(t, c2r'[k])

LEMMA ClosesFrames ==
    ASSUME NEW t, NEW k \in 1..Len(Closes(t))
    PROVE  Closes(t)[k].type = "CLOSE" /\ Closes(t)[k].sub[1] = t
<1> DEFINE m(n) == SubFrame("CLOSE", <<t, n>>)
<1>1. \A n \in {1, 2} : m(n).type = "CLOSE" /\ m(n).sub[1] = t
  BY DEF SubFrame
<1>2. \E x, y : /\ Closes(t) = x \o y
                /\ x \in {<<>>, <<m(2)>>} /\ y \in {<<>>, <<m(1)>>}
  BY DEF Closes
<1> HIDE DEF m
<1>3. Closes(t)[k] \in {m(1), m(2)}
  <2>1. PICK x, y : /\ Closes(t) = x \o y
                    /\ x \in {<<>>, <<m(2)>>} /\ y \in {<<>>, <<m(1)>>}
    BY <1>2
  <2>2. CASE x = <<>> /\ y = <<>>
    BY <2>1, <2>2
  <2>3. CASE x = <<>> /\ y = <<m(1)>>
    BY <2>1, <2>3
  <2>4. CASE x = <<m(2)>> /\ y = <<>>
    BY <2>1, <2>4
  <2>5. CASE x = <<m(2)>> /\ y = <<m(1)>>
    BY <2>1, <2>5
  <2> QED
    BY <2>1, <2>2, <2>3, <2>4, <2>5
<1> QED
  BY <1>1, <1>3

LEMMA CallSends ==
    ASSUME IInv, NEW t \in Tasks, CallShape(t)
    PROVE  Sends(t)
<1>1. c2r \in Seq(ClientFrames) /\ Len(c2r) \in Nat
  BY DEF IInv, TypeOK, LinkType
<1>2. ASSUME c2r' = c2r
      PROVE  Sends(t)
  BY <1>2 DEF Sends
<1>3. ASSUME NEW m, ws = "open", c2r' = Append(c2r, m), SentFrame(t, m)
      PROVE  Sends(t)
  <2>1. Len(c2r') = Len(c2r) + 1
    BY <1>1, <1>3
  <2>2. \A k \in 1..Len(c2r') : IF k \in 1..Len(c2r) THEN c2r'[k] = c2r[k] ELSE c2r'[k] = m
    BY <1>1, <1>3, <2>1
  <2>3. \A k \in 1..Len(c2r) : k \in 1..Len(c2r')
    BY <1>1, <2>1
  <2> QED
    BY <1>3, <2>2, <2>3 DEF Sends
<1>4. CASE Leaves(t)
  <2>1. c2r' = Sent(Closes(t)) /\ pc'[t] = "done"
    BY <1>4 DEF Leaves, Leave, IInv, TypeOK, CallsType
  <2>2. CASE ws # "open"
    BY <1>2, <2>1, <2>2 DEF Sent
  <2>3. CASE ws = "open"
    <3>1. Closes(t) \in Seq(ClientFrames)
      BY ClosesType DEF IInv
    <3> DEFINE x == Closes(t)
    <3>2. \A k \in 1..Len(x) : x[k].type = "CLOSE" /\ x[k].sub[1] = t
      BY ClosesFrames
    <3>3. c2r' = c2r \o x
      BY <2>1, <2>3 DEF Sent
    <3> HIDE DEF x
    <3>4. x \in Seq(ClientFrames) /\ Len(x) \in Nat
      BY <3>1 DEF x
    <3>5. /\ Len(c2r') = Len(c2r) + Len(x)
          /\ \A k \in 1..Len(c2r') :
                c2r'[k] = IF k <= Len(c2r) THEN c2r[k] ELSE x[k - Len(c2r)]
      BY <1>1, <3>3, <3>4, ConcatProperties
    <3>6. \A k \in 1..Len(c2r) : k \in 1..Len(c2r') /\ c2r'[k] = c2r[k]
      BY <1>1, <3>4, <3>5
    <3>7. ASSUME NEW k \in 1..Len(c2r'), k \notin 1..Len(c2r)
          PROVE  SentFrame(t, c2r'[k])
      <4>1. k - Len(c2r) \in 1..Len(x) /\ c2r'[k] = x[k - Len(c2r)]
        BY <1>1, <3>4, <3>5, <3>7
      <4> QED
        BY <2>1, <3>2, <4>1 DEF SentFrame
    <3> QED
      BY <2>3, <3>6, <3>7 DEF Sends
  <2> QED
    BY <2>2, <2>3
<1>5. CASE Publishes(t)
  <2> DEFINE m == [type |-> "EVENT", ev |-> EventOf[t]]
  <2>1. ws = "open" /\ c2r' = Append(c2r, m) /\ MayStart(t) /\ t \in Publishers
    BY <1>5 DEF Publishes, MayStart, PublishSigned
  <2>2. SentFrame(t, m)
    BY <2>1 DEF SentFrame
  <2> QED
    BY <1>3, <2>1, <2>2
<1>6. CASE Queries(t)
  <2> DEFINE i == <<t, IF retried'[t] THEN 2 ELSE 1>>
             m == SubFrame("REQ", i)
  <2>1. ws = "open" /\ c2r' = Append(c2r, m) /\ MayStart(t) /\ t \in Queriers
    BY <1>6 DEF Queries, MayStart, QueryScoped
  <2>2. pc'[t] = "collect"
    BY <1>6, <2>1 DEF Queries, QueryScoped, IInv, TypeOK, CallsType
  <2>3. m.type = "REQ" /\ m.sub = i
    BY DEF SubFrame
  <2> HIDE DEF m
  <2>4. SentFrame(t, m)
    BY <2>1, <2>2, <2>3 DEF SentFrame
  <2> QED
    BY <1>3, <2>1, <2>4
<1>7. CASE Subscribes(t)
  <2> DEFINE m == SubFrame("REQ", <<t, 1>>)
  <2>1. ws = "open" /\ c2r' = c2r \o <<m>> /\ MayStart(t) /\ t \in Subscribers
    BY <1>7 DEF Subscribes, MayStart, Request, Req
  <2>2. pc'[t] = "listen"
    BY <1>7, <2>1 DEF Subscribes, Request, IInv, TypeOK, CallsType
  <2>3. m.type = "REQ" /\ m.sub = <<t, 1>>
    BY DEF SubFrame
  <2>4. m \in ClientFrames
    BY <2>1, Frames DEF SubIds
  <2> HIDE DEF m
  <2>5. c2r' = Append(c2r, m)
    BY <1>1, <2>1, <2>4
  <2>6. SentFrame(t, m)
    BY <2>1, <2>2, <2>3 DEF SentFrame
  <2> QED
    BY <1>3, <2>1, <2>5, <2>6
<1>8. CASE SendsAuth(t)
  <2>1. PICK c : /\ SendAuth(t, c) /\ ws = "open"
                 /\ \/ challenge # 0 /\ c = challenge
                    \/ pc[t] = "authChallenge" /\ fut[t] = "ok" /\ c = answering[t]
    BY <1>8 DEF SendsAuth
  <2> DEFINE m == [type |-> "AUTH", challenge |-> c]
  <2>2. c2r' = Append(c2r, m)
    BY <2>1 DEF SendAuth
  <2>3. m.type = "AUTH" /\ m.challenge = c
    OBVIOUS
  <2> HIDE DEF m
  <2>4. SentFrame(t, m)
    BY <2>1, <2>3 DEF SentFrame
  <2> QED
    BY <1>3, <2>1, <2>2, <2>4
<1>9. CASE Asks(t) \/ GoesOn(t) \/ AwaitsChallenge(t) \/ TakesItem(t)
  BY <1>2, <1>9 DEF Asks, AskAuth, GoesOn, AwaitsChallenge, TakesItem
<1> QED
  BY <1>4, <1>5, <1>6, <1>7, <1>8, <1>9 DEF CallShape

-----------------------------------------------------------------------------
(* Where the frames on either way of the link come from.                    *)

SentBefore(m) == \E j \in 1..Len(c2r) : m = c2r[j]

LEMMA SentFrom ==
    ASSUME IInv, FirstAttempt, [Next]_vars, NEW k \in 1..Len(c2r')
    PROVE  \/ SentBefore(c2r'[k])
           \/ \E t \in Tasks : /\ CallStep(t) /\ SentFrame(t, c2r'[k])
                               /\ ws = "open"
           \/ \E i \in resub : Resubscribe(i) /\ c2r'[k] = SubFrame("REQ", i)
<1>1. c2r \in Seq(ClientFrames) /\ Len(c2r) \in Nat
  BY DEF IInv, TypeOK, LinkType
<1>2. CASE c2r' = c2r
  BY <1>2 DEF SentBefore
<1>3. CASE c2r' = <<>>
  BY <1>3
<1>4. ASSUME NEW t \in Tasks, CallStep(t)
      PROVE  \/ SentBefore(c2r'[k])
             \/ CallStep(t) /\ SentFrame(t, c2r'[k]) /\ ws = "open"
  <2>1. Sends(t)
    BY <1>4, CallShapes, CallSends
  <2> QED
    BY <1>2, <1>4, <2>1 DEF Sends, SentBefore
<1>5. ASSUME NEW i \in SubIds, Resubscribe(i)
      PROVE  SentBefore(c2r'[k]) \/ (i \in resub /\ c2r'[k] = SubFrame("REQ", i))
  <2> DEFINE m == SubFrame("REQ", i)
  <2>1. c2r' = Append(c2r, m) /\ i \in resub
    BY <1>5 DEF Resubscribe
  <2> HIDE DEF m
  <2>2. IF k \in 1..Len(c2r) THEN c2r'[k] = c2r[k] ELSE c2r'[k] = m
    BY <1>1, <2>1
  <2> QED
    BY <2>1, <2>2 DEF SentBefore, m
<1>6. CASE RelayReads
  <2>1. c2r # <<>> /\ c2r' = Tail(c2r)
    BY <1>6 DEF RelayReads
  <2>2. k + 1 \in 1..Len(c2r) /\ c2r'[k] = c2r[k + 1]
    BY <1>1, <2>1
  <2> QED
    BY <2>2 DEF SentBefore
<1>7. CASE UNCHANGED vars
  BY <1>2, <1>7 DEF vars
<1> QED
  BY <1>2, <1>3, <1>4, <1>5, <1>6, <1>7, NextCases
     DEF HandleMessage, ReaderStumbles, ConnectFails, ConnectionLost, ConnectOk,
         Resubscribed, ReaderCrashes, Close, Drop, RelayStep, RelayDropsSub,
         RelaySendsEvent, RelaySendsEose, RelayGivesMore, RelayRepeats, OthersPublish

(* What the relay puts on the link.                                         *)
RelayFrame(m) ==
    \/ m.type = "OK"
    \/ m.type = "AUTH" /\ ConnectOk /\ m.challenge = conn'
    \/ m.type = "CLOSED" /\ UNCHANGED run
    \/ m.type = "EVENT" /\ (<<m.sub, m.ev>> \in owed \/ m.ev \in got[m.sub[1]])
    \/ m.type = "EOSE" /\ m.sub \in eoseDue

ReceivedBefore(m) == \E j \in 1..Len(r2c) : m = r2c[j]

LEMMA ReceivedFrom ==
    ASSUME IInv, [Next]_vars, NEW k \in 1..Len(r2c')
    PROVE  ReceivedBefore(r2c'[k]) \/ RelayFrame(r2c'[k])
<1>1. ASSUME FromLink({})
      PROVE  ReceivedBefore(r2c'[k])
  BY <1>1 DEF FromLink, ReceivedBefore
<1>2. ASSUME NEW m, r2c' = Append(r2c, m), RelayFrame(m)
      PROVE  ReceivedBefore(r2c'[k]) \/ RelayFrame(r2c'[k])
  BY <1>2, LongerLink DEF FromLink, ReceivedBefore
<1>3. CASE \E t \in Tasks : CallStep(t)
  BY <1>1, <1>3, CallStepKept, SameLink DEF StepKept, outside
<1>4. CASE r2c' = r2c
  BY <1>1, <1>4, SameLink
<1>5. CASE HandleMessage \/ ReaderStumbles \/ Close \/ Drop
  BY <1>1, <1>5, ShorterLink DEF HandleMessage, ReaderStumbles, Close, Drop
<1>6. CASE ConnectOk
  <2>1. r2c' = Greeting(conn')
    BY <1>6 DEF ConnectOk
  <2>2. r2c'[k].type = "AUTH" /\ r2c'[k].challenge = conn'
    BY <2>1 DEF Greeting
  <2> QED
    BY <1>6, <2>2 DEF RelayFrame
<1>7. CASE RelayReads
  <2> DEFINE m == Head(c2r)
  <2>1. UNCHANGED run
    BY <1>7 DEF RelayReads, clientVars, runVars
  <2>2. \/ r2c' = r2c
        \/ r2c' = Append(r2c, ClosedFrame(m.sub, "auth-required"))
        \/ \E a, i : r2c' = Append(r2c, OkFrame(i, a))
    BY <1>7 DEF RelayReads, RelayEvent, RelayReq, RelayClose, RelayAuth
  <2>3. RelayFrame(ClosedFrame(m.sub, "auth-required"))
    BY <2>1 DEF RelayFrame, ClosedFrame
  <2>4. \A a, i : RelayFrame(OkFrame(i, a))
    BY DEF RelayFrame, OkFrame
  <2> QED
    BY <1>2, <1>4, <2>2, <2>3, <2>4
<1>8. ASSUME NEW o \in SubIds \X Events, RelaySendsEvent(o)
      PROVE  r2c' = Append(r2c, EventFrame(o[1], o[2])) /\ RelayFrame(EventFrame(o[1], o[2]))
  BY <1>8 DEF RelaySendsEvent, RelayFrame, EventFrame
<1>9. ASSUME NEW i \in SubIds, RelaySendsEose(i)
      PROVE  r2c' = Append(r2c, EoseFrame(i)) /\ RelayFrame(EoseFrame(i))
  BY <1>9 DEF RelaySendsEose, RelayFrame, EoseFrame
<1>10. ASSUME NEW i \in SubIds, RelayDropsSub(i)
       PROVE  /\ r2c' = Append(r2c, ClosedFrame(i, "error"))
              /\ RelayFrame(ClosedFrame(i, "error"))
  BY <1>10 DEF RelayDropsSub, RelayFrame, ClosedFrame, clientVars, runVars
<1>11. CASE UNCHANGED vars
  BY <1>4, <1>11 DEF vars
<1>12. CASE ConnectFails \/ ConnectionLost \/ (\E i \in SubIds : Resubscribe(i))
              \/ Resubscribed \/ ReaderCrashes
  BY <1>4, <1>12 DEF ConnectFails, ConnectionLost, Resubscribe, Resubscribed, ReaderCrashes
<1>13. CASE RelayStep \/ \E i \in SubIds : RelayDropsSub(i)
  BY <1>2, <1>7, <1>8, <1>9, <1>10, <1>13 DEF RelayStep
<1>14. ASSUME NEW i \in SubIds, NEW e \in Events, RelayRepeats(i, e)
       PROVE  r2c' = Append(r2c, EventFrame(i, e)) /\ RelayFrame(EventFrame(i, e))
  BY <1>14 DEF RelayRepeats, RelayFrame, EventFrame
<1>15. CASE RelayGivesMore
  BY <1>2, <1>4, <1>14, <1>15 DEF RelayGivesMore, OthersPublish
<1> QED
  BY <1>3, <1>5, <1>6, <1>11, <1>12, <1>13, <1>15, NextCases

-----------------------------------------------------------------------------
(* Challenges.                                                              *)

(* A challenge that is kept, on its way or being answered is that of the    *)
(* connection there is.                                                     *)
FreshInv ==
    /\ ws # "open" => c2r = <<>>
    /\ challenge \in {0, conn}
    /\ \A k \in 1..Len(r2c) : r2c[k].type = "AUTH" => r2c[k].challenge = conn
    /\ \A t \in Tasks :
          pc[t] = "authChallenge" /\ fut[t] = "ok" => answering[t] = conn
    /\ AnswersFreshChallenge

LEMMA LinkEmptied ==
    ASSUME IInv, FirstAttempt, FreshInv, [Next]_vars
    PROVE  (ws # "open" => c2r = <<>>)'
<1>1. CASE \E t \in Tasks : CallStep(t)
  <2>1. PICK t \in Tasks : CallStep(t)
    BY <1>1
  <2>2. Sends(t) /\ UNCHANGED ws
    BY <2>1, CallShapes, CallSends, CallStepKept DEF StepKept, outside, sockVars
  <2> QED
    BY <2>2 DEF Sends, FreshInv
<1>2. CASE UNCHANGED vars
  BY <1>2 DEF vars, clientVars, sockVars, FreshInv
<1>3. CASE \/ HandleMessage \/ ReaderStumbles \/ ConnectFails \/ ConnectionLost
           \/ Resubscribed \/ ReaderCrashes
  BY <1>3 DEF HandleMessage, ReaderStumbles, ConnectFails, ConnectionLost, Resubscribed,
              ReaderCrashes, sockVars, FreshInv
<1>4. CASE ConnectOk \/ (\E i \in SubIds : Resubscribe(i)) \/ Close \/ Drop
  BY <1>4 DEF ConnectOk, Resubscribe, Close, Drop, sockVars, FreshInv
<1>5. CASE RelayStep \/ (\E i \in SubIds : RelayDropsSub(i)) \/ RelayGivesMore
  <2>1. UNCHANGED ws /\ (ws = "open" \/ c2r' = c2r)
    BY <1>5 DEF RelayStep, RelayReads, RelaySendsEvent, RelaySendsEose, RelayDropsSub,
                RelayGivesMore, RelayRepeats, OthersPublish, clientVars, sockVars
  <2> QED
    BY <2>1 DEF FreshInv
<1> QED
  BY <1>1, <1>2, <1>3, <1>4, <1>5, NextCases

(* The tasks that hold a challenge, and the challenge that is kept.         *)
LEMMA ChallengeKept ==
    ASSUME IInv, FirstAttempt, FreshInv, [Next]_vars
    PROVE  /\ (challenge \in {0, conn})'
           /\ \A t \in Tasks :
                 (pc[t] = "authChallenge" /\ fut[t] = "ok" => answering[t] = conn)'
<1>1. CASE \E t \in Tasks : CallStep(t)
  <2>1. PICK t \in Tasks : CallStep(t)
    BY <1>1
  <2>2. Kept(t) /\ MemoStep(t) /\ UNCHANGED conn
    BY <2>1, CallShapes, CallStepKept DEF StepKept, outside, sockVars
  <2> QED
    BY <2>2 DEF Kept, MemoStep, FreshInv
<1>2. CASE UNCHANGED <<pc, fut, answering, challenge, conn>>
  BY <1>2 DEF FreshInv
<1>3. CASE HandleMessage
  <2> DEFINE m == Head(r2c)
  <2>1. UNCHANGED <<pc, conn>> /\ r2c # <<>>
    BY <1>3 DEF HandleMessage, sockVars
  <2>2. m \in RelayFrames /\ (m.type = "AUTH" => m.challenge = conn)
    BY <2>1, HeadOfLink DEF FreshInv
  <2> HIDE DEF m
  <2>3. CASE HandleSub(m)
    BY <1>2, <2>1, <2>3 DEF HandleSub
  <2>4. CASE HandleOk(m)
    <3>1. \A t \in Tasks : fut'[t] = fut[t] \/ pc[t] \in {"awaitOk", "authOk"}
      <4>1. m.id \in Ids
        BY <2>2, <2>4, RelayFrameFields DEF HandleOk
      <4>2. ASSUME NEW t \in Tasks, fut'[t] # fut[t]
            PROVE  pendingOk[m.id] = t
        BY <2>4, <4>2 DEF HandleOk, Waiter
      <4> QED
        BY <4>1, <4>2 DEF IInv, Waiting
    <3> QED
      BY <2>1, <2>4, <3>1 DEF HandleOk, FreshInv
  <2>5. CASE OnAuthChallenge(m)
    <3>1. m.challenge = conn /\ challenge' = conn
      BY <2>2, <2>5 DEF OnAuthChallenge
    <3>2. \A t \in Tasks : IF t \in PendingWaiters THEN answering'[t] = conn
                           ELSE fut'[t] = fut[t] /\ answering'[t] = answering[t]
      BY <2>5, <3>1 DEF OnAuthChallenge
    <3> QED
      BY <2>1, <3>1, <3>2 DEF FreshInv
  <2> QED
    BY <1>3, <2>3, <2>4, <2>5 DEF HandleMessage, m
<1>4. CASE ConnectFails
  <2>1. UNCHANGED <<pc, answering, challenge, conn>>
        /\ \A t \in Tasks : fut'[t] \in {fut[t], "error"}
    BY <1>4 DEF ConnectFails, FailPending, sockVars
  <2> QED
    BY <2>1 DEF FreshInv
<1>5. CASE ConnectOk
  BY <1>5 DEF ConnectOk, FreshAuth, Woken, callVars, FreshInv
<1>6. CASE \/ ReaderStumbles \/ ConnectionLost \/ (\E i \in SubIds : Resubscribe(i))
           \/ Resubscribed \/ ReaderCrashes \/ Close \/ Drop
  BY <1>2, <1>6 DEF ReaderStumbles, ConnectionLost, Resubscribe, Resubscribed,
                    ReaderCrashes, Close, Drop, callVars, memoVars, sockVars
<1>7. CASE \/ RelayStep \/ (\E i \in SubIds : RelayDropsSub(i)) \/ RelayGivesMore
           \/ UNCHANGED vars
  BY <1>2, <1>7 DEF RelayStep, RelayReads, RelaySendsEvent, RelaySendsEose, RelayDropsSub,
                    RelayGivesMore, RelayRepeats, OthersPublish,
                    vars, clientVars, callVars, memoVars, sockVars
<1> QED
  BY <1>1, <1>3, <1>4, <1>5, <1>6, <1>7, NextCases

(* Only a new connection changes the number of the connection.              *)
LEMMA SameConnection ==
    ASSUME IInv, [Next]_vars, ~ConnectOk
    PROVE  conn' = conn
<1>1. CASE \E t \in Tasks : CallStep(t)
  BY <1>1, CallStepKept DEF StepKept, outside, sockVars
<1> QED
  BY <1>1, NextCases
     DEF HandleMessage, ReaderStumbles, ConnectFails, ConnectionLost, Resubscribe,
         Resubscribed, ReaderCrashes, Close, Drop, RelayStep, RelayReads,
         RelaySendsEvent, RelaySendsEose, RelayDropsSub, RelayGivesMore, RelayRepeats,
         OthersPublish, vars, clientVars, sockVars

LEMMA FreshInvNext ==
    ASSUME IInv, FirstAttempt, FreshInv, [Next]_vars
    PROVE  FreshInv'
<1>1. \A k \in 1..Len(r2c') : r2c'[k].type = "AUTH" => r2c'[k].challenge = conn'
  <2>1. CASE ConnectOk
    BY <2>1 DEF ConnectOk, Greeting
  <2>2. CASE ~ConnectOk
    BY <2>2, SameConnection, ReceivedFrom DEF ReceivedBefore, RelayFrame, FreshInv
  <2> QED
    BY <2>1, <2>2
<1>2. AnswersFreshChallenge'
  <2>1. CASE ConnectOk
    <3>1. c2r' = <<>>
      BY <2>1 DEF ConnectOk
    <3> QED
      BY <3>1 DEF AnswersFreshChallenge
  <2>2. CASE ~ConnectOk
    <3>1. conn' = conn
      BY <2>2, SameConnection
    <3> SUFFICES ASSUME NEW k \in 1..Len(c2r'), c2r'[k].type = "AUTH"
                 PROVE  c2r'[k].challenge = conn
      BY <3>1 DEF AnswersFreshChallenge
    <3>2. CASE SentBefore(c2r'[k])
      BY <3>2 DEF SentBefore, FreshInv, AnswersFreshChallenge
    <3>3. CASE \E t \in Tasks : SentFrame(t, c2r'[k])
      BY <3>3 DEF SentFrame, FreshInv
    <3>4. CASE \E i \in resub : c2r'[k] = SubFrame("REQ", i)
      BY <3>4 DEF SubFrame
    <3> QED
      BY <3>2, <3>3, <3>4, SentFrom
  <2> QED
    BY <2>1, <2>2
<1> QED
  BY <1>1, <1>2, LinkEmptied, ChallengeKept DEF FreshInv

LEMMA FreshInit == Init => FirstAttempt /\ FreshInv
<1> SUFFICES ASSUME Init PROVE FirstAttempt /\ FreshInv
  OBVIOUS
<1>1. \A k \in 1..Len(r2c) : r2c[k].type = "AUTH" => r2c[k].challenge = conn
  BY DEF Init, Greeting
<1> QED
  BY <1>1, TasksApart DEF Init, FirstAttempt, FreshInv, AnswersFreshChallenge

LEMMA FreshHolds == Spec => [](FirstAttempt /\ FreshInv)
<1>1. IInv /\ FirstAttempt /\ FreshInv /\ [Next]_vars => (FirstAttempt /\ FreshInv)'
  BY FirstAttemptNext, FreshInvNext
<1> QED
  BY <1>1, FreshInit, IInvHolds, PTL DEF Spec

(* An AUTH event answers the challenge of the connection it is sent on: no  *)
(* challenge outlives its connection in _pending_challenge, in a future of  *)
(* _auth_waiters or in a task waiting for the lock (_authenticate,          *)
(* _reconnect).                                                             *)
THEOREM FreshChallenge == Spec => []AnswersFreshChallenge
<1>1. FreshInv => AnswersFreshChallenge
  BY DEF FreshInv
<1> QED
  BY <1>1, FreshHolds, PTL

-----------------------------------------------------------------------------
(* The lock.                                                                *)

(* Who is in the lock's queue is authenticating, and is in it once.         *)
LockInv ==
    /\ \A k \in 1..Len(authLock) : pc[authLock[k]] \in Locking
    /\ \A j, k \in 1..Len(authLock) : authLock[j] = authLock[k] => j = k

(* What a step of t does to the queue of the lock.                          *)
LEMMA LockOfCall ==
    ASSUME IInv, LockInv, NEW t \in Tasks, CallShape(t), Kept(t)
    PROVE  LockInv'
<1>1. authLock \in Seq(Tasks) /\ Len(authLock) \in Nat
  BY DEF IInv, TypeOK, TablesType
<1>2. pc \in [Tasks -> Places] /\ pc' \in [Tasks -> Places]
  BY DEF IInv, TypeOK, CallsType, Kept
<1>3. \A k \in 1..Len(authLock) : authLock[k] \in Tasks
  BY <1>1
<1>4. \A u \in Tasks : u # t => pc'[u] = pc[u]
  BY DEF Kept
<1>5. ASSUME authLock # <<>>, authLock[1] = t, authLock' = Tail(authLock)
      PROVE  LockInv'
  <2>1. /\ Len(authLock') = Len(authLock) - 1
        /\ \A k \in 1..Len(authLock') : k + 1 \in 1..Len(authLock)
                                        /\ authLock'[k] = authLock[k + 1]
    BY <1>1, <1>5
  <2>2. 1 \in 1..Len(authLock)
    BY <1>1, <1>5
  <2>3. \A k \in 1..Len(authLock') : authLock'[k] # t /\ authLock'[k] \in Tasks
    BY <1>1, <1>3, <1>5, <2>1, <2>2 DEF LockInv
  <2>4. \A k \in 1..Len(authLock') : pc'[authLock'[k]] \in Locking
    BY <1>4, <2>1, <2>3 DEF LockInv
  <2>5. \A j, k \in 1..Len(authLock') : authLock'[j] = authLock'[k] => j = k
    BY <1>1, <2>1 DEF LockInv
  <2> QED
    BY <2>4, <2>5 DEF LockInv, Locking
<1>6. ASSUME authLock' = authLock,
             pc'[t] \in Locking \/ \A k \in 1..Len(authLock) : authLock[k] # t
      PROVE  LockInv'
  <2>1. \A k \in 1..Len(authLock) : pc'[authLock[k]] \in Locking
    BY <1>3, <1>4, <1>6 DEF LockInv
  <2> QED
    BY <1>6, <2>1 DEF LockInv, Locking
<1>7. ASSUME pc[t] \notin Locking
      PROVE  \A k \in 1..Len(authLock) : authLock[k] # t
  BY <1>7 DEF LockInv
<1>8. CASE Leaves(t)
  <2>1. authLock' = Released(t)
    BY <1>8 DEF Leaves, Leave
  <2>2. CASE Holds(t)
    BY <1>5, <2>1, <2>2 DEF Released, Holds
  <2>3. CASE ~Holds(t)
    <3>1. pc[t] \notin Locking
      BY <1>8, <2>3 DEF Leaves, IInv, OneAuthenticates, Holds, Locking
    <3> QED
      BY <1>6, <1>7, <2>1, <2>3, <3>1 DEF Released
  <2> QED
    BY <2>2, <2>3
<1>9. CASE Asks(t)
  <2>1. authLock' = Append(authLock, t) /\ pc'[t] = "authLock"
    BY <1>2, <1>9 DEF Asks, AskAuth
  <2>2. pc[t] \notin Locking
    BY <1>9 DEF Asks, Locking
  <2>3. \A k \in 1..Len(authLock) : authLock[k] # t
    BY <1>7, <2>2
  <2>4. /\ Len(authLock') = Len(authLock) + 1
        /\ \A k \in 1..Len(authLock') :
              authLock'[k] = IF k \in 1..Len(authLock) THEN authLock[k] ELSE t
    BY <1>1, <2>1
  <2>5. \A k \in 1..Len(authLock') : pc'[authLock'[k]] \in Locking
    BY <1>3, <1>4, <2>1, <2>3, <2>4 DEF LockInv, Locking
  <2>6. \A j, k \in 1..Len(authLock') : authLock'[j] = authLock'[k] => j = k
    BY <1>1, <2>3, <2>4 DEF LockInv
  <2> QED
    BY <2>5, <2>6 DEF LockInv, Locking
<1>10. CASE GoesOn(t)
  BY <1>5, <1>10 DEF GoesOn, Authenticated, Holds
<1>11. CASE Publishes(t) \/ Queries(t) \/ Subscribes(t)
  <2>1. authLock' = authLock /\ pc[t] \notin Locking
    BY <1>11 DEF Publishes, Queries, Subscribes, MayStart, PublishSigned, QueryScoped,
                 Request, Locking
  <2> QED
    BY <1>6, <1>7, <2>1
<1>12. CASE SendsAuth(t) \/ AwaitsChallenge(t)
  <2>1. authLock' = authLock /\ pc'[t] \in Locking
    BY <1>2, <1>12 DEF SendsAuth, AwaitsChallenge, SendAuth, Locking
  <2> QED
    BY <1>6, <2>1
<1>13. CASE TakesItem(t)
  <2>1. authLock' = authLock /\ pc[t] \notin Locking
    BY <1>13 DEF TakesItem, Locking
  <2> QED
    BY <1>6, <1>7, <2>1
<1> QED
  BY <1>8, <1>9, <1>10, <1>11, <1>12, <1>13 DEF CallShape

(* The steps that no call takes leave pc, the subscriptions' keys and the   *)
(* lock alone.                                                              *)
LEMMA PlacesAlone ==
    ASSUME [Next]_vars, ~\E t \in Tasks : CallStep(t)
    PROVE  UNCHANGED <<pc, subs, authLock, got, result, retried, atStart>>
BY NextCases
   DEF HandleMessage, ReaderStumbles, ConnectFails, ConnectionLost, ConnectOk,
       Resubscribe, Resubscribed, ReaderCrashes, Close, Drop, RelayStep, RelayReads,
       RelaySendsEvent, RelaySendsEose, RelayDropsSub, RelayGivesMore, RelayRepeats,
       OthersPublish, vars, clientVars, callVars, memoVars

LEMMA LockInvNext ==
    ASSUME IInv, FirstAttempt, LockInv, [Next]_vars
    PROVE  LockInv'
<1>1. ASSUME NEW t \in Tasks, CallStep(t)
      PROVE  LockInv'
  BY <1>1, CallShapes, CallStepKept, LockOfCall DEF StepKept
<1>2. CASE UNCHANGED <<pc, authLock>>
  BY <1>2 DEF LockInv, Locking
<1> QED
  BY <1>1, <1>2, PlacesAlone

-----------------------------------------------------------------------------
(* Futures.                                                                 *)

(* No two calls publish the same event: they would share a key of           *)
(* _pending_ok, and the second would take the first one's place.            *)
DistinctEvents == \A p, q \in Publishers : EventOf[p] = EventOf[q] => p = q

FutureInv ==
    /\ \A t \in Tasks : pc[t] = "awaitOk" /\ fut[t] = "pending" =>
          pendingOk[EventOf[t]] = t
    /\ \A t \in Tasks : pc[t] = "authOk" /\ fut[t] = "pending" =>
          pendingOk[answering[t]] = t

(* The ids that a step of t may give a new owner are its own.               *)
OwnEntries(t) ==
    (IF t \in Publishers THEN {EventOf[t]} ELSE {})
      \cup (IF pc[t] \in Locking THEN Challenges ELSE {})

LEMMA EntriesOfCall ==
    ASSUME IInv, NEW t \in Tasks, CallShape(t)
    PROVE  \A id \in Ids \ OwnEntries(t) : pendingOk'[id] = pendingOk[id]
<1>1. pendingOk \in [Ids -> Tasks \cup {NoTask}]
  BY DEF IInv, TypeOK, TablesType
<1>2. OwnIds(t) \subseteq OwnEntries(t)
  BY DEF OwnIds, OwnEntries, Locking, IInv, Waiting
<1>3. CASE pendingOk' = Popped(t)
  BY <1>2, <1>3 DEF Popped
<1>4. CASE pendingOk' = pendingOk
  BY <1>4
<1>5. CASE Publishes(t)
  <2>1. pendingOk' = [pendingOk EXCEPT ![EventOf[t]] = t] /\ t \in Publishers
    BY <1>5 DEF Publishes, MayStart, PublishSigned
  <2> QED
    BY <1>1, <2>1 DEF OwnEntries
<1>6. CASE SendsAuth(t)
  <2>1. PICK c : /\ SendAuth(t, c) /\ ws = "open" /\ pc[t] \in Locking
                 /\ \/ challenge # 0 /\ c = challenge
                    \/ pc[t] = "authChallenge" /\ fut[t] = "ok" /\ c = answering[t]
    BY <1>6 DEF SendsAuth, Locking
  <2>2. c \in Challenges
    BY <2>1, BoundsAssumption DEF IInv, Waiting, TypeOK, MemoType, Challenges
  <2>3. pendingOk' = [pendingOk EXCEPT ![c] = t]
    BY <2>1 DEF SendAuth
  <2> QED
    BY <1>1, <2>1, <2>2, <2>3 DEF OwnEntries
<1>7. CASE Leaves(t) \/ Asks(t) \/ GoesOn(t)
  BY <1>3, <1>7 DEF Leaves, Leave, Asks, AskAuth, GoesOn
<1>8. CASE Queries(t) \/ Subscribes(t) \/ AwaitsChallenge(t) \/ TakesItem(t)
  BY <1>4, <1>8 DEF Queries, MayStart, QueryScoped, Subscribes, Request, AwaitsChallenge,
                    TakesItem
<1> QED
  BY <1>5, <1>6, <1>7, <1>8 DEF CallShape

(* A task that has just begun to wait is registered.                        *)
LEMMA Registered ==
    ASSUME IInv, NEW t \in Tasks, CallShape(t), Kept(t)
    PROVE  /\ pc'[t] = "awaitOk" => pendingOk'[EventOf[t]] = t
           /\ pc'[t] = "authOk" => pendingOk'[answering'[t]] = t
<1>1. /\ pendingOk \in [Ids -> Tasks \cup {NoTask}] /\ pc \in [Tasks -> Places]
      /\ answering \in [Tasks -> 0..MaxConns]
  BY DEF IInv, TypeOK, TablesType, CallsType
<1>2. CASE Publishes(t)
  <2>1. /\ pendingOk' = [pendingOk EXCEPT ![EventOf[t]] = t] /\ t \in Publishers
        /\ pc' = [pc EXCEPT ![t] = "awaitOk"]
    BY <1>2 DEF Publishes, MayStart, PublishSigned
  <2>2. EventOf[t] \in Ids
    BY <2>1, EventsAssumption DEF Ids
  <2> QED
    BY <1>1, <2>1, <2>2
<1>3. CASE SendsAuth(t)
  <2>1. PICK c : /\ SendAuth(t, c) /\ ws = "open"
                 /\ \/ challenge # 0 /\ c = challenge
                    \/ pc[t] = "authChallenge" /\ fut[t] = "ok" /\ c = answering[t]
    BY <1>3 DEF SendsAuth
  <2>2. c \in Ids
    BY <2>1, BoundsAssumption DEF IInv, Waiting, TypeOK, MemoType, Challenges, Ids
  <2>3. /\ pendingOk' = [pendingOk EXCEPT ![c] = t]
        /\ answering' = [answering EXCEPT ![t] = c]
        /\ pc' = [pc EXCEPT ![t] = "authOk"]
    BY <2>1 DEF SendAuth
  <2> QED
    BY <1>1, <2>2, <2>3
<1>4. CASE Leaves(t) \/ Asks(t) \/ GoesOn(t) \/ AwaitsChallenge(t)
  BY <1>1, <1>4 DEF Leaves, Leave, Asks, AskAuth, GoesOn, Authenticated, AwaitsChallenge
<1>5. CASE Queries(t) \/ Subscribes(t) \/ TakesItem(t)
  BY <1>1, <1>5 DEF Queries, MayStart, QueryScoped, Subscribes, Request, TakesItem
<1> QED
  BY <1>2, <1>3, <1>4, <1>5 DEF CallShape

LEMMA FuturesOfCall ==
    ASSUME IInv, DistinctEvents, FutureInv, NEW t \in Tasks, CallShape(t), Kept(t)
    PROVE  FutureInv'
<1>1. /\ pc'[t] = "awaitOk" => pendingOk'[EventOf[t]] = t
      /\ pc'[t] = "authOk" => pendingOk'[answering'[t]] = t
  BY Registered
<1>2. Events \cap Challenges = {}
  BY EventsAssumption DEF Challenges
<1>3. ASSUME NEW u \in Tasks, u # t
      PROVE  /\ pc'[u] = pc[u] /\ fut'[u] = fut[u] /\ answering'[u] = answering[u]
             /\ pc[u] = "awaitOk" => pendingOk'[EventOf[u]] = pendingOk[EventOf[u]]
             /\ pc[u] = "authOk" => pendingOk'[answering[u]] = pendingOk[answering[u]]
  <2>1. pc'[u] = pc[u] /\ fut'[u] = fut[u] /\ answering'[u] = answering[u]
    BY <1>3 DEF Kept
  <2>2. ASSUME pc[u] = "awaitOk"
        PROVE  EventOf[u] \in Ids \ OwnEntries(t)
    <3>1. u \in Publishers
      BY <2>2 DEF IInv, Waiting
    <3>2. EventOf[u] \in Events
      BY <3>1, EventsAssumption
    <3>3. t \in Publishers => EventOf[u] # EventOf[t]
      BY <1>3, <3>1 DEF DistinctEvents
    <3> QED
      BY <1>2, <3>2, <3>3 DEF OwnEntries, Ids
  <2>3. ASSUME pc[u] = "authOk"
        PROVE  pendingOk'[answering[u]] = pendingOk[answering[u]]
    <3>1. answering[u] \in Challenges
      BY <2>3 DEF IInv, Waiting
    <3>2. t \in Publishers => EventOf[t] \in Events
      BY EventsAssumption
    <3>3. CASE pc[t] \notin Locking
      <4>1. answering[u] \in Ids \ OwnEntries(t)
        BY <1>2, <3>1, <3>2, <3>3 DEF OwnEntries, Ids
      <4> QED
        BY <4>1, EntriesOfCall
    <3>4. CASE pc[t] \in Locking
      <4>1. authLock # <<>> /\ authLock[1] = u /\ ~Holds(t)
        BY <1>3, <2>3 DEF IInv, OneAuthenticates, Holds
      <4>2. pc[t] = "authLock"
        BY <3>4, <4>1 DEF IInv, OneAuthenticates, Holds, Locking
      <4>3. ~CallShape(t)
        BY <4>1, <4>2 DEF CallShape, Leaves, Asks, Publishes, Queries, Subscribes,
                          MayStart, SendsAuth, GoesOn, AwaitsChallenge, TakesItem
      <4> QED
        BY <4>3
    <3> QED
      BY <3>3, <3>4
  <2> QED
    BY <2>1, <2>2, <2>3, EntriesOfCall
<1> QED
  BY <1>1, <1>3 DEF FutureInv

LEMMA FutureInvNext ==
    ASSUME IInv, FirstAttempt, DistinctEvents, FutureInv, [Next]_vars
    PROVE  FutureInv'
<1>1. ASSUME NEW t \in Tasks, CallStep(t)
      PROVE  FutureInv'
  BY <1>1, CallShapes, CallStepKept, FuturesOfCall DEF StepKept
<1>2. CASE UNCHANGED <<pc, fut, answering, pendingOk>>
  BY <1>2 DEF FutureInv
<1>3. CASE HandleMessage
  <2> DEFINE m == Head(r2c)
  <2>1. UNCHANGED <<pc, pendingOk>>
    BY <1>3 DEF HandleMessage
  <2>2. CASE HandleSub(m)
    BY <1>2, <2>1, <2>2 DEF HandleSub
  <2>3. CASE HandleOk(m)
    <3>1. r2c # <<>>
      BY <1>3 DEF HandleMessage
    <3>2. m.id \in Ids /\ m.answer \in Answers
      BY <2>3, <3>1, HeadOfLink, RelayFrameFields DEF HandleOk
    <3>3. \A t \in Tasks : fut'[t] = "pending" => fut[t] = "pending"
      BY <2>3, <3>2 DEF HandleOk, Answers
    <3> QED
      BY <2>1, <2>3, <3>3 DEF HandleOk, FutureInv
  <2>4. CASE OnAuthChallenge(m)
    <3>1. \A t \in Tasks : pc[t] \in {"awaitOk", "authOk"} =>
             fut'[t] = fut[t] /\ answering'[t] = answering[t]
      BY <2>4 DEF OnAuthChallenge, PendingWaiters
    <3> QED
      BY <2>1, <3>1 DEF FutureInv
  <2> QED
    BY <1>3, <2>2, <2>3, <2>4 DEF HandleMessage
<1>4. CASE ConnectFails
  <2>1. UNCHANGED <<pc, answering>>
    BY <1>4 DEF ConnectFails
  <2>2. CASE UNCHANGED <<fut, pendingOk>>
    BY <1>2, <2>1, <2>2
  <2>3. CASE FailPending
    <3>1. ASSUME NEW t \in Tasks, pc[t] \in {"awaitOk", "authOk"}
          PROVE  fut'[t] # "pending"
      <4>1. fut[t] = "pending" => \E id \in Ids : pendingOk[id] = t
        <5>1. pc[t] = "awaitOk" => EventOf[t] \in Ids
          BY EventsAssumption DEF IInv, Waiting, Ids
        <5>2. pc[t] = "authOk" => answering[t] \in Ids
          BY DEF IInv, Waiting, Ids
        <5> QED
          BY <3>1, <5>1, <5>2 DEF FutureInv
      <4> QED
        BY <2>3, <4>1 DEF FailPending
    <3> QED
      BY <2>1, <3>1 DEF FutureInv
  <2> QED
    BY <1>4, <2>2, <2>3 DEF ConnectFails
<1>5. CASE \/ ReaderStumbles \/ ConnectionLost \/ ConnectOk
           \/ (\E i \in SubIds : Resubscribe(i))
           \/ Resubscribed \/ ReaderCrashes \/ Close \/ Drop
  BY <1>2, <1>5 DEF ReaderStumbles, ConnectionLost, ConnectOk, Resubscribe, Resubscribed,
                    ReaderCrashes, Close, Drop, callVars
<1>6. CASE \/ RelayStep \/ (\E i \in SubIds : RelayDropsSub(i)) \/ RelayGivesMore
           \/ UNCHANGED vars
  BY <1>2, <1>6 DEF RelayStep, RelayReads, RelaySendsEvent, RelaySendsEose, RelayDropsSub,
                    RelayGivesMore, RelayRepeats, OthersPublish,
                    vars, clientVars, callVars
<1> QED
  BY <1>1, <1>3, <1>4, <1>5, <1>6, NextCases

-----------------------------------------------------------------------------
(* Subscriptions.                                                           *)

SubsInv ==
    /\ resub \subseteq Subscribers \X {1}
    /\ \A s \in Subscribers : pc[s] = "listen" => <<s, 1>> \in subs
    /\ \A q \in Queriers : pc[q] = "collect" => TryOf(q) \in subs
    /\ \A t \in Tasks : pc[t] = "done" => Reqs(t) = {}
    /\ \A k \in 1..Len(c2r) : c2r[k].type = "CLOSE" => pc[c2r[k].sub[1]] = "done"

(* A call that has ended takes no step.                                     *)
LEMMA DoneIsDone ==
    ASSUME NEW t \in Tasks, CallShape(t)
    PROVE  pc[t] # "done"
BY DEF CallShape, Leaves, Asks, Publishes, Queries, Subscribes, MayStart, SendsAuth,
       GoesOn, AwaitsChallenge, TakesItem, Locking

LEMMA SubsOfCall ==
    ASSUME IInv, SubsInv, NEW t \in Tasks, CallShape(t), MemoStep(t), Kept(t)
    PROVE  /\ \A i \in SubIds : i[1] # t => (i \in subs' <=> i \in subs)
           /\ t \in Subscribers /\ pc'[t] = "listen" => <<t, 1>> \in subs'
           /\ t \in Queriers /\ pc'[t] = "collect" =>
                 <<t, IF retried'[t] THEN 2 ELSE 1>> \in subs'
           /\ pc'[t] = "done" => Reqs(t)' = {}
<1>1. pc \in [Tasks -> Places] /\ subs \subseteq SubIds
  BY DEF IInv, TypeOK, TablesType, CallsType
<1>2. CASE Leaves(t)
  <2>1. subs' = subs \ Reqs(t) /\ pc'[t] = "done"
    BY <1>1, <1>2 DEF Leaves, Leave
  <2> QED
    BY <2>1 DEF Reqs
<1>3. CASE Queries(t)
  <2>1. /\ subs' = subs \cup {<<t, IF retried'[t] THEN 2 ELSE 1>>}
        /\ pc'[t] = "collect" /\ t \notin Subscribers
    BY <1>1, <1>3, TasksApart DEF Queries, MayStart, QueryScoped
  <2> QED
    BY <2>1
<1>4. CASE Subscribes(t)
  <2>1. subs' = subs \cup {<<t, 1>>} /\ pc'[t] = "listen" /\ t \notin Queriers
    BY <1>1, <1>4, TasksApart DEF Subscribes, MayStart, Request
  <2> QED
    BY <2>1
<1>5. CASE TakesItem(t)
  <2>1. UNCHANGED <<subs, pc>> /\ pc[t] \in {"collect", "listen"}
    BY <1>5 DEF TakesItem
  <2>2. pc[t] = "collect" => retried' = retried
    BY DEF MemoStep
  <2> QED
    BY <2>1, <2>2 DEF SubsInv, TryOf
<1>6. CASE Asks(t) \/ Publishes(t) \/ SendsAuth(t) \/ GoesOn(t) \/ AwaitsChallenge(t)
  <2>1. subs' = subs /\ pc'[t] \notin {"listen", "collect", "done"}
    BY <1>1, <1>6 DEF Asks, AskAuth, Publishes, MayStart, PublishSigned, SendsAuth,
                      SendAuth, GoesOn, Authenticated, AwaitsChallenge
  <2> QED
    BY <2>1
<1> QED
  BY <1>2, <1>3, <1>4, <1>5, <1>6 DEF CallShape

LEMMA SubsInvNext ==
    ASSUME IInv, FirstAttempt, SubsInv, [Next]_vars
    PROVE  SubsInv'
<1>1. ASSUME NEW t \in Tasks, CallStep(t)
      PROVE  SubsInv'
  <2>1. CallShape(t) /\ MemoStep(t) /\ Kept(t) /\ resub' = resub
    BY <1>1, CallShapes, CallStepKept DEF StepKept, outside, runVars
  <2>2. Sends(t) /\ pc[t] # "done"
    BY <2>1, CallSends, DoneIsDone
  <2>3. \A u \in Tasks : u # t => pc'[u] = pc[u]
    BY <2>1 DEF Kept
  <2>4. /\ \A i \in SubIds : i[1] # t => (i \in subs' <=> i \in subs)
        /\ t \in Subscribers /\ pc'[t] = "listen" => <<t, 1>> \in subs'
        /\ t \in Queriers /\ pc'[t] = "collect" =>
              <<t, IF retried'[t] THEN 2 ELSE 1>> \in subs'
        /\ pc'[t] = "done" => Reqs(t)' = {}
    BY <2>1, SubsOfCall
  <2>5. ASSUME NEW s \in Subscribers, pc'[s] = "listen"
        PROVE  <<s, 1>> \in subs'
    <3>1. s \in Tasks /\ <<s, 1>> \in SubIds
      BY TasksApart DEF SubIds
    <3> QED
      BY <2>3, <2>4, <2>5, <3>1 DEF SubsInv
  <2>6. ASSUME NEW q \in Queriers, pc'[q] = "collect"
        PROVE  TryOf(q)' \in subs'
    <3>1. q \in Tasks /\ TryOf(q) \in SubIds /\ TryOf(q)[1] = q
      BY TasksApart DEF TryOf, SubIds
    <3>2. CASE q = t
      BY <2>4, <2>6, <3>2 DEF TryOf
    <3>3. CASE q # t
      <4>1. retried'[q] = retried[q]
        BY <2>1, <3>1, <3>3 DEF MemoStep, IInv, TypeOK, MemoType
      <4> QED
        BY <2>3, <2>4, <2>6, <3>1, <3>3, <4>1 DEF SubsInv, TryOf
    <3> QED
      BY <3>2, <3>3
  <2>7. ASSUME NEW u \in Tasks, pc'[u] = "done"
        PROVE  Reqs(u)' = {}
    <3>1. CASE u = t
      BY <2>4, <2>7, <3>1
    <3>2. CASE u # t
      <4>1. Reqs(u) = {}
        BY <2>3, <2>7, <3>2 DEF SubsInv
      <4>2. subs' \subseteq SubIds
        BY <2>1 DEF Kept, TablesType
      <4> QED
        BY <2>4, <3>2, <4>1, <4>2 DEF Reqs
    <3> QED
      BY <3>1, <3>2
  <2>8. ASSUME NEW k \in 1..Len(c2r'), c2r'[k].type = "CLOSE"
        PROVE  pc'[c2r'[k].sub[1]] = "done"
    <3>1. CASE k \in 1..Len(c2r) /\ c2r'[k] = c2r[k]
      <4>1. pc[c2r[k].sub[1]] = "done"
        BY <2>8, <3>1 DEF SubsInv
      <4>2. c2r[k] \in ClientFrames
        BY <3>1 DEF IInv, TypeOK, LinkType
      <4>3. c2r[k].sub \in SubIds
        BY <2>8, <3>1, <4>2, ClientFrameFields
      <4>4. c2r[k].sub[1] \in Tasks
        BY <4>3 DEF SubIds, Tasks
      <4> QED
        BY <2>2, <2>3, <3>1, <4>1, <4>4
    <3>2. CASE SentFrame(t, c2r'[k])
      BY <2>8, <3>2 DEF SentFrame
    <3> QED
      BY <2>2, <3>1, <3>2 DEF Sends
  <2> QED
    BY <2>1, <2>5, <2>6, <2>7, <2>8 DEF SubsInv
<1>2. CASE ~\E t \in Tasks : CallStep(t)
  <2>1. UNCHANGED <<pc, subs, retried>>
    BY <1>2, PlacesAlone
  <2>2. resub' \subseteq Subscribers \X {1}
    BY <1>2, NextCases
       DEF HandleMessage, ReaderStumbles, ConnectFails, ConnectionLost, ConnectOk,
           Resubscribe, LiveSubs, Resubscribed, ReaderCrashes, Close, Drop, RelayStep,
           RelayReads, RelaySendsEvent, RelaySendsEose, RelayDropsSub, RelayGivesMore,
           RelayRepeats, OthersPublish, vars, clientVars, runVars, SubsInv
  <2>3. ASSUME NEW k \in 1..Len(c2r'), c2r'[k].type = "CLOSE"
        PROVE  pc[c2r'[k].sub[1]] = "done"
    <3>1. \A i : SubFrame("REQ", i).type = "REQ"
      BY DEF SubFrame
    <3> QED
      BY <1>2, <2>3, <3>1, SentFrom DEF SentBefore, SubsInv
  <2> QED
    BY <2>1, <2>2, <2>3 DEF SubsInv, TryOf, Reqs
<1> QED
  BY <1>1, <1>2

(* Frames looked for in a sequence that grows at one end and shrinks at the *)
(* other.                                                                   *)
LEMMA Shrunk ==
    ASSUME NEW S, NEW frames \in Seq(S), NEW i
    PROVE  /\ ClosedFor(frames, i) =>
                 \/ frames # <<>> /\ Head(frames).type = "CLOSED" /\ Head(frames).sub = i
                 \/ ClosedFor(Tail(frames), i)
           /\ RequestedIn(frames, i) =>
                 \/ frames # <<>> /\ Head(frames).type = "REQ" /\ Head(frames).sub = i
                 \/ RequestedIn(Tail(frames), i)
<1>1. ASSUME NEW k \in 1..Len(frames)
      PROVE  frames # <<>> /\ (frames[k] = Head(frames) \/
               (k - 1 \in 1..Len(Tail(frames)) /\ frames[k] = Tail(frames)[k - 1]))
  <2>1. frames # <<>> /\ Len(frames) \in Nat
    BY <1>1
  <2>2. Head(frames) = frames[1] /\ Len(Tail(frames)) = Len(frames) - 1
    BY <2>1
  <2>3. \A j \in 1..Len(Tail(frames)) : Tail(frames)[j] = frames[j + 1]
    BY <2>1
  <2>4. CASE k = 1
    BY <2>1, <2>2, <2>4
  <2>5. CASE k # 1
    <3>1. k - 1 \in 1..Len(Tail(frames)) /\ (k - 1) + 1 = k
      BY <1>1, <2>1, <2>2, <2>5
    <3> QED
      BY <2>1, <2>3, <3>1
  <2> QED
    BY <2>4, <2>5
<1> QED
  BY <1>1 DEF ClosedFor, RequestedIn

LEMMA Grown ==
    ASSUME NEW S, NEW frames \in Seq(S), NEW m, NEW i
    PROVE  /\ ClosedFor(frames, i) \/ (m.type = "CLOSED" /\ m.sub = i)
                 => ClosedFor(Append(frames, m), i)
           /\ RequestedIn(frames, i) \/ (m.type = "REQ" /\ m.sub = i)
                 => RequestedIn(Append(frames, m), i)
<1>1. Len(frames) \in Nat /\ Len(Append(frames, m)) = Len(frames) + 1
  OBVIOUS
<1>2. \A k \in 1..Len(frames) : k \in 1..Len(Append(frames, m))
                                /\ Append(frames, m)[k] = frames[k]
  BY <1>1
<1>3. Len(frames) + 1 \in 1..Len(Append(frames, m)) /\ Append(frames, m)[Len(frames) + 1] = m
  BY <1>1
<1> QED
  BY <1>2, <1>3 DEF ClosedFor, RequestedIn

(* A call touches no queue but its own.                                     *)
LEMMA QueueOfCall ==
    ASSUME IInv, NEW t \in Tasks, CallShape(t)
    PROVE  \A i \in SubIds : i[1] # t => queue'[i] = queue[i]
<1>1. queue \in [SubIds -> Seq(SubFrames)] /\ ReadsFrom(t)[1] = t
  BY DEF IInv, TypeOK, TablesType, ReadsFrom, TryOf
<1>2. CASE queue' = queue
  BY <1>2
<1>3. CASE queue' = [queue EXCEPT ![ReadsFrom(t)] = Tail(queue[ReadsFrom(t)])]
  BY <1>1, <1>3
<1>4. CASE Leaves(t)
  BY <1>4 DEF Leaves, Leave
<1> QED
  BY <1>2, <1>3, <1>4
     DEF CallShape, Asks, Publishes, PublishSigned, Queries, QueryScoped, Subscribes,
         Request, MayStart, SendsAuth, SendAuth, GoesOn, AwaitsChallenge, TakesItem

(* Where a waiting subscription may be.                                     *)
Open(s) ==
    \/ <<s, 1>> \in rSubs \cup resub
    \/ RequestedIn(c2r, <<s, 1>>)
    \/ ClosedFor(r2c, <<s, 1>>)
    \/ ClosedFor(queue[<<s, 1>>], <<s, 1>>)

LEMMA OpenAfterCall ==
    ASSUME IInv, FirstAttempt, SubscriptionNotLost, NEW t \in Tasks, CallStep(t)
    PROVE  SubscriptionNotLost'
<1>1. CallShape(t) /\ Kept(t)
      /\ UNCHANGED <<run, ws, resub, rSubs, r2c>>
  BY CallShapes, CallStepKept DEF StepKept, outside, runVars, sockVars, relayVars
<1>2. Sends(t)
  BY <1>1, CallSends
<1>3. \A i : RequestedIn(c2r, i) => RequestedIn(c2r', i)
  BY <1>2 DEF Sends, RequestedIn
<1> SUFFICES ASSUME NEW s \in Subscribers, pc'[s] = "listen", ws = "open",
                    run \in {"reading", "resubscribing"}
             PROVE  Open(s)'
  BY <1>1 DEF SubscriptionNotLost, Open
<1>4. s \in Tasks /\ s \notin Queriers /\ <<s, 1>> \in SubIds
  BY TasksApart DEF SubIds
<1>5. CASE pc[s] = "listen" /\ queue'[<<s, 1>>] = queue[<<s, 1>>]
  BY <1>1, <1>3, <1>5 DEF SubscriptionNotLost, Open
<1>6. CASE s # t
  BY <1>1, <1>4, <1>5, <1>6, QueueOfCall DEF Kept
<1>7. CASE s = t /\ Subscribes(t)
  <2> DEFINE m == SubFrame("REQ", <<s, 1>>)
  <2>1. c2r' = c2r \o <<m>> /\ c2r \in Seq(ClientFrames)
    BY <1>7 DEF Subscribes, MayStart, Request, Req, IInv, TypeOK, LinkType
  <2>2. m \in ClientFrames /\ m.type = "REQ" /\ m.sub = <<s, 1>>
    BY <1>4, Frames DEF SubFrame
  <2> HIDE DEF m
  <2>3. c2r' = Append(c2r, m)
    BY <2>1, <2>2
  <2>4. RequestedIn(c2r', <<s, 1>>)
    BY <2>1, <2>2, <2>3, Grown
  <2> QED
    BY <2>4 DEF Open
<1>8. CASE s = t /\ TakesItem(t)
  <2> DEFINE q == queue[<<s, 1>>]
  <2>1. ReadsFrom(t) = <<s, 1>>
    BY <1>4, <1>8 DEF ReadsFrom
  <2>2. q \in Seq(SubFrames)
    BY <1>4 DEF IInv, TypeOK, TablesType
  <2>3. queue'[<<s, 1>>] = Tail(q) /\ Head(q).type # "CLOSED" /\ pc[s] = "listen"
    BY <1>4, <1>8, <2>1 DEF TakesItem, IInv, TypeOK, TablesType
  <2> HIDE DEF q
  <2>4. ClosedFor(q, <<s, 1>>) => ClosedFor(Tail(q), <<s, 1>>)
    BY <2>2, <2>3, Shrunk
  <2> QED
    BY <1>1, <1>3, <2>3, <2>4 DEF SubscriptionNotLost, Open, q
<1>9. CASE s = t /\ ~Subscribes(t) /\ ~TakesItem(t)
  <2>1. pc \in [Tasks -> Places]
    BY DEF IInv, TypeOK, CallsType
  <2>2. pc'[t] # "listen"
    BY <1>1, <1>4, <1>9, <2>1
       DEF CallShape, Leaves, Leave, Asks, AskAuth, Publishes, MayStart, PublishSigned,
           Queries, QueryScoped, SendsAuth, SendAuth, GoesOn, Authenticated,
           AwaitsChallenge
  <2> QED
    BY <1>9, <2>2
<1> QED
  BY <1>6, <1>7, <1>8, <1>9

LEMMA OpenAfterReader ==
    ASSUME IInv, SubsInv, SubscriptionNotLost,
           \/ HandleMessage \/ ConnectFails \/ ConnectionLost \/ ConnectOk \/ Resubscribed
           \/ ReaderCrashes \/ ReaderStumbles \/ \E i \in SubIds : Resubscribe(i)
    PROVE  SubscriptionNotLost'
<1> SUFFICES ASSUME NEW s \in Subscribers, pc'[s] = "listen", ws' = "open",
                    run' \in {"reading", "resubscribing"}
             PROVE  Open(s)'
  BY DEF SubscriptionNotLost, Open
<1> DEFINE i == <<s, 1>>
<1>1. i \in SubIds /\ c2r \in Seq(ClientFrames) /\ r2c \in Seq(RelayFrames)
        /\ queue \in [SubIds -> Seq(SubFrames)]
  BY DEF SubIds, IInv, TypeOK, LinkType, TablesType
<1>2. pc' = pc
  BY DEF HandleMessage, ConnectFails, ConnectionLost, ConnectOk, Resubscribed,
         ReaderCrashes, ReaderStumbles, Resubscribe, callVars
<1>3. i \in subs
  BY <1>2 DEF SubsInv
<1>4. CASE HandleMessage
  <2> DEFINE m == Head(r2c)
  <2>1. /\ r2c' = Tail(r2c) /\ r2c # <<>> /\ Open(s)
        /\ UNCHANGED <<rSubs, resub, c2r, run, ws>>
    BY <1>2, <1>4 DEF HandleMessage, relayVars, sockVars, SubscriptionNotLost, Open
  <2>2. ClosedFor(r2c, i) =>
          (m.type = "CLOSED" /\ m.sub = i) \/ ClosedFor(r2c', i)
    BY <1>1, <2>1, Shrunk
  <2>3. CASE HandleSub(m)
    <3>1. queue'[i] = IF Accepts(m) /\ m.sub = i THEN Append(queue[i], m) ELSE queue[i]
      BY <1>1, <2>3 DEF HandleSub
    <3>2. m.type = "CLOSED" /\ m.sub = i => Accepts(m)
      BY <1>3 DEF Accepts
    <3> HIDE DEF m, i
    <3>3. queue[i] \in Seq(SubFrames)
      BY <1>1
    <3>4. ClosedFor(queue[i], i) => ClosedFor(queue'[i], i)
      BY <3>1, <3>3, Grown
    <3>5. m.type = "CLOSED" /\ m.sub = i => ClosedFor(queue'[i], i)
      BY <3>1, <3>2, <3>3, Grown
    <3> QED
      BY <2>1, <2>2, <3>4, <3>5 DEF Open, i
  <2>4. CASE HandleOk(m) \/ OnAuthChallenge(m)
    <3>1. queue' = queue /\ m.type # "CLOSED"
      BY <2>4 DEF HandleOk, OnAuthChallenge
    <3> HIDE DEF m
    <3> QED
      BY <2>1, <2>2, <3>1 DEF Open
  <2> QED
    BY <1>4, <2>3, <2>4 DEF HandleMessage
<1>5. CASE ConnectOk
  <2>1. i \in resub'
    BY <1>3, <1>5 DEF ConnectOk, LiveSubs
  <2> QED
    BY <2>1 DEF Open
<1>6. ASSUME NEW j \in SubIds, Resubscribe(j)
      PROVE  Open(s)'
  <2> DEFINE m == SubFrame("REQ", j)
  <2>1. /\ c2r' = Append(c2r, m) /\ resub' = resub \ {j}
        /\ UNCHANGED <<run, ws, queue, rSubs, r2c>>
    BY <1>6 DEF Resubscribe, sockVars, callVars, relayVars
  <2>2. m.type = "REQ" /\ m.sub = j
    BY DEF SubFrame
  <2> HIDE DEF m
  <2>3. RequestedIn(c2r, i) => RequestedIn(c2r', i)
    BY <1>1, <2>1, Grown
  <2>4. j = i => RequestedIn(c2r', i)
    BY <1>1, <2>1, <2>2, Grown
  <2> QED
    BY <1>2, <2>1, <2>3, <2>4 DEF SubscriptionNotLost, Open
<1>7. CASE Resubscribed
  BY <1>2, <1>7 DEF Resubscribed, sockVars, callVars, relayVars, SubscriptionNotLost, Open
<1>8. CASE ConnectFails \/ ConnectionLost \/ ReaderCrashes \/ ReaderStumbles
  <2>1. run' \notin {"reading", "resubscribing"}
    BY <1>8 DEF ConnectFails, ConnectionLost, ReaderCrashes, ReaderStumbles
  <2> QED
    BY <2>1
<1> QED
  BY <1>4, <1>5, <1>6, <1>7, <1>8

LEMMA OpenAfterRelay ==
    ASSUME IInv, SubsInv, SubscriptionNotLost,
           \/ Close \/ Drop \/ RelayStep \/ RelayGivesMore
           \/ \E i \in SubIds : RelayDropsSub(i)
    PROVE  SubscriptionNotLost'
<1> SUFFICES ASSUME NEW s \in Subscribers, pc'[s] = "listen", ws' = "open",
                    run' \in {"reading", "resubscribing"}
             PROVE  Open(s)'
  BY DEF SubscriptionNotLost, Open
<1> DEFINE i == <<s, 1>>
<1>1. i \in SubIds /\ c2r \in Seq(ClientFrames) /\ r2c \in Seq(RelayFrames)
  BY DEF SubIds, IInv, TypeOK, LinkType
<1>2. RelayStep \/ RelayGivesMore \/ \E j \in SubIds : RelayDropsSub(j)
  BY DEF Close, Drop
<1>3. UNCHANGED <<pc, run, ws, queue, resub>>
  BY <1>2 DEF RelayStep, RelayReads, RelaySendsEvent, RelaySendsEose, RelayDropsSub,
              RelayGivesMore, RelayRepeats, OthersPublish, clientVars, runVars, sockVars, callVars
<1>4. Open(s)
  BY <1>3 DEF SubscriptionNotLost, Open
<1>5. \A m : ClosedFor(r2c, i) => ClosedFor(Append(r2c, m), i)
  BY <1>1, Grown
<1>6. CASE RelayReads
  <2> DEFINE m == Head(c2r)
  <2>1. c2r # <<>> /\ c2r' = Tail(c2r)
    BY <1>6 DEF RelayReads
  <2>2. m \in ClientFrames /\ 1 \in 1..Len(c2r) /\ c2r[1] = m
    BY <1>1, <2>1
  <2>3. RequestedIn(c2r, i) => (m.type = "REQ" /\ m.sub = i) \/ RequestedIn(c2r', i)
    BY <1>1, <2>1, Shrunk
  <2>4. CASE RelayEvent(m) \/ RelayAuth(m)
    <3>1. rSubs' = rSubs /\ m.type # "REQ" /\ \E n : r2c' = Append(r2c, n)
      BY <2>4 DEF RelayEvent, RelayAuth
    <3> HIDE DEF m
    <3> QED
      BY <1>3, <1>4, <1>5, <2>3, <3>1 DEF Open
  <2>5. CASE RelayReq(m)
    <3>1. CASE Trusted
      <4>1. rSubs' = rSubs \cup {m.sub} /\ r2c' = r2c
        BY <2>5, <3>1 DEF RelayReq
      <4> HIDE DEF m
      <4> QED
        BY <1>3, <1>4, <2>3, <4>1 DEF Open
    <3>2. CASE ~Trusted
      <4> DEFINE n == ClosedFrame(m.sub, "auth-required")
      <4>1. rSubs' = rSubs /\ r2c' = Append(r2c, n)
        BY <2>5, <3>2 DEF RelayReq
      <4>2. n.type = "CLOSED" /\ n.sub = m.sub
        BY DEF ClosedFrame
      <4> HIDE DEF m, n
      <4>3. m.sub = i => ClosedFor(r2c', i)
        BY <1>1, <4>1, <4>2, Grown
      <4> QED
        BY <1>3, <1>4, <1>5, <2>3, <4>1, <4>3 DEF Open
    <3> QED
      BY <3>1, <3>2
  <2>6. CASE RelayClose(m)
    <3>1. m.type = "CLOSE" /\ rSubs' = rSubs \ {m.sub} /\ r2c' = r2c
      BY <2>6 DEF RelayClose, Forget
    <3> HIDE DEF m
    <3>2. m.sub # i
      BY <1>3, <2>2, <3>1 DEF SubsInv
    <3> QED
      BY <1>3, <1>4, <2>3, <3>1, <3>2 DEF Open
  <2> QED
    BY <1>6, <2>4, <2>5, <2>6 DEF RelayReads
<1>7. ASSUME NEW o \in SubIds \X Events, RelaySendsEvent(o)
      PROVE  Open(s)'
  BY <1>3, <1>4, <1>5, <1>7 DEF RelaySendsEvent, Open
<1>8. ASSUME NEW j \in SubIds, RelaySendsEose(j)
      PROVE  Open(s)'
  BY <1>3, <1>4, <1>5, <1>8 DEF RelaySendsEose, Open
<1>9. ASSUME NEW j \in SubIds, RelayDropsSub(j)
      PROVE  Open(s)'
  <2> DEFINE n == ClosedFrame(j, "error")
  <2>1. rSubs' = rSubs \ {j} /\ r2c' = Append(r2c, n) /\ c2r' = c2r
    BY <1>9 DEF RelayDropsSub, Forget
  <2>2. n.type = "CLOSED" /\ n.sub = j
    BY DEF ClosedFrame
  <2> HIDE DEF n
  <2>3. j = i => ClosedFor(r2c', i)
    BY <1>1, <2>1, <2>2, Grown
  <2> QED
    BY <1>3, <1>4, <1>5, <2>1, <2>3 DEF Open
<1>10. ASSUME NEW j \in SubIds, NEW e \in Events, RelayRepeats(j, e)
       PROVE  Open(s)'
  BY <1>3, <1>4, <1>5, <1>10 DEF RelayRepeats, relayVars, Open
<1>11. ASSUME NEW e \in Foreign, OthersPublish(e)
       PROVE  Open(s)'
  BY <1>3, <1>4, <1>11 DEF OthersPublish, Open
<1> QED
  BY <1>2, <1>6, <1>7, <1>8, <1>9, <1>10, <1>11 DEF RelayStep, RelayGivesMore

LEMMA OpenNext ==
    ASSUME IInv, FirstAttempt, SubsInv, SubscriptionNotLost, [Next]_vars
    PROVE  SubscriptionNotLost'
<1>1. CASE UNCHANGED vars
  BY <1>1 DEF vars, clientVars, runVars, sockVars, callVars, relayVars,
              SubscriptionNotLost, RequestedIn, ClosedFor
<1> QED
  BY <1>1, NextCases, OpenAfterCall, OpenAfterReader, OpenAfterRelay

-----------------------------------------------------------------------------
LEMMA TablesInit == Init => LockInv /\ FutureInv /\ SubsInv /\ SubscriptionNotLost
BY TasksApart DEF Init, LockInv, FutureInv, SubsInv, SubscriptionNotLost, Reqs

LEMMA TablesHold == Spec => [](LockInv /\ SubsInv /\ SubscriptionNotLost)
<1>1. /\ IInv /\ FirstAttempt
      /\ LockInv /\ SubsInv /\ SubscriptionNotLost /\ [Next]_vars
      => (LockInv /\ SubsInv /\ SubscriptionNotLost)'
  BY LockInvNext, SubsInvNext, OpenNext
<1> QED
  BY <1>1, TablesInit, IInvHolds, FreshHolds, PTL DEF Spec

(* While the reader runs, a subscription that waits for items is open at the*)
(* relay, or about to be, or its end is on its way to it: no reconnect,     *)
(* authentication or refusal silently loses it (subscribe, _reconnect).     *)
THEOREM NoSubscriptionLost == Spec => []SubscriptionNotLost
BY TablesHold, PTL

(* As long as no two calls publish one event: who waits for an OK is the    *)
(* task that OK will wake, who waits for a challenge is in the list that the*)
(* next one wakes, and a call that has ended has left _pending_ok, the      *)
(* subscriptions and the queue of the lock, however it ended (the finally   *)
(* blocks of _publish_signed, _query_scoped, subscribe and _authenticate).  *)
(* It may have left the future of a challenge it no longer waits for in     *)
(* _auth_waiters.                                                           *)
THEOREM AnswersFound ==
    ASSUME DistinctEvents
    PROVE  Spec => []AnswersFindTheirTask
<1>1. IInv /\ FirstAttempt /\ FutureInv /\ [Next]_vars => FutureInv'
  BY FutureInvNext
<1>2. IInv /\ LockInv /\ SubsInv /\ FutureInv => AnswersFindTheirTask
  <2> SUFFICES ASSUME IInv, LockInv, SubsInv, FutureInv PROVE AnswersFindTheirTask
    OBVIOUS
  <2>1. ASSUME NEW t \in Tasks, pc[t] = "done"
        PROVE  /\ Reqs(t) = {}
               /\ \A id \in Ids : pendingOk[id] # t
               /\ \A k \in 1..Len(authLock) : authLock[k] # t
    BY <2>1 DEF IInv, Waiting, LockInv, SubsInv, Locking
  <2>2. \A t \in Tasks : pc[t] = "authChallenge" /\ fut[t] = "pending" =>
           t \in authWaiters
    BY DEF IInv, Waiting
  <2> QED
    BY <2>1, <2>2 DEF FutureInv, AnswersFindTheirTask
<1> QED
  BY <1>1, <1>2, TablesInit, IInvHolds, FreshHolds, TablesHold, PTL DEF Spec

=============================================================================
