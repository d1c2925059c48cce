---------------------------- MODULE RelayClient ----------------------------
(***************************************************************************)
(* core/relay.py: the asyncio Nostr client of one relay connection.        *)
(*                                                                         *)
(* Several tasks of one event loop (publish, query and subscribe calls)    *)
(* share a RelayClient with the task that runs _run, the only reader of    *)
(* the websocket.  Tasks never run in parallel: a step of this module is   *)
(* what a task does from one await to the next.  Every await of a call     *)
(* that can suspend, and the return of _authenticate, is a switch point,   *)
(* so the module allows every interleaving the event loop can produce.     *)
(*                                                                         *)
(* The relay and the TCP link are outside the repository; they are modelled*)
(* from the frames the client sends and understands (NIP-01, NIP-42) and   *)
(* from the relay its tests run against (tests/relay_mock.py).             *)
(***************************************************************************)
EXTENDS Integers, Sequences, FiniteSets

CONSTANTS
    Publishers,    (* tasks that call publish() once                            *)
    Queriers,      (* tasks that call query() once                              *)
    Subscribers,   (* tasks that iterate subscribe()                            *)
    NoTask,        (* "no future registered" in _pending_ok                     *)
    Events,        (* event ids                                                 *)
    EventOf,       (* the event each publisher publishes                        *)
    Forged,        (* events the relay serves though Event.verify() fails       *)
    Unreadable,    (* those among them on which Event.verify() raises           *)
    Blocked,       (* events the relay refuses by policy                        *)
    Preloaded,     (* events the relay holds before the client connects         *)
    Foreign,       (* events that other clients publish                         *)
    AuthRequired,  (* does the relay ask for NIP-42 authentication              *)
    MaxConns,      (* bound: connections the network grants in a behaviour      *)
    MaxAttempts,   (* max_reconnect_attempts                                    *)
    MaxCalls       (* bound: calls, and events of other clients, in a behaviour *)

Tasks == Publishers \cup Queriers \cup Subscribers

ASSUME TasksAssumption ==
    /\ Publishers \cap Queriers = {}
    /\ Publishers \cap Subscribers = {}
    /\ Queriers \cap Subscribers = {}
    /\ NoTask \notin Tasks

ASSUME EventsAssumption ==
    /\ EventOf \in [Publishers -> Events]
    /\ Events \cap Nat = {}
    /\ Forged \subseteq Events /\ Unreadable \subseteq Forged
    /\ Blocked \subseteq Events
    /\ Preloaded \subseteq Events /\ Foreign \subseteq Events

ASSUME BoundsAssumption ==
    /\ AuthRequired \in BOOLEAN
    /\ MaxConns \in Nat \ {0}
    /\ MaxAttempts \in Nat \ {0}
    /\ MaxCalls \in Nat \ {0}

-----------------------------------------------------------------------------
(* Identifiers and frames.  The n-th connection sends challenge n, and n is *)
(* also the id of the kind 22242 event that answers it.                     *)

Challenges == 1..MaxConns
Ids        == Events \cup Challenges
SubIds     == (Queriers \X {1, 2}) \cup (Subscribers \X {1})
SubsOf(t)  == SubIds \cap ({t} \X {1, 2})
Answers    == {"ok", "auth-required", "refused"}

ClientFrames ==
    [type : {"EVENT"}, ev : Events]
      \cup [type : {"REQ", "CLOSE"}, sub : SubIds]
      \cup [type : {"AUTH"}, challenge : Challenges]

SubFrames ==
    [type : {"EVENT"}, sub : SubIds, ev : Events]
      \cup [type : {"EOSE"}, sub : SubIds]
      \cup [type : {"CLOSED"}, sub : SubIds, msg : {"auth-required", "error"}]

RelayFrames ==
    SubFrames \cup [type : {"OK"}, id : Ids, answer : Answers]
              \cup [type : {"AUTH"}, challenge : Challenges]

EventFrame(i, e)    == [type |-> "EVENT", sub |-> i, ev |-> e]
EoseFrame(i)        == [type |-> "EOSE", sub |-> i]
ClosedFrame(i, m)   == [type |-> "CLOSED", sub |-> i, msg |-> m]
OkFrame(id, a)      == [type |-> "OK", id |-> id, answer |-> a]
SubFrame(kind, i)   == [type |-> kind, sub |-> i]

VARIABLES
    run,          \* where the _run task is
    attempts,     \* failed attempts of the _reconnect in progress
    resub,        \* subscriptions _reconnect has still to reissue
    ws,           \* the websocket: open, dead, or None after close()
    conn,         \* number of the current connection
    subs,         \* keys of _sub_queues
    queue,        \* the queue under each key
    pendingOk,    \* _pending_ok: the task whose future waits under each id
    authed,       \* _authed
    challenge,    \* _pending_challenge, 0 for None
    authWaiters,  \* tasks whose future, perhaps timed out, is in _auth_waiters
    authLock,     \* _auth_lock: the holder, then its waiters in order
    pc,           \* where each task is
    retried,      \* _retried of the call in progress
    fut,          \* the result of the future a task awaits
    answering,    \* the challenge a task's authentication answers, 0 for none
    got,          \* verified events the caller of a task has received
    result,       \* how the call of a task ended
    c2r, r2c,     \* frames in flight, and received but not read, each way
    stored,       \* events the relay has accepted
    rAuthed,      \* has the relay authenticated this connection
    rSubs,        \* subscriptions open at the relay
    owed,         \* events the relay has yet to send to a subscription
    eoseDue,      \* subscriptions the relay owes an EOSE
    atStart       \* history: the events stored when a query was called

runVars   == <<run, attempts, resub>>
sockVars  == <<ws, conn>>
relayVars == <<stored, rAuthed, rSubs, owed, eoseDue>>

(* The variables a call's own steps change, the rest of the client's state, *)
(* and everything a step of the relay or the link leaves alone.             *)
callVars   == <<pc, result, fut, subs, queue, pendingOk, authLock, authWaiters,
                answering>>
memoVars   == <<authed, challenge, retried, got, atStart>>
clientVars == <<runVars, sockVars, callVars, memoVars>>
outside    == <<runVars, sockVars, r2c, relayVars>>

vars == <<clientVars, c2r, r2c, relayVars>>

(* The reader and the connection; the tables the calls share; the calls;    *)
(* what they remember; the link; the relay.                                 *)
ReaderType ==
    /\ run \in {"reading", "connecting", "resubscribing", "gaveUp", "crashed",
                "cancelled"}
    /\ attempts \in 0..MaxAttempts
    /\ resub \subseteq SubIds
    /\ ws \in {"open", "dead", "none"}
    /\ conn \in Challenges

TablesType ==
    /\ subs \subseteq SubIds
    /\ queue \in [SubIds -> Seq(SubFrames)]
    /\ pendingOk \in [Ids -> Tasks \cup {NoTask}]
    /\ authWaiters \subseteq Tasks
    /\ authLock \in Seq(Tasks)

Places ==
    {"idle", "awaitOk", "collect", "listen", "authLock", "authChallenge", "authOk",
     "resume", "done"}

Results == {"none", "ok", "refused", "relayError", "timeout", "connClosed", "stopped"}

CallsType ==
    /\ pc \in [Tasks -> Places]
    /\ fut \in [Tasks -> Answers \cup {"pending", "error"}]
    /\ answering \in [Tasks -> 0..MaxConns]
    /\ result \in [Tasks -> Results]

MemoType ==
    /\ authed \in BOOLEAN
    /\ challenge \in 0..MaxConns
    /\ retried \in [Tasks -> BOOLEAN]
    /\ got \in [Tasks -> SUBSET Events]
    /\ atStart \in [Tasks -> SUBSET Events]

LinkType == c2r \in Seq(ClientFrames) /\ r2c \in Seq(RelayFrames)

RelayType ==
    /\ stored \subseteq Events
    /\ rAuthed \in BOOLEAN
    /\ rSubs \subseteq SubIds
    /\ owed \subseteq SubIds \X Events
    /\ eoseDue \subseteq SubIds

TypeOK ==
    /\ ReaderType /\ TablesType /\ CallsType /\ MemoType
    /\ LinkType /\ RelayType

-----------------------------------------------------------------------------
(* The link: what a fresh connection looks like.                            *)

Greeting(c) == IF AuthRequired THEN <<[type |-> "AUTH", challenge |-> c]>>
                               ELSE <<>>

(* connect() has just returned: the reader runs, no call has been made.     *)
Init ==
    /\ run = "reading" /\ attempts = 0 /\ resub = {}
    /\ ws = "open" /\ conn = 1
    /\ subs = {} /\ queue = [i \in SubIds |-> <<>>]
    /\ pendingOk = [id \in Ids |-> NoTask]
    /\ authed = FALSE /\ challenge = 0 /\ authWaiters = {} /\ authLock = <<>>
    /\ pc = [t \in Tasks |-> "idle"]
    /\ retried = [t \in Tasks |-> FALSE]
    /\ fut = [t \in Tasks |-> "pending"]
    /\ answering = [t \in Tasks |-> 0]
    /\ got = [t \in Tasks |-> {}]
    /\ result = [t \in Tasks |-> "none"]
    /\ c2r = <<>> /\ r2c = Greeting(1)
    /\ stored = Preloaded /\ rAuthed = FALSE
    /\ rSubs = {} /\ owed = {} /\ eoseDue = {}
    /\ atStart = [t \in Tasks |-> {}]

-----------------------------------------------------------------------------
(* How a call sends and how it ends.                                        *)

(* _send on a dead websocket raises websockets' ConnectionClosed, which is  *)
(* no RelayError; without a websocket it raises RelayError.                 *)
SendError == IF ws = "dead" THEN "connClosed" ELSE "relayError"

Sent(frames) == IF ws = "open" THEN c2r \o frames ELSE c2r

Reqs(t)   == {i \in subs : i[1] = t}
Closes(t) == (IF <<t, 2>> \in subs THEN <<SubFrame("CLOSE", <<t, 2>>)>> ELSE <<>>)
               \o (IF <<t, 1>> \in subs THEN <<SubFrame("CLOSE", <<t, 1>>)>> ELSE <<>>)

\* Slip: the id of an authentication that fails stays in _pending_ok.
OwnEventIds(t) ==
    IF t \in Publishers /\ pc[t] \in {"idle", "awaitOk", "resume"}
    THEN {EventOf[t]} ELSE {}

(* The ids whose pending future the finally blocks around t pop.            *)
OwnIds(t) ==
    CASE t \in Publishers /\ pc[t] \in {"idle", "awaitOk", "resume"} -> {EventOf[t]}
      [] pc[t] = "authOk" -> {answering[t]}
      [] OTHER -> {}

Popped(t) == [id \in Ids |-> IF id \in OwnIds(t) THEN NoTask ELSE pendingOk[id]]

\* Slip: the lock is taken without waiting for its holder.
HoldsAnyway(t) == \E k \in 1..Len(authLock) : authLock[k] = t

Holds(t) == authLock # <<>> /\ authLock[1] = t

\* Slip: an exception leaves the lock held.
NeverReleased(t) == authLock

Released(t) == IF Holds(t) THEN Tail(authLock) ELSE authLock

(* The call of t ends with r, through every finally and async with it is    *)
(* in.  The CLOSE a query or subscription sends on its way out raises when  *)
(* the websocket is dead, and that exception replaces r.  Nothing takes a   *)
(* future that has timed out off _auth_waiters.                             *)
Leave(t, r) ==
    /\ pc' = [pc EXCEPT ![t] = "done"]
    /\ result' = [result EXCEPT
         ![t] = IF t \notin Publishers /\ ws = "dead" THEN "connClosed" ELSE r]
    /\ subs' = subs \ Reqs(t)
    /\ queue' = [i \in SubIds |-> IF i[1] = t THEN <<>> ELSE queue[i]]
    /\ c2r' = Sent(Closes(t))
    /\ pendingOk' = Popped(t)
    /\ authLock' = Released(t)
    /\ UNCHANGED authWaiters
    /\ answering' = [answering EXCEPT ![t] = 0]
    /\ fut' = [fut EXCEPT ![t] = "pending"]

(* The relay answered t with auth-required: t calls _authenticate and       *)
(* queues for its lock.                                                     *)
AskAuth(t) ==
    /\ pc' = [pc EXCEPT ![t] = "authLock"]
    /\ authLock' = Append(authLock, t)
    /\ pendingOk' = Popped(t)
    /\ fut' = [fut EXCEPT ![t] = "pending"]
    /\ UNCHANGED <<result, subs, c2r, authWaiters, answering>>

Calls == Cardinality({t \in Tasks : pc[t] # "idle"}) + Cardinality(stored \cap Foreign)

MayCall(t) == pc[t] = "idle" /\ Calls < MaxCalls

-----------------------------------------------------------------------------
(* publish()                                                                *)

PublishSigned(p) ==
    IF ws = "open"
    THEN /\ pendingOk' = [pendingOk EXCEPT ![EventOf[p]] = p]
         /\ c2r' = Append(c2r, [type |-> "EVENT", ev |-> EventOf[p]])
         /\ pc' = [pc EXCEPT ![p] = "awaitOk"]
         /\ UNCHANGED <<fut, result, subs, queue, authLock, authWaiters, answering>>
    ELSE Leave(p, SendError)

Publish(p) ==
    /\ MayCall(p)
    /\ PublishSigned(p)
    /\ UNCHANGED <<outside, memoVars>>

PublishAnswered(p) ==
    /\ pc[p] = "awaitOk"
    /\ fut[p] # "pending"
    /\ \/ fut[p] = "ok" /\ Leave(p, "ok")
       \/ fut[p] = "auth-required" /\ ~retried[p] /\ AskAuth(p) /\ UNCHANGED queue
       \/ fut[p] = "auth-required" /\ retried[p] /\ Leave(p, "refused")
       \/ fut[p] = "refused" /\ Leave(p, "refused")
       \/ fut[p] = "error" /\ Leave(p, "relayError")
    /\ UNCHANGED <<outside, memoVars>>

-----------------------------------------------------------------------------
(* query(): the retry runs inside the try of the first attempt, under a     *)
(* fresh subscription id.                                                   *)

TryOf(q) == <<q, IF retried[q] THEN 2 ELSE 1>>

QueryScoped(q, n) ==
    IF ws = "open"
    THEN /\ subs' = subs \cup {<<q, n>>}
         /\ c2r' = Append(c2r, SubFrame("REQ", <<q, n>>))
         /\ got' = [got EXCEPT ![q] = {}]
         /\ pc' = [pc EXCEPT ![q] = "collect"]
         /\ UNCHANGED <<fut, result, queue, pendingOk, authLock, authWaiters, answering>>
    ELSE Leave(q, SendError) /\ UNCHANGED got

Query(q) ==
    /\ MayCall(q)
    /\ QueryScoped(q, 1)
    /\ atStart' = [atStart EXCEPT ![q] = stored \ Forged]
    /\ UNCHANGED <<outside, authed, challenge, retried>>

QueryItem(q) ==
    /\ pc[q] = "collect"
    /\ queue[TryOf(q)] # <<>>
    /\ LET item == Head(queue[TryOf(q)])
           rest == [queue EXCEPT ![TryOf(q)] = Tail(@)]
       IN  \/ /\ item.type = "EVENT"
              /\ got' = [got EXCEPT ![q] = @ \cup {item.ev}]
              /\ queue' = rest
              /\ UNCHANGED <<pc, fut, result, subs, pendingOk, authLock,
                             authWaiters, answering, c2r>>
           \/ item.type = "EOSE" /\ Leave(q, "ok") /\ UNCHANGED got
           \/ /\ item.type = "CLOSED"
              /\ IF item.msg = "auth-required" /\ ~retried[q]
                 THEN AskAuth(q) /\ queue' = rest
                 ELSE Leave(q, "relayError")
              /\ UNCHANGED got
    /\ UNCHANGED <<outside, authed, challenge, retried, atStart>>

-----------------------------------------------------------------------------
(* subscribe(): between two items the generator waits on its queue or is    *)
(* suspended at its yield for as long as its consumer likes.                *)

\* Slip: after authenticating, the subscription is taken to be still open.
ReqOnce(s) == IF <<s, 1>> \in subs THEN <<>> ELSE <<SubFrame("REQ", <<s, 1>>)>>

Req(s) == <<SubFrame("REQ", <<s, 1>>)>>

Request(s) ==
    IF ws = "open"
    THEN /\ subs' = subs \cup {<<s, 1>>}
         /\ c2r' = c2r \o Req(s)
         /\ pc' = [pc EXCEPT ![s] = "listen"]
         /\ UNCHANGED <<fut, result, queue, pendingOk, authLock, authWaiters, answering>>
    ELSE Leave(s, SendError)

Subscribe(s) ==
    /\ MayCall(s)
    /\ Request(s)
    /\ UNCHANGED <<outside, memoVars>>

SubscriptionItem(s) ==
    /\ pc[s] = "listen"
    /\ queue[<<s, 1>>] # <<>>
    /\ LET item == Head(queue[<<s, 1>>])
           rest == [queue EXCEPT ![<<s, 1>>] = Tail(@)]
       IN  \/ /\ item.type \in {"EVENT", "EOSE"}
              /\ got' = IF item.type = "EVENT"
                        THEN [got EXCEPT ![s] = @ \cup {item.ev}] ELSE got
              /\ queue' = rest
              /\ UNCHANGED <<pc, fut, result, subs, pendingOk, authLock,
                             authWaiters, answering, c2r>>
           \/ /\ item.type = "CLOSED"
              /\ IF item.msg = "auth-required"
                 THEN AskAuth(s) /\ queue' = rest
                 ELSE Leave(s, "relayError")
              /\ UNCHANGED got
    /\ UNCHANGED <<outside, authed, challenge, retried, atStart>>

(* The consumer closes the generator, or is cancelled waiting for an item.  *)
Unsubscribe(s) ==
    /\ pc[s] = "listen"
    /\ Leave(s, "stopped")
    /\ UNCHANGED <<outside, memoVars>>

-----------------------------------------------------------------------------
(* _authenticate                                                            *)

(* t returns from _authenticate, releasing the lock.                        *)
Authenticated(t) ==
    /\ pc' = [pc EXCEPT ![t] = "resume"]
    /\ authLock' = Tail(authLock)
    /\ fut' = [fut EXCEPT ![t] = "pending"]
    /\ answering' = [answering EXCEPT ![t] = 0]

SendAuth(t, c) ==
    IF ws = "open"
    THEN /\ pendingOk' = [pendingOk EXCEPT ![c] = t]
         /\ c2r' = Append(c2r, [type |-> "AUTH", challenge |-> c])
         /\ answering' = [answering EXCEPT ![t] = c]
         /\ pc' = [pc EXCEPT ![t] = "authOk"]
         /\ fut' = [fut EXCEPT ![t] = "pending"]
         /\ UNCHANGED <<result, subs, queue, authLock, authWaiters>>
    ELSE Leave(t, SendError)

(* t holds the lock: another task may have authenticated meanwhile.         *)
Authenticate(t) ==
    /\ pc[t] = "authLock"
    /\ Holds(t)
    /\ \/ /\ authed
          /\ Authenticated(t)
          /\ UNCHANGED <<result, subs, queue, c2r, pendingOk, authWaiters>>
       \/ /\ ~authed /\ challenge # 0
          /\ SendAuth(t, challenge)
       \/ /\ ~authed /\ challenge = 0
          /\ authWaiters' = authWaiters \cup {t}
          /\ pc' = [pc EXCEPT ![t] = "authChallenge"]
          /\ UNCHANGED <<fut, result, subs, queue, c2r, pendingOk, authLock, answering>>
    /\ UNCHANGED <<outside, memoVars>>

AuthChallenged(t) ==
    /\ pc[t] = "authChallenge"
    /\ \/ fut[t] = "ok" /\ SendAuth(t, answering[t])
       \/ fut[t] = "error" /\ Leave(t, "relayError")
    /\ UNCHANGED <<outside, memoVars>>

AuthAnswered(t) ==
    /\ pc[t] = "authOk"
    /\ \/ /\ fut[t] = "ok"
          /\ authed' = TRUE /\ challenge' = 0
          /\ pendingOk' = Popped(t)
          /\ Authenticated(t)
          /\ UNCHANGED <<result, subs, queue, c2r, authWaiters>>
       \/ /\ fut[t] \in {"refused", "auth-required"}
          /\ Leave(t, "refused")
          /\ UNCHANGED <<authed, challenge>>
       \/ /\ fut[t] = "error"
          /\ Leave(t, "relayError")
          /\ UNCHANGED <<authed, challenge>>
    /\ UNCHANGED <<outside, retried, got, atStart>>

(* Back from _authenticate, the call is repeated: publish and query once,   *)
(* a subscription as often as the relay asks.                               *)
Resume(t) ==
    /\ pc[t] = "resume"
    /\ retried' = [retried EXCEPT ![t] = t \notin Subscribers]
    /\ \/ t \in Publishers /\ PublishSigned(t) /\ UNCHANGED got
       \/ t \in Queriers /\ QueryScoped(t, 2)
       \/ t \in Subscribers /\ Request(t) /\ UNCHANGED got
    /\ UNCHANGED <<outside, authed, challenge, atStart>>

\* Slip: a query that times out returns what it has collected.
PartialResult(t) == IF pc[t] = "collect" THEN "ok" ELSE "timeout"

TimeoutResult(t) == "timeout"

(* op_timeout passes before t is woken with its answer; asyncio lets the    *)
(* timeout win even when the answer has just arrived.                       *)
Timeout(t) ==
    /\ pc[t] \in {"awaitOk", "collect", "authChallenge", "authOk"}
    /\ Leave(t, TimeoutResult(t))
    /\ UNCHANGED <<outside, memoVars>>

(* A query's timer starts again with every item.                            *)
TimerRunsOut(t) ==
    /\ pc[t] = "collect" => queue[TryOf(t)] = <<>>
    /\ Timeout(t)

-----------------------------------------------------------------------------
(* _run: the reader.                                                        *)

\* Slips: events are queued without being verified; a queue of size one is
\* filled without waiting for room.
AcceptsUnverified(m) == m.sub \in subs
AcceptsIfEmpty(m)    == m.sub \in subs /\ queue[m.sub] = <<>>

Accepts(m) == m.sub \in subs /\ (m.type # "EVENT" \/ m.ev \notin Forged)

HandleSub(m) ==
    /\ m.type \in {"EVENT", "EOSE", "CLOSED"}
    /\ queue' = IF Accepts(m) THEN [queue EXCEPT ![m.sub] = Append(@, m)] ELSE queue
    /\ UNCHANGED <<fut, challenge, authWaiters, answering>>

\* Slip: the answer is taken for every call that waits for one.
AnyWaiter(id) == {t \in Tasks : pc[t] = "awaitOk"}

Waiter(id) == {t \in Tasks : pendingOk[id] = t}

HandleOk(m) ==
    /\ m.type = "OK"
    /\ fut' = [t \in Tasks |-> IF t \in Waiter(m.id) /\ fut[t] = "pending"
                               THEN m.answer ELSE fut[t]]
    /\ UNCHANGED <<queue, challenge, authWaiters, answering>>

(* The others in the list belong to calls that have timed out.              *)
PendingWaiters == {t \in authWaiters : pc[t] = "authChallenge" /\ fut[t] = "pending"}

OnAuthChallenge(m) ==
    /\ m.type = "AUTH"
    /\ challenge' = m.challenge
    /\ fut' = [t \in Tasks |-> IF t \in PendingWaiters THEN "ok" ELSE fut[t]]
    /\ answering' = [t \in Tasks |-> IF t \in PendingWaiters THEN m.challenge
                                                            ELSE answering[t]]
    /\ authWaiters' = {}
    /\ UNCHANGED queue

Raises(m) == m.type = "EVENT" /\ m.ev \in Unreadable

HandleMessage ==
    /\ run = "reading"
    /\ r2c # <<>> /\ ~Raises(Head(r2c))
    /\ r2c' = Tail(r2c)
    /\ \/ HandleSub(Head(r2c))
       \/ HandleOk(Head(r2c))
       \/ OnAuthChallenge(Head(r2c))
    /\ UNCHANGED <<run, attempts, resub, sockVars, subs, pendingOk, authed,
                   authLock, pc, retried, got, result, atStart, c2r, relayVars>>

(* An exception out of _handle_message: _run reconnects, and the connection *)
(* it leaves stays open.                                                    *)
ReaderStumbles ==
    /\ run = "reading"
    /\ r2c # <<>> /\ Raises(Head(r2c))
    /\ r2c' = Tail(r2c)
    /\ run' = "connecting" /\ attempts' = 0
    /\ UNCHANGED <<resub, sockVars, callVars, memoVars, c2r, relayVars>>

(* The iteration over a lost connection ends once what it had received is   *)
(* read.                                                                    *)
ConnectionLost ==
    /\ run = "reading" /\ ws = "dead" /\ r2c = <<>>
    /\ run' = "connecting" /\ attempts' = 0
    /\ UNCHANGED <<resub, sockVars, callVars, memoVars, c2r, r2c, relayVars>>

\* Slip: only the futures are failed.
OpenQueues == queue

ClosedQueues ==
    [i \in SubIds |-> IF i \in subs THEN Append(queue[i], ClosedFrame(i, "error"))
                                    ELSE queue[i]]

FailPending ==
    /\ fut' = [t \in Tasks |->
         IF fut[t] = "pending" /\ (t \in PendingWaiters \/ \E id \in Ids : pendingOk[id] = t)
         THEN "error" ELSE fut[t]]
    /\ pendingOk' = [id \in Ids |-> NoTask]
    /\ authWaiters' = {}
    /\ queue' = ClosedQueues

\* Slip: one attempt too many.
ExhaustedLate == attempts >= MaxAttempts

Exhausted == attempts + 1 >= MaxAttempts

(* connect() raises OSError: try again, or give up for good.                *)
ConnectFails ==
    /\ run = "connecting"
    /\ attempts' = attempts + 1
    /\ IF Exhausted
       THEN run' = "gaveUp" /\ FailPending
       ELSE UNCHANGED <<run, fut, pendingOk, authWaiters, queue>>
    /\ UNCHANGED <<resub, sockVars, subs, authed, challenge, authLock, answering,
                   pc, retried, got, result, atStart, c2r, r2c, relayVars>>

(* The tasks that an answer or an item has already woken.                   *)
Woken(t) ==
    \/ pc[t] \in {"awaitOk", "authChallenge", "authOk"} /\ fut[t] # "pending"
    \/ pc[t] = "collect" /\ queue[TryOf(t)] # <<>>

\* Slips: one of the two is kept across connections.
KeepAuthed    == UNCHANGED authed /\ challenge' = 0
KeepChallenge == authed' = FALSE /\ UNCHANGED challenge

FreshAuth == authed' = FALSE /\ challenge' = 0

\* Slip: no subscription is remembered across a reconnect.
NoLiveSubs == {}

(* The keys of _live_sub_filters, which come and go with those of           *)
(* _sub_queues.                                                             *)
LiveSubs == subs \cap (Subscribers \X {1})

RelayForgets == rAuthed' = FALSE /\ rSubs' = {} /\ owed' = {} /\ eoseDue' = {}

(* connect() returns after network round trips, and the event loop runs what*)
(* is ready in every one of its turns: a task that was woken by the         *)
(* connection before has run by then.  A connection that is left open is    *)
(* read no more; what is still on its way there counts as lost.             *)
ConnectOk ==
    /\ run = "connecting"
    /\ conn < MaxConns
    /\ \A t \in Tasks : ~Woken(t)
    /\ ws' = "open" /\ conn' = conn + 1
    /\ FreshAuth
    /\ resub' = LiveSubs
    /\ run' = "resubscribing"
    /\ c2r' = <<>> /\ r2c' = Greeting(conn + 1)
    /\ RelayForgets
    /\ UNCHANGED <<attempts, callVars, retried, got, atStart, stored>>

(* One REQ of the loop over the subscriptions that were live when the       *)
(* connection came up; a subscription that has left since is reissued too.  *)
Resubscribe(i) ==
    /\ run = "resubscribing" /\ ws = "open"
    /\ i \in resub
    /\ resub' = resub \ {i}
    /\ c2r' = Append(c2r, SubFrame("REQ", i))
    /\ UNCHANGED <<run, attempts, sockVars, callVars, memoVars, r2c, relayVars>>

Resubscribed ==
    /\ run = "resubscribing" /\ resub = {}
    /\ run' = "reading" /\ attempts' = 0
    /\ UNCHANGED <<resub, sockVars, callVars, memoVars, c2r, r2c, relayVars>>

(* An exception that is not RelayError leaves _run: the handshake is refused*)
(* (no OSError), or the connection dies under the loop that resubscribes.   *)
ReaderCrashes ==
    /\ \/ run = "connecting"
       \/ run = "resubscribing" /\ ws = "dead" /\ resub # {}
    /\ run' = "crashed" /\ resub' = {}
    /\ UNCHANGED <<attempts, sockVars, callVars, memoVars, c2r, r2c, relayVars>>

(* close(); it raises, and closes nothing, once the reader has crashed.     *)
Close ==
    /\ run \notin {"crashed", "cancelled"} /\ ws # "none"
    /\ run' = IF run = "gaveUp" THEN run ELSE "cancelled"
    /\ resub' = {} /\ ws' = "none"
    /\ c2r' = <<>> /\ r2c' = <<>>
    /\ RelayForgets
    /\ UNCHANGED <<attempts, conn, callVars, memoVars, stored>>

-----------------------------------------------------------------------------
(* The network and the relay.                                               *)

(* The connection dies: what the client sent is lost from some frame on, and*)
(* so is what the relay sent.                                               *)
Drop ==
    /\ ws = "open"
    /\ ws' = "dead"
    /\ c2r' = <<>>
    /\ \E k \in 0..Len(r2c) : r2c' = SubSeq(r2c, 1, k)
    /\ RelayForgets
    /\ UNCHANGED <<runVars, conn, callVars, memoVars, stored>>

Trusted == ~AuthRequired \/ rAuthed

RelayEvent(m) ==
    /\ m.type = "EVENT"
    /\ LET answer == CASE ~Trusted -> "auth-required"
                       [] Trusted /\ m.ev \in Blocked -> "refused"
                       [] OTHER -> "ok"
       IN  /\ r2c' = Append(r2c, OkFrame(m.ev, answer))
           /\ stored' = IF answer = "ok" THEN stored \cup {m.ev} ELSE stored
           /\ owed' = IF answer = "ok" /\ m.ev \notin stored
                      THEN owed \cup (rSubs \X {m.ev}) ELSE owed
    /\ UNCHANGED <<rAuthed, rSubs, eoseDue>>

RelayReq(m) ==
    /\ m.type = "REQ"
    /\ IF Trusted
       THEN /\ rSubs' = rSubs \cup {m.sub}
            /\ owed' = owed \cup ({m.sub} \X stored)
            /\ eoseDue' = eoseDue \cup {m.sub}
            /\ UNCHANGED r2c
       ELSE /\ r2c' = Append(r2c, ClosedFrame(m.sub, "auth-required"))
            /\ UNCHANGED <<rSubs, owed, eoseDue>>
    /\ UNCHANGED <<stored, rAuthed>>

Forget(i) ==
    /\ rSubs' = rSubs \ {i}
    /\ owed' = {o \in owed : o[1] # i}
    /\ eoseDue' = eoseDue \ {i}

RelayClose(m) ==
    /\ m.type = "CLOSE"
    /\ Forget(m.sub)
    /\ UNCHANGED <<r2c, stored, rAuthed>>

(* It may refuse to authenticate this client.                               *)
RelayAuth(m) ==
    /\ m.type = "AUTH"
    /\ \E answer \in {"refused"} \cup (IF m.challenge = conn THEN {"ok"} ELSE {}) :
          /\ rAuthed' = (rAuthed \/ answer = "ok")
          /\ r2c' = Append(r2c, OkFrame(m.challenge, answer))
    /\ UNCHANGED <<stored, rSubs, owed, eoseDue>>

RelayReads ==
    /\ ws = "open" /\ c2r # <<>>
    /\ c2r' = Tail(c2r)
    /\ \/ RelayEvent(Head(c2r))
       \/ RelayReq(Head(c2r))
       \/ RelayClose(Head(c2r))
       \/ RelayAuth(Head(c2r))
    /\ UNCHANGED <<clientVars>>

RelaySendsEvent(o) ==
    /\ ws = "open" /\ o \in owed
    /\ owed' = owed \ {o}
    /\ r2c' = Append(r2c, EventFrame(o[1], o[2]))
    /\ UNCHANGED <<clientVars, c2r, stored, rAuthed, rSubs, eoseDue>>

RelaySendsEose(i) ==
    /\ ws = "open" /\ i \in eoseDue
    /\ \A o \in owed : o[1] # i
    /\ eoseDue' = eoseDue \ {i}
    /\ r2c' = Append(r2c, EoseFrame(i))
    /\ UNCHANGED <<clientVars, c2r, stored, rAuthed, rSubs, owed>>

(* A relay may send an event again and again.  Bounds: only to queries, for *)
(* which this matters, and only once the client has taken what came before. *)
RelayRepeats(i, e) ==
    /\ ws = "open" /\ i \in rSubs /\ e \in got[i[1]]
    /\ r2c = <<>> /\ queue[i] = <<>>
    /\ r2c' = Append(r2c, EventFrame(i, e))
    /\ UNCHANGED <<clientVars, c2r, relayVars>>

(* Another client publishes, also while this one is disconnected.           *)
OthersPublish(e) ==
    /\ Calls < MaxCalls
    /\ e \notin stored \cup Blocked
    /\ stored' = stored \cup {e}
    /\ owed' = owed \cup (rSubs \X {e})
    /\ UNCHANGED <<clientVars, c2r, r2c, rAuthed, rSubs, eoseDue>>

(* A relay may end a subscription it has accepted.                          *)
RelayDropsSub(i) ==
    /\ ws = "open" /\ i \in rSubs
    /\ Forget(i)
    /\ r2c' = Append(r2c, ClosedFrame(i, "error"))
    /\ UNCHANGED <<clientVars, c2r, stored, rAuthed>>

-----------------------------------------------------------------------------
TaskStep(t) ==
    \/ t \in Publishers /\ PublishAnswered(t)
    \/ t \in Queriers /\ QueryItem(t)
    \/ t \in Subscribers /\ SubscriptionItem(t)
    \/ Authenticate(t) \/ AuthChallenged(t) \/ AuthAnswered(t)
    \/ Resume(t)

RunStep ==
    \/ HandleMessage \/ ReaderStumbles \/ ConnectionLost \/ ConnectFails \/ ConnectOk
    \/ \E i \in SubIds : Resubscribe(i)
    \/ Resubscribed \/ ReaderCrashes

RelayStep ==
    \/ RelayReads
    \/ \E o \in SubIds \X Events : RelaySendsEvent(o)
    \/ \E i \in SubIds : RelaySendsEose(i)

Next ==
    \/ \E p \in Publishers : Publish(p)
    \/ \E q \in Queriers : Query(q)
    \/ \E s \in Subscribers : Subscribe(s) \/ Unsubscribe(s)
    \/ \E t \in Tasks : TaskStep(t) \/ Timeout(t)
    \/ RunStep
    \/ Close
    \/ Drop
    \/ RelayStep
    \/ \E i \in SubIds : RelayDropsSub(i)
    \/ \E i \in Queriers \X {1, 2}, e \in Events : RelayRepeats(i, e)
    \/ \E e \in Foreign : OthersPublish(e)

Spec == Init /\ [][Next]_vars

(* The event loop runs every ready task, consumers keep iterating, a timer  *)
(* of wait_for that is not started again fires, and every connection attempt*)
(* ends, since websockets.connect has a timeout of its own.                 *)
Fairness ==
    /\ \A t \in Tasks : WF_vars(TaskStep(t)) /\ WF_vars(TimerRunsOut(t))
    /\ WF_vars(RunStep)

(* Nothing is assumed of the relay, the link or the callers of close().     *)
FairSpec == Spec /\ Fairness

(* A relay that answers what it receives while the connection is up.        *)
RelayFairness ==
    /\ WF_vars(RelayReads)
    /\ \A i \in SubIds : WF_vars(RelaySendsEose(i))
    /\ \A o \in SubIds \X Events : WF_vars(RelaySendsEvent(o))

-----------------------------------------------------------------------------
(* Safety.                                                                  *)

(* publish() returns normally only if the relay has accepted the event: no  *)
(* answer to another call, of another connection or to an authentication is *)
(* taken for its OK (_publish_signed, _handle_message).                     *)
PublishedMeansStored ==
    \A p \in Publishers : result[p] = "ok" => EventOf[p] \in stored

(* query() returns normally only with every verified event the relay held   *)
(* when it was called: a drop, an authentication and its retry, or a timeout*)
(* never turns into a shorter list (_query_scoped).                         *)
QueryIsComplete ==
    \A q \in Queriers : result[q] = "ok" => atStart[q] \subseteq got[q]

(* No caller is handed an event that the relay never accepted or that does  *)
(* not verify (_handle_event).                                              *)
DeliveredIsVerified ==
    \A t \in Tasks : got[t] \subseteq stored \ Forged

(* _authed is never left over from an earlier connection: a client that     *)
(* believes it is authenticated would answer auth-required by doing nothing *)
(* (_authenticate, _reconnect).                                             *)
AuthedMeansRelayAuthed ==
    ws = "open" /\ authed => rAuthed

(* An AUTH event answers the challenge of the connection it is sent on.     *)
AnswersFreshChallenge ==
    \A i \in 1..Len(c2r) : c2r[i].type = "AUTH" => c2r[i].challenge = conn

(* One task authenticates at a time, and it holds _auth_lock.               *)
OneAuthenticates ==
    \A t \in Tasks : pc[t] \in {"authChallenge", "authOk"} =>
        authLock # <<>> /\ authLock[1] = t

(* Whoever waits for an OK is the task that OK will wake, and whoever waits *)
(* for a challenge is in the list that the next one wakes.  A call that has *)
(* ended has left the subscriptions, _pending_ok and the lock: no answer    *)
(* goes to it, nobody waits for it (the finally blocks).  Only the future of*)
(* a challenge that timed out stays in _auth_waiters.  Two calls publishing *)
(* one event share an id and are excluded here: see the README.             *)
AnswersFindTheirTask ==
    /\ \A t \in Tasks : pc[t] = "awaitOk" /\ fut[t] = "pending" =>
          pendingOk[EventOf[t]] = t
    /\ \A t \in Tasks : pc[t] = "authOk" /\ fut[t] = "pending" =>
          pendingOk[answering[t]] = t
    /\ \A t \in Tasks : pc[t] = "authChallenge" /\ fut[t] = "pending" =>
          t \in authWaiters
    /\ \A t \in Tasks : pc[t] = "done" =>
          /\ Reqs(t) = {}
          /\ \A id \in Ids : pendingOk[id] # t
          /\ \A k \in 1..Len(authLock) : authLock[k] # t

(* While the reader runs on an open connection, a subscription that waits   *)
(* for items is open at the relay, or is about to be, or its refusal is on  *)
(* its way to the subscriber: a reconnect or an authentication never        *)
(* silently loses it (subscribe, _reconnect).                               *)
ClosedFor(frames, i) ==
    \E k \in 1..Len(frames) : frames[k].type = "CLOSED" /\ frames[k].sub = i

RequestedIn(frames, i) ==
    \E k \in 1..Len(frames) : frames[k].type = "REQ" /\ frames[k].sub = i

SubscriptionNotLost ==
    \A s \in Subscribers :
        pc[s] = "listen" /\ ws = "open" /\ run \in {"reading", "resubscribing"} =>
            \/ <<s, 1>> \in rSubs \cup resub
            \/ RequestedIn(c2r, <<s, 1>>)
            \/ ClosedFor(r2c, <<s, 1>>)
            \/ ClosedFor(queue[<<s, 1>>], <<s, 1>>)

-----------------------------------------------------------------------------
(* Refinement.  A call is pending from its first step to its last; what a   *)
(* query has collected is handed over when it returns, what a subscription  *)
(* yields is handed over at once.                                           *)
Phase(t) ==
    CASE pc[t] = "idle" -> "idle"
      [] pc[t] = "done" -> "done"
      [] OTHER -> "pending"

HandedOver(t) == IF t \in Queriers /\ result[t] # "ok" THEN {} ELSE got[t]

Port == INSTANCE RelayPort WITH
    log <- stored,
    phase <- [t \in Tasks |-> Phase(t)],
    outcome <- result,
    known <- atStart,
    delivered <- [t \in Tasks |-> HandedOver(t)]

(* The client keeps what RelayPort promises: each call returns once; a      *)
(* publish only after its event was accepted, a query only with all it had  *)
(* to find; nothing is handed over that is not verified and at the relay;   *)
(* and the relay only ever gains what a call or another client published.   *)
PortSpec == Port!PortSpec

-----------------------------------------------------------------------------
(* Liveness.                                                                *)

(* Every publish returns, whatever the relay, the link and the reader do:   *)
(* each wait has a timer and the lock is always released.  So does every    *)
(* query, but for one that is sent items for ever: its timer starts again   *)
(* with each of them (_query_scoped).                                       *)
Starved(q) == <>[](\A i \in SubsOf(q) : queue[i] = <<>>)

CallsReturn ==
    /\ \A p \in Publishers : pc[p] # "idle" ~> pc[p] = "done"
    /\ \A q \in Queriers : Starved(q) => (pc[q] # "idle" ~> pc[q] = "done")

(* A subscriber that is waiting when the client gives up reconnecting does  *)
(* not wait for ever (_fail_pending).                                       *)
GiveUpReleases ==
    \A s \in Subscribers :
        run = "connecting" /\ pc[s] = "listen" ~>
            pc[s] = "done" \/ run \in {"resubscribing", "crashed", "cancelled"}

(* A relay that answers being assumed, a verified event it holds reaches    *)
(* every subscription open there, unless the subscription or the connection *)
(* ends first: one published while it is open, one stored before, and, since*)
(* a reconnect sends the REQ again with the filters it had, one stored while*)
(* the client was away (_handle_event, subscribe, _reconnect; the README    *)
(* compares this with what relay.py:18-23 says).                            *)
EventsReachSubscribers ==
    RelayFairness => \A s \in Subscribers : \A e \in Events \ Forged :
        e \in stored /\ <<s, 1>> \in rSubs /\ run = "reading" ~>
            e \in got[s] \/ <<s, 1>> \notin rSubs \/ run # "reading"

(* With such a relay and a connection that stays up and is read, a waiting  *)
(* subscription becomes open at the relay, through as many authentications  *)
(* as that takes (subscribe, _authenticate).                                *)
SubscriptionOpens ==
    RelayFairness => \A s \in Subscribers :
        pc[s] = "listen" /\ ws = "open" ~>
            \/ <<s, 1>> \in rSubs \/ pc[s] = "done"
            \/ ws # "open" \/ run \notin {"reading", "resubscribing"}

-----------------------------------------------------------------------------
(* What the documentation says and the code does not do.                    *)

(* _fail_pending, relay.py:397-402: callers iterating a subscription when   *)
(* reconnection is abandoned get an error rather than hanging for ever.  The*)
(* reader also abandons it by crashing.                                     *)
AbandonedMeansReleased ==
    \A s \in Subscribers :
        run \in {"gaveUp", "crashed"} /\ pc[s] = "listen" ~> pc[s] = "done"

(* The same docstring: the error they get is the RelayError of _reconnect.  *)
GiveUpErrorIsRelayError ==
    [][\A s \in Subscribers :
         run = "gaveUp" /\ SubscriptionItem(s) /\ pc'[s] = "done" =>
            result'[s] = "relayError"]_vars
=============================================================================
