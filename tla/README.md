# Lindenmayer in TLA+

TLA+ models of the stateful parts of *lindenmayer* (a Nostr-based platform for
trees of agents): the relay client, the bridge that publishes a Fractal
database, the counting of approvals, attestation and its revocation, the wire
formats of the custom kinds, and the template registry; checked by TLC on small
instances, and proved about with TLAPS for instances of every size. Source paths
below are relative to `src/lindenmayer/` of the repository.

## 1. Inventory of the system

| Part | State it keeps | Operations | Interacts with |
|---|---|---|---|
| `core/relay.py` `RelayClient` | websocket, reader task, `_pending_ok`, `_sub_queues`, `_live_sub_filters`, `_authed`, `_pending_challenge`, `_auth_waiters`, `_auth_lock` | `connect`, `close`, `publish`, `query`, `subscribe`; internally `_authenticate`, `_run`, `_reconnect`, `_fail_pending`, `_handle_message` | one relay, by frames over a websocket; its callers, by futures and queues |
| `core/event.py`, `core/keys.py` | none (immutable values) | build, parse, `verify`, sign | everything |
| `core/verify.py`, approvals | the dict `latest` during a call | `count_approvals`, `is_approved` | events of a query |
| `core/verify.py`, attestation | none | `validate_attestation`, `attestation_state`, `filter_attested` | revocation sets of the caller, events of a query |
| `core/kinds/` | none | `to_event`, `from_event`, `parse_event` | bridge, registry, other writers of the same kinds |
| `core/config.py` | configuration read once | `from_toml`, `load_keypair` | relay client (capability gates), bridge |
| `bridge/cli.py` | one pass: nodes, `events`, the variable `keypair` | `_bridge_main` | Fractal's SQLite, identity, publisher |
| `bridge/publisher.py` | `_published_event_ids` | `resume_from_relay`, `publish_event(s)` | `RelayClient.query`, `publish` |
| `bridge/identity.py` | files of the operator | `load_node_keypair`, `refuse_if_revoked` | bridge |
| `bridge/translate.py`, `bridge/adapters/` | none | rows to models; SQL reads | bridge |
| `registry/publisher.py`, `registry/cli.py` | the template being published | `extract_template_info`, `build_version_event`, `build_pointer_event`, `_cmd_publish` | the working tree, git, `RelayClient.publish` |
| `registry/reader.py`, `registry/linkage.py` | none | `get_version_history`, `get_current_pointer`, `resolve_linkage`, `validate_against_version` | `RelayClient.query`, attestation |

What makes each part correct, and what is hard about it:

* **RelayClient.** Many coroutines and one reader share tables of futures and
  queues, with a lock, timeouts, a retry after NIP-42 authentication, drops at
  any frame, and a reconnect that resets some of the state and reissues
  subscriptions. A result must never be a lie (published, complete,
  verified), an answer must wake the call it belongs to, authentication state
  must not outlive its connection, a subscription must not be lost, and no call
  may hang.
* **Bridge.** A pass reads the database several times while Fractal writes,
  signs under keys that the operator may change, and publishes with the relay as
  its only memory; it may be killed or cut off anywhere. Every finished run must
  reach the relay, under a key of its node unless that key is revoked, and nothing
  else may.
* **Approvals.** The same events in any order, repeated, mixed with noise, must
  give every reader the same final word, and the gate must count only standing
  approvals of the required approvers.
* **Attestation.** A reader judges events with revocation sets that lag behind,
  against signatures that anyone may have copied from another event. It must keep
  exactly what those sets allow, and never take back what it dropped.
* **Kinds.** The same wire shapes are read and written in several places by
  hand, and by other writers. Two readers of one event must not see two facts.
* **Registry.** A version and the pointer to it are two events, published from a
  tree that changes meanwhile, by a command that may be refused, cut off or
  killed, stamped with commit times that may go back. Readers must find what was
  published, follow the newest pointer, and never resolve a linkage line to
  another version than before.

## 2. Modules

| Module | Models |
|---|---|
| `RelayClient` | `core/relay.py`, with the relay and the link as environment |
| `RelayPort` | the abstract connection: what `core/relay.py` promises its callers |
| `RelayClientProofs` | the inductive invariant of `RelayClient`: types, mutual exclusion, and that what a caller is told is true |
| `RelayClientTables` | proofs that challenges, futures and subscriptions stay in step with the connection |
| `RelayClientDelivery` | proofs about what callers are handed, and that `RelayClient` implements `RelayPort` |
| `MCRelayClient` | constants of its instances |
| `Bridge`, `MCBridge` | `bridge/cli.py`, `publisher.py`, `identity.py`, the parts of `translate.py` and `adapters/sqlite.py` it uses |
| `BridgeProofs` | its inductive invariant and theorems |
| `Approvals`, `MCApprovals` | `count_approvals`, `is_approved` |
| `ApprovalsProofs` | their inductive invariant and theorems |
| `Attestation`, `MCAttestation` | `validate_attestation`, `attestation_state`, `filter_attested`, with owners, authors and readers |
| `AttestationProofs` | their inductive invariant and theorems |
| `Kinds` | `core/kinds/` and the registry's and the gate's own reading of the same events |
| `KindsProofs` | theorems about single events, and about events that others change |
| `Registry`, `MCRegistry` | `registry/`: the publish command, the readers, linkage lines |
| `RegistryProofs` | their inductive invariant and theorems |

A definition followed by another one marked *Slip* is a plausible mistake in
that piece of code. `PROJECT.json` lists, for every property, the slip that
breaks it.

### RelayClient

Tasks of one asyncio loop never run in parallel: a step is what a task does
from one suspending `await` to the next. `pc[t]` names the await a task is at:

| `pc` | await |
|---|---|
| `awaitOk` | `wait_for(fut)` in `_publish_signed` |
| `collect` | `wait_for(queue.get())` in `_query_scoped` |
| `listen` | `queue.get()` in `subscribe`, or its `yield` |
| `authLock` | `async with self._auth_lock` |
| `authChallenge`, `authOk` | the two waits of `_authenticate` |
| `resume` | back from `_authenticate`, before the call is repeated |

and `run` where the reader is: reading, in `websockets.connect`, in the loop
that resubscribes, given up, crashed (an exception left `_run`), or cancelled.
`Leave` is the way out of a call by return or exception; it runs every `finally`
and `async with` around the call: ids popped, queue removed, `CLOSE` sent, lock
released. The one thing it leaves behind is the future of a challenge that timed
out: `_authenticate` has no `finally` around that wait (`relay.py:324-326`), so
the task stays in `authWaiters`, as the done future stays in `_auth_waiters`, until the
next challenge or `_fail_pending`; `PendingWaiters` are the others. `subs`/`queue` are `_sub_queues` (keys and
contents), `pendingOk` is `_pending_ok` with futures represented by the task
that awaits them, and `fut` the result such a future has received.

Abstractions, all of them deliberate:

* The challenge of the n-th connection is n, and n is also the id of the event
  that answers it. Event ids are never numbers.
* `send` on an open websocket does not suspend. On a dead one it raises
  `ConnectionClosed`, which is no `RelayError`; on `None`, `RelayError`.
* `ConnectOk` waits until the tasks that the previous connection has woken with
  an answer or an item have run. This is no guard of the code but a fact of the
  event loop: `websockets.connect` returns after several network round trips, each of
  them at least one turn of the loop, and asyncio runs in each turn every task that
  was ready at its beginning. Without it, a task holding the OK of the previous
  connection could set `_authed` after the reset, which the program cannot do. Lock
  waiters and calls about to be repeated may still be on their way.
* Resubscription takes the live subscriptions in any order.
* The timer of an operation may fire at any moment of its wait. That it must fire at
  some time is assumed only while it runs: a query's timer is started again by every
  item (`TimerRunsOut`, `relay.py:232`).
* `close()` is one step. A relay sends an event to each subscription open when it
  was accepted and to each opened later. It may repeat what it has sent to a query
  without end (`RelayRepeats`), end a subscription, refuse an authentication, and
  receive events of other clients also while this one is disconnected
  (`OthersPublish`).
* Frames that the code drops (no JSON, no list, an event that does not parse, NOTICE)
  change nothing and are left out. A frame on which the handler raises is another
  matter: `event.verify()` cannot encode a lone surrogate (`event.py:35-39`), and a
  dict lookup raises on an unhashable subscription or event id. `_run` takes the
  exception for a lost connection (`relay.py:365`) and reconnects
  (`ReaderStumbles`) without closing the old websocket. `Unreadable` events stand for all
  such frames; what is still on its way on the abandoned connection counts as lost,
  and what is sent on it before the new one is up may still be handled by the relay.
* Not modelled: the gates that raise before anything changes (private
  capability, group tag, unsigned event), `connect()` called again on a closed
  client.

`RelayPort` says the same of a call with no connection in sight: it is made once,
takes effect while it is pending (a publish perhaps after the call gave up), and
returns once, with an answer that what the relay holds justifies. `RelayClient`
implements it (`PortSpec`) under the mapping `Port`: a call is pending from its first
await to its last, the relay's log is `stored`, what a subscriber was handed is `got`,
and what a querier was handed is `got` once it has returned "ok".

### Bridge

A pass is a process whose memory is `pass`: the nodes read at the start, the nodes
still to scan, the variable `keypair` that both loops rebind, the signed events,
the position in them and `_published_event_ids`. An event is the record of its
kind, run and key: its id is a function of these because its content and
timestamps come from the run's row (`publisher.py:6-8`, `cli.py:155,183`). The
relay's policy is the set `Banned`. Of the client, `Bridge` uses what
`RelayClient` is checked to promise: a normal return of `publish` means stored
(`PublishedMeansStored`), of `query` complete (`QueryIsComplete`); an exception
of `publish` leaves it open whether the event was stored.

### Approvals

One step of a reader is one iteration of the loop of `count_approvals`; events
come in any order, any number of times. The model keeps tags as far as the code
looks at them: the values of the verdict tags, the ids of the `e` tags, and
whether `verify()` holds.

### Attestation

Owners sign attestations, authors write events and attach any signature that has
been made to any tag, keys are revoked, and readers refresh their sets and call
`filter_attested` at times of their own. A signature is ideal: it is the triple of
owner, agent and conditions it was made for. Conditions are sequences of clauses
with their numbers, compared and range-checked as the code does. Which check fails
first only decides the reason reported, with one exception: conditions whose number
`int()` cannot read (Python's limit is 4300 digits, `IntMax` here) raise `ValueError` out
of `validate_attestation`, if the checks before them pass, and then `filter_attested`
returns nothing for any event (`TagRaises`, `Read`). The model keeps the four
outcomes. The
meaning of the checks is stated a second time, declaratively (`Trustworthy`), and
the properties compare the two.

### Kinds

The eight models are rows of `Schema`: which fields travel in tags, in which order,
which in the content, and what pydantic accepts for each (strict for
identifiers, coercing for numbers). An event starts as the code writes it and
other writers may then change it: drop a tag, add one in front or behind, set or
drop a content field, replace the content, change the kind. The readers are
`Parse` (`from_event`), `ReadVersion` and `ReadPointer` (the registry's reader),
`VerdictValue` (the approval gate).

### Registry

A publisher reads the README (`Start`, or `StartRaises` when there is none), asks git for the last commit of the
template (`Extract`), then publishes two events, and may fail before or after
the relay has stored one (`PublishRaises`), or be killed (`Crash`); a retry is
another publisher. Meanwhile the tree is edited and committed to (one commit may
touch several templates), the relay may drop dominated pointers (`Collapse`) or
not, and the author may write version events, and pointers without an `e` tag, with
other tools; the first can make the history raise, the second the current pointer
(`HistoryRaises`, `PointerRaises`). A pointer that does not verify never comes out of
a query (`DeliveredIsVerified`), so the check of `reader.py:167` is not reached here.
Readers keep no state: a read is a function of what the relay has. No code in `src/`
hands the result of `get_version_history` to `resolve_linkage`; that composition
(`ResolveLinkage`) is the model's, of the two functions as they are documented. Ids are hashes, so a tie that the
code breaks by id is broken either way. `#template_name` is no single-letter
filter, so an answer may or may not be restricted to the template (`Answer`).

## 3. Runs

| Run | Bounds | Shows |
|---|---|---|
| `relay_safety` | 2 publishers (the relay refuses the event of one), 1 query, 1 subscription; 2 calls, or 1 call and an event of another client on which the reader stumbles; 2 connections, 2 attempts; a relay that demands authentication, may refuse it, and holds a forged event | no misrouted answer, no false result, no stale authentication, no lost subscription, mutual exclusion; `RelayPort` is implemented |
| `relay_liveness` | 1 publisher, 1 query, 1 subscription; 2 calls, or 1 call and an event of another client; 2 connections, 2 attempts | publishes return, and queries that are not sent items for ever; giving up releases the subscribers; with a relay that answers, subscriptions open and events arrive, those of a reconnect gap included |
| `relay_hang` (violation) | one subscription | finding 1 |
| `relay_give_up_error` (violation) | one subscription | finding 2 |
| `bridge` | 2 nodes, 2 runs, a secret file that appears, a key that is revoked, 2 failures | 7 safety and 2 liveness properties of passes |
| `bridge_resend`, `bridge_revoked`, `bridge_gap` (violations) | the smallest instance that shows it | findings 3 to 5 |
| `approvals` | 2 readers, 7 events of 2 approvers: a tie, a forged, an ambiguous and a misdirected verdict | order independence and the gate |
| `attestation` | 2 keys that own and act, 2 grants, 1 event, 2 revocations, 1 reader; clauses that hold, fail, are out of range and cannot be read; made-up, misplaced and malformed tags | labels are earned, a reader keeps exactly what its sets allow, and takes nothing back |
| `kinds` | every event the code writes for a sample of each field, and every event within 2 changes of one | round trip, and agreement of the readers of one event |
| `registry` | 2 template names, 1 with a directory, 1 author, 2 publish commands, 2 commits, 2 commit times, a README that may be missing, 5 kinds of foreign version events and a pointer without an `e` tag, of which 1 is written | no dangling pointer, no second event of a release, the newest pointer, stable linkage lines |

Why the bounds are enough: two concurrent calls are what it takes to misroute an
answer or to contend for the lock, and a third adds a second waiter of the same
lock only; two connections let every piece of state be stale exactly once. `MaxCalls`
counts the events of other clients too, because each of them is an actor that can
come between two steps of a call. `RelayRepeats` repeats only to queries, whose timer
is what it matters for, and only when the client has taken what came before: enough for
an endless behaviour, with a finite number of states. Two
nodes make "the last node's key" differ from another, two runs make "the latest
run" differ from an earlier one, two failures are a crash and a failed query of
the pass that follows it. `filter_attested` judges each event alone, so one event
shows every judgement; two keys are an owner and an agent, either of which may
also attest the other; a second grant is a later attestation with other conditions;
two revocations can hit the owner and the agent of one event, in either order. Two
changes put a duplicate or a foreign tag in front of each tag and spoil the
content at the same time. Two publish commands are a first try and its retry, or
two versions whose commit times are out of order. What is proved (section 5) does
not depend on the bounds.

**Fairness.** `Fairness` of `RelayClient`: the event loop runs ready tasks, a
timer of `wait_for` fires unless it is started again and again (`TimerRunsOut` is
continuously enabled for a query only while its queue stays empty), and each
connection attempt ends (`websockets.connect`
has an open timeout). It is weak fairness per task, because asyncio's ready
queue is FIFO; for a subscriber it includes that its consumer asks for the next
item, without which no generator makes progress. Nothing is assumed of the relay,
the network or callers of `close()`. So `CallsReturn` has an exception it states:
a query that is sent items for ever (`Starved` says that it is not) never returns.
The two properties that cannot hold without a
relay say so: `EventsReachSubscribers` and `SubscriptionOpens` are implications
from `RelayFairness`, that the relay handles frames while the link is up.
`FairSpec` of `Bridge`: the operator keeps starting passes and a running process
goes on; failures are bounded. Nothing is claimed to happen eventually in the other
modules: readers and publish commands run when somebody runs them.

Deadlock is checked unless a configuration says otherwise. The relay
configurations do, because a client whose calls have all returned may rest;
`kinds`, `attestation` and `registry` do, because they end when their bounds
are used up.

## 4. Findings

1. `_fail_pending` promises that no caller hangs when reconnection is abandoned
   (`core/relay.py:399-401`), but `_run` calls it for `RelayError` only
   (371-376). A refused handshake, or a connection that dies while
   `_reconnect` resubscribes (390-391), ends the reader by another exception.
2. The error subscribers get when the client gives up is not the `RelayError`
   the docstring speaks of: `CLOSE` on a dead websocket raises
   `ConnectionClosed` from the `finally` (283-284), which suppresses
   `RelayError` only.
3. The bridge resumes for one node only (`bridge/cli.py:138,162,191`), against
   `bridge/publisher.py:3-4` and `wiki/bridge_implementation.md:144`. The relay
   drops the duplicates by id, so what is lost is the promise, not data.
4. The accounting loop never asks whether a key is revoked
   (`bridge/cli.py:160-185`), against `bridge/identity.py:4-6`.
5. One refused event blocks the events behind it for ever
   (`bridge/publisher.py:107-121`), against `publisher.py:129`.

Met while modelling, and left as they are because the model reproduces what the code
does and no property claims otherwise:

* `relay.py:18-23` says that events of a reconnect gap "are not replayed or buffered".
  The client indeed buffers nothing; but it reissues `REQ` with the filters the
  subscription had (390-391), so a relay that answers serves the stored events
  again, those of the gap among them. `EventsReachSubscribers` states this, and the
  run has an event that is stored while the client is away. Callers get more than
  the docstring promises, and get some events twice.
* A run whose clock went back ends every pass: its negative duration is rejected by
  `RunAccounting` (`bridge/translate.py:92`), and no event of any node is published
  any more, against "all events reach the relay eventually" (`publisher.py:129`).
  `AccountingReachesRelay` and `LifecycleReachesRelay` except it openly.
* `docs/kinds/nip-oa-attestation.md:122` says that attestations are never revoked and
  that "a new attestation can revoke a prior one by including newer conditions". The
  code judges each event by the tag it carries alone and by the revocation sets it is
  given; nothing an owner signs later changes the verdict on an event, which is what
  `KeptIffTrustworthy` states, with later attestations in the run.
* `int()` of a number with more than 4300 digits raises `ValueError`
  (`core/verify.py:102`) before any signature is checked, so a single event makes
  `filter_attested` raise for all; its docstring (`verify.py:305-326`) does not mention
  exceptions.
* A frame on which the handler raises makes the client reconnect and leaves the old
  websocket open (`relay.py:365-372`). When it then gives up, the websocket is not
  closed either, and a subscription begun afterwards could be sent on it and would
  never be answered: no property claims its release.
* `docs/kinds/38150-template-pointer.md:53` says that after a publish clients
  "instantly see the new one". A pointer carries the time of its commit
  (`registry/publisher.py:173`), and one with a later time stays ahead of it
  (`registry/reader.py:165`): a clock that was behind, or another branch checked out,
  makes a new release invisible. `PublishedIsReadable` states what holds instead.
* `docs/kinds/42050-template-version.md:9` speaks of a history ordered by `created_at`;
  the reader orders by version (`registry/reader.py:128-132`).
* The sort key "falls back to lexical sort" (`registry/reader.py:181`), but a
  history that mixes numeric and other versions compares numbers with text and
  raises `TypeError`. A content that is JSON and no object raises too. In the model
  such a history is unreadable.
* A version event without `git_ref` is read with the empty string
  (`registry/reader.py:120`), which every sha starts with, so it validates every
  linkage line of its version (`registry/linkage.py:127`).
* `ApprovalVerdict.from_event` takes the first of several verdict tags, the gate
  refuses to count such an event; `SameVerdict` says that they never disagree on a
  verdict that both accept.

## 5. Proofs

`RelayClientProofs` proves, for any sets of tasks and events and any bounds,
from the assumptions `TasksAssumption`, `EventsAssumption` and
`BoundsAssumption` of `RelayClient`:

* `TypeCorrect`: `Spec => []TypeOK`
* `OneAtATime`: `Spec => []OneAuthenticates`
* `PublishIsHonest`: `Spec => []PublishedMeansStored`
* `AuthIsHonest`: `Spec => []AuthedMeansRelayAuthed`

`TypeOK` and `OneAuthenticates` are not inductive. The strengthening `IInv` adds
`AttemptsLeft` (a client that is connecting has an attempt left) and
`Waiting`: the future registered under an id in `_pending_ok` is awaited by
exactly the call that the id belongs to, a pending one in `_auth_waiters` by a call
that has no challenge yet (a done one may be left over from a timeout), and a task that awaits no future has none that is done. The
proof has one lemma per action; the steps of a call share `Kept`, which says
what a task may do to itself and that it leaves the others alone.

The last two follow an OK from the relay to where it is believed.
`PublishInv` says that an OK for an event on the link, and one a publish
has received, is of a stored event; `AuthInv` that as long as the relay has
not authenticated the connection, no OK of an authentication is on the link or in
a future, and `_authed` is not set. `Answering` bounds what any step but
`ConnectOk` does to these legs; `ConnectOk` is where the reset of
`_reconnect`, and the fact that no woken task is left, are needed.

`RelayClientTables` proves, from the same assumptions:

* `FreshChallenge`: `Spec => []AnswersFreshChallenge`
* `NoSubscriptionLost`: `Spec => []SubscriptionNotLost`
* `AnswersFound`: `Spec => []AnswersFindTheirTask`, if no two calls publish one event

A step of a call has one of nine shapes (`CallShape`: it leaves, asks for
authentication, publishes, queries, subscribes, sends AUTH, goes on, awaits a
challenge, takes an item), and an invariant is kept shape by shape, then by the
steps of the reader, the link and the relay. `FreshInv` follows a challenge
through the link and the client: only that of the connection there is may be kept, on
its way or being answered. `LockInv`, `FutureInv` and `SubsInv` say
which table every waiting call is in, and that a call that has ended has left the
subscriptions, `_pending_ok` and the lock (but perhaps not `_auth_waiters`).
`SubscriptionNotLost` itself is inductive once they are known; its proof goes
through all the ways in which a subscription can be open, about to be opened, or
about to hear that it is not (`Open`).

`AnswersFound` has the hypothesis `DistinctEvents`, and the code needs it: two calls
that publish one event share a key of `_pending_ok` (`core/relay.py:194`), the
second future replaces the first, and the first call waits for its timeout. The
instance of `relay_safety` satisfies it.

`RelayClientDelivery` proves, from the same assumptions:

* `VerifiedDelivery`: `Spec => []DeliveredIsVerified`
* `CompleteQueries`: `Spec => []QueryIsComplete`
* `ImplementsPort`: `Spec => PortSpec`, the refinement

`VerifiedDelivery` follows an event from the relay's debt (`owed`) over the link and
the queue to the caller (`DataInv`). For `CompleteQueries` the order on that way
matters, because an EOSE must not overtake an event. `Covered` has a part for each
leg: wherever an EOSE of a query's current subscription is (in its queue, on the
link, or still to be sent), every event the query has to find is with the caller or in front
of that EOSE. Before a query is called, and before it is repeated, no EOSE of the
subscription it will open is anywhere (`Fresh`), so the answer to an earlier
attempt cannot end a later one. `ImplementsPort` maps every
step to a step of `RelayPort` or a stutter (`PortStep`): a call's first step is
`Call`, its last `Return`, which is where `QueryIsComplete`,
`DeliveredIsVerified` and `PublishedMeansStored` are used, and every other step changes at
most the relay's log or what a subscriber has been handed.

`BridgeProofs` proves, for any numbers of nodes, runs and failures, any set of
refused events and any configured key, from `BridgeAssumption`:

* `TypeCorrect`: `Spec => []TypeOK`
* `CursorHonest`: `Spec => []CursorIsHonest`
* `ResumedNotResent`: `Spec => []NoResendOfResumedKey`
* `EveryRunSigned`: `Spec => []BatchHasEveryRun`
* `AnnouncedIsRolledUp`: `Spec => []LifecycleHasAccounting`
* `EventsAuthored`: `Spec => []AuthoredByItsNode`
* `RevokedNotAnnounced`: `Spec => []LifecycleRefusedIfRevoked`

The inductive invariant says that what a pass remembers of the world is a part of
the world (`PassBehind`), that every event signed or stored is of a finished run
under a key of the node that ran it (`EventsOwned`), that a run due for a
rollup has one or its node is still to be read (`DueIsRead`, the invariant
behind both loops), and what the cursor may claim before and after
`resume_from_relay` (`CursorAtRest`, `ResumedKnowsAll`). `DueIsRead` has to speak
of runs that end during the pass: one becomes due when the first loop announces
it, and the second loop still has its node to read. That a node's runs are signed
in order, and all of them, rests on `AscendingLists` and `ExtremesExist`, which
are proved with the ranks of a finite set of numbers instead of an induction over
it.

`KindsProofs` proves, for any number of changes by other writers:

* `WrittenIsRead`: every model, of every kind and with any values that it accepts
  and leaves as they are, is read back from the event written from it
* `VersionByHand`: the registry's hand-built version event is tag for tag that of
  the model, for any values
* `RoundTripHolds`: `Spec => []RoundTrip`
* `RegistryReadsTheSame`: `Spec => []RegistryAgrees`
* `VerdictsAgree`: `Spec => []SameVerdict`

`TagsWritten` gives the tags of a written event as a set, `FirstWritten` what a
reader finds first among them; both hold because no two fields of a kind have one
name. The invariant is little: the tags of an event are a list, and an event that
nobody has changed is read as its source. Agreement of the readers holds of every
event whatsoever, reached or not; only counting the verdict tags needs the list to be
finite.

`ApprovalsProofs` proves, for any log, any readers and approvers, any threshold:

* `TypeCorrect`: `Spec => []TypeOK`
* `FinalWord`: `Spec => []LatestIsFinalWord`
* `Agreement`: `Spec => []ReadersAgree`
* `GateIsSound`: `Spec => []GateNeedsStandingApprovals`

from `ReadersAssumption`, `LogAssumption` and `IdsAssumption` (events that
verify and share an id are equal: the id is a hash of the rest). The inductive
invariant is that a reader's dict holds the final word of what it has read,
together with the counts of the last return; agreement follows because the final
word of a set of verdicts is unique, which is where `IdsAssumption` is needed.

`AttestationProofs` proves, for any keys, conditions, readers and events, from
`SignaturesAssumption`, `ShortAssumption` and `ConditionsAssumption`:

* `TypeCorrect`: `Spec => []TypeOK`
* `AttestedIsGranted`: `Spec => []AttestedMeansGranted`
* `KeepsTheTrustworthy`: `Spec => []KeptIffTrustworthy`
* `DroppedForGood`: `Spec => NothingTakenBack`

The lemma `Judgement` shows, without reference to any behaviour, that the checks of
`attestation_state` decide exactly `Trustworthy`. `KeptIffTrustworthy` is not
inductive: an attestation made after an event was judged could make it trustworthy.
`SignaturesSeen` (an event carries only signatures made before it) excludes that
(`GrantsDoNotReachBack`). `SetsGrow` (the sets used are no larger than those
known, and those no larger than what is revoked) gives `NothingTakenBack`. The
instance has one event and one reader; the theorems have any number.

`RegistryProofs` proves, for any templates, authors, publishers, commits and foreign
events, from `ShasAssumption` (a reference determines its commit) and
`InputsAssumption`:

* `TypeCorrect`: `Spec => []TypeOK`
* `PointersResolve`: `Spec => []PointerResolves`
* `OneRelease`: `Spec => []OneEventPerRelease`
* `FollowsNewest`: `Spec => []CurrentIsNewest`
* `SuccessIsReadable`: `Spec => []PublishedIsReadable`
* `LinkagesStable`: `Spec => LinkageIsStable`

The inductive invariant has four ideas. `Progress` says what each step of
`_cmd_publish` has left at the relay, so a pointer follows its version.
`HeadsAgree` and `EventsDated` say that a reference determines the time of its
commit, for the heads of all templates and for every event built so far, so a
republished release is the same event. `NewestKept` says that the relay still has
one of the newest pointers of each author and template, whatever it has dropped.
The history is finite and only grows; `LongerHistory` compares the outcome of a
linkage line against a history and a longer one.

Every invariant and every action property of the passing runs is stated by one of these
theorems, and so is the refinement. Only model-checked: the liveness properties
of `RelayClient` and `Bridge`, because the prover handles neither fairness nor
`ENABLED`. They hold for the bounds of section 3.

The modules without theorems of their own are the `MC` modules, which only give
constants their values, and `RelayPort`, whose properties are what
`RelayClient` is shown to implement.

## 6. Not modelled

* Cryptography and serialization (`core/event.py`, `core/keys.py`): a flag, an ideal
  signature or a set of forged events in the modules that depend on it.
* Configuration parsing and capability tokens (`core/config.py`): read once before
  anything runs.
* In the relay client: `connect()` again after `close()`, the gates that raise before
  anything changes, the frames that the code drops.
* In the registry: the order of a history, the list command, the parsing of
  linkage lines out of text; they format or read text and decide nothing else.
* The transcript adapter (never called by the bridge), the translations and
  queries the bridge never calls, command lines and logging, relay policies other
  than a set of refused events.
* Tests, documentation, transcripts and node contracts (`tests/`, `docs/`,
  `transcripts/`, `tree/`, `wiki/`).

## 7. Plan

1. *Done:* `RelayClient` with its safety, liveness and first theorems; `Bridge`;
   `Approvals` with its theorems.
2. *Done:* `Attestation` and `Registry` with their theorems; `Kinds`; `RelayPort` and
   the refinement of `RelayClient`.
3. *Done:* the remaining safety invariants of `RelayClient` and, from them, the
   refinement `PortSpec`; the invariants of `Bridge`, `Approvals` and `Kinds`.
4. `Bridge` over `RelayPort` instead of its own client actions, so that what a pass
   relies on and what the client is proved to give are one text.
