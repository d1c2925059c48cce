------------------------------- MODULE Bridge -------------------------------
(***************************************************************************)
(* The bridge: passes of lindenmayer-bridge over a Fractal database, each a*)
(* process that reads the rows of finished runs, signs one event for each  *)
(* and publishes them through a RelayClient, with the relay as its only    *)
(* memory (bridge/cli.py, publisher.py, identity.py, translate.py,         *)
(* adapters/sqlite.py).                                                    *)
(*                                                                         *)
(* Fractal, the operator's key and revocation files and the relay change   *)
(* while a pass runs.  An event's id is a function of the node's key, the  *)
(* run and the kind (its timestamps come from the run's row), so an event  *)
(* is that record.  Of RelayClient only what publish() and query() promise *)
(* is used: a normal return of publish means stored, of query everything   *)
(* stored under the author asked for (RelayClient!PublishedMeansStored,    *)
(* RelayClient!QueryIsComplete).                                           *)
(***************************************************************************)
EXTENDS Integers, Sequences, FiniteSets, FiniteSetsExt

CONSTANTS
    N,         (* nodes are 1..N, in the order of their names                *)
    MaxRuns,   (* bound: runs Fractal starts in a behaviour                  *)
    FileKeys,  (* nodes whose secret file the operator may install           *)
    Revocable, (* keys whose attestation may be revoked or expire            *)
    Banned,    (* events the relay never accepts                             *)
    MaxFailures (* bound: passes that are killed, or lose the relay          *)

Nodes == 1..N
Runs  == 1..MaxRuns
Keys  == {"derived", "file"} \X Nodes
ConfigKey == <<"config", 0>>
Event == [kind : {"lifecycle", "accounting"}, run : Runs, key : Keys]

ASSUME BridgeAssumption ==
    /\ N \in Nat \ {0} /\ MaxRuns \in Nat \ {0}
    /\ FileKeys \subseteq Nodes /\ Revocable \subseteq Keys /\ Banned \subseteq Event
    /\ MaxFailures \in Nat

VARIABLES
    nodes,     \* Fractal: rows of the nodes table
    runNode,   \* Fractal: the node of each run, 0 before the run starts
    ended,     \* Fractal: runs with an ended_at
    skewed,    \* Fractal: ended runs whose ended_at precedes their started_at
    secrets,   \* nodes with a readable secret file
    revoked,   \* keys that check_attestation_valid refuses
    stored,    \* relay: events accepted
    failures,  \* passes and queries that have failed so far
    pass       \* the memory of the bridge process: see Pass

fractal == <<nodes, runNode, ended, skewed>>
files   == <<secrets, revoked>>
world   == <<fractal, files, stored, failures>>
vars    == <<world, pass>>

Pass ==
    [pc        : {"off", "lifecycle", "accounting", "resume", "publish"},
     known     : SUBSET Nodes,       \* the nodes read when the pass began
     todo      : SUBSET Nodes,       \* nodes whose runs are still to be read
     keypair   : Keys \cup {ConfigKey}, \* the local variable keypair
     batch     : Seq(Event),         \* events signed so far
     next      : Nat,                \* index of the next event to publish
     published : SUBSET Event,       \* _published_event_ids
     resumed   : BOOLEAN,            \* did resume_from_relay's query return
     before    : [ended : SUBSET Runs, revoked : SUBSET Keys]]
                                     \* history: as they were when it began

NoPass ==
    [pc |-> "off", known |-> {}, todo |-> {}, keypair |-> ConfigKey, batch |-> <<>>,
     next |-> 1, published |-> {}, resumed |-> FALSE,
     before |-> [ended |-> {}, revoked |-> {}]]

TypeOK ==
    /\ nodes \subseteq Nodes
    /\ runNode \in [Runs -> Nodes \cup {0}]
    /\ ended \subseteq Runs /\ skewed \subseteq ended
    /\ secrets \subseteq Nodes /\ revoked \subseteq Keys
    /\ stored \subseteq Event
    /\ failures \in 0..MaxFailures
    /\ pass \in Pass
    /\ pass.next \in 1..(Len(pass.batch) + 1)

Init ==
    /\ nodes = {1} /\ runNode = [r \in Runs |-> 0] /\ ended = {} /\ skewed = {}
    /\ secrets = {} /\ revoked = {} /\ stored = {} /\ failures = 0
    /\ pass = NoPass

-----------------------------------------------------------------------------
(* Fractal and the operator.                                                *)

CreateNode(n) ==
    /\ n \in Nodes \ nodes
    /\ nodes' = nodes \cup {n}
    /\ UNCHANGED <<runNode, ended, skewed, files, stored, failures, pass>>

StartRun(r, n) ==
    /\ n \in nodes /\ runNode[r] = 0
    /\ \A s \in Runs : s < r => runNode[s] # 0
    /\ runNode' = [runNode EXCEPT ![r] = n]
    /\ UNCHANGED <<nodes, ended, skewed, files, stored, failures, pass>>

EndRun(r) ==
    /\ runNode[r] # 0 /\ r \notin ended
    /\ ended' = ended \cup {r}
    /\ skewed' \in {skewed, skewed \cup {r}}
    /\ UNCHANGED <<nodes, runNode, files, stored, failures, pass>>

InstallSecret(n) ==
    /\ n \in FileKeys \ secrets
    /\ secrets' = secrets \cup {n}
    /\ UNCHANGED <<fractal, revoked, stored, failures, pass>>

Revoke(k) ==
    /\ k \in Revocable \ revoked
    /\ revoked' = revoked \cup {k}
    /\ UNCHANGED <<fractal, secrets, stored, failures, pass>>

-----------------------------------------------------------------------------
(* Reading and signing.                                                     *)

\* Slip: the bridge signs everything with the key of its configuration.
ConfigKeypair(n) == ConfigKey

(* A node without a readable secret file gets a key derived from its name,  *)
(* so no named node is ever without one.                                    *)
LoadNodeKeypair(n) == <<IF n \in secrets THEN "file" ELSE "derived", n>>

\* Slip: the check finds every attestation valid.
NeverRevoked(k) == TRUE

CheckAttestationValid(k) == k \notin revoked

Finished(n) == {r \in ended : runNode[r] = n}
Latest(n)   == Max(Finished(n))

\* Slip: a node that is running again is left out.
QuietNodes ==
    {n \in nodes : Finished(n) # {} /\ \A r \in Runs : runNode[r] = n => r \in ended}

(* get_node_lifecycle_rows: the nodes with a finished run.                  *)
LifecycleRows == {n \in nodes : Finished(n) # {}}

Lifecycle(n)  == [kind |-> "lifecycle", run |-> Latest(n), key |-> LoadNodeKeypair(n)]
Accounting(r, keypair) == [kind |-> "accounting", run |-> r, key |-> keypair]

(* The members of S in order: the i-th has i members up to itself.          *)
Ascending(S) ==
    [i \in 1..Cardinality(S) |->
        CHOOSE x \in S : Cardinality({y \in S : y <= x}) = i]

Start ==
    /\ pass.pc = "off"
    /\ pass' = [NoPass EXCEPT !.pc = "lifecycle", !.known = nodes,
                              !.before = [ended |-> ended, revoked |-> revoked]]
    /\ UNCHANGED world

(* A row whose key is refused is left out of the batch, but keypair is      *)
(* assigned before the check.                                               *)
ScanLifecycle ==
    /\ pass.pc = "lifecycle"
    /\ LET rows == Ascending({n \in LifecycleRows :
                               CheckAttestationValid(LoadNodeKeypair(n))})
       IN  pass' = [pass EXCEPT
             !.pc = "accounting",
             !.todo = pass.known,
             !.batch = [i \in 1..Len(rows) |-> Lifecycle(rows[i])],
             !.keypair = IF LifecycleRows = {} THEN @
                         ELSE LoadNodeKeypair(Max(LifecycleRows))]
    /\ UNCHANGED world

\* Slips: an unfinished run is rolled up too; only the latest run is.
AllRuns(n)       == {r \in Runs : runNode[r] = n}
LatestRunOnly(n) == {r \in Finished(n) : r = Latest(n)}

RolledUp(n) == Finished(n)

\* Slip: keypair keeps the value that an earlier node left in it.
LeftOver(n) == pass.keypair

Rebound(n) == LoadNodeKeypair(n)

(* One node of the accounting loop: keypair is bound once and signs all its *)
(* runs, none of which is checked for revocation.  RunAccounting rejects the*)
(* negative duration of a skewed run, and the exception ends the process.   *)
ScanAccounting ==
    /\ pass.pc = "accounting" /\ pass.todo # {}
    /\ LET n       == Min(pass.todo)
           keypair == Rebound(n)
           rows    == Ascending(RolledUp(n))
       IN  pass' = IF RolledUp(n) \cap skewed # {} THEN NoPass
                   ELSE [pass EXCEPT
                     !.batch = @ \o [i \in 1..Len(rows) |-> Accounting(rows[i], keypair)],
                     !.keypair = keypair,
                     !.todo = @ \ {n}]
    /\ UNCHANGED world

ScanDone ==
    /\ pass.pc = "accounting" /\ pass.todo = {}
    /\ pass' = [pass EXCEPT !.pc = "resume"]
    /\ UNCHANGED world

-----------------------------------------------------------------------------
(* Publisher                                                                *)

Fails == failures < MaxFailures /\ failures' = failures + 1

\* Slips: of each kind only the latest event is remembered as published; it is
\* taken for a watermark below which everything is.
LatestOnly(S) == {e \in S : \A d \in S : d.kind = e.kind => d.run <= e.run}
TrackedUpTo(S) ==
    {e \in Event : \E d \in S : d.kind = e.kind /\ d.key = e.key /\ e.run <= d.run}

Tracked(S) == S

(* resume_from_relay, for the author the loops left in keypair; a query that*)
(* fails is logged and taken for an empty answer.                           *)
ResumeFromRelay ==
    /\ pass.pc = "resume"
    /\ \/ /\ pass' = [pass EXCEPT
               !.pc = "publish", !.resumed = TRUE,
               !.published = Tracked({e \in stored : e.key = pass.keypair})]
          /\ UNCHANGED failures
       \/ Fails /\ pass' = [pass EXCEPT !.pc = "publish"]
    /\ UNCHANGED <<fractal, files, stored>>

Publishing == pass.pc = "publish" /\ pass.next <= Len(pass.batch)
Current    == pass.batch[pass.next]
Pending    == Publishing /\ Current \notin pass.published

Skip ==
    /\ Publishing /\ Current \in pass.published
    /\ pass' = [pass EXCEPT !.next = @ + 1]
    /\ UNCHANGED world

(* The relay answers OK, also for an event it already holds.                *)
PublishAccepted ==
    /\ Pending /\ Current \notin Banned
    /\ stored' = stored \cup {Current}
    /\ pass' = [pass EXCEPT !.published = @ \cup {Current}, !.next = @ + 1]
    /\ UNCHANGED <<fractal, files, failures>>

\* Slip: a failure to publish is logged and the loop goes on.
GoOn == [pass EXCEPT !.published = @ \cup {Current}, !.next = @ + 1]

Abort == NoPass

(* The relay refuses (PublisherError), or no answer comes and the event may *)
(* or may not have been stored (TimeoutError, ConnectionClosed, RelayError):*)
(* the exception ends the process.                                          *)
PublishFails ==
    /\ Pending
    /\ \/ Current \in Banned /\ UNCHANGED <<stored, failures>>
       \/ Fails /\ stored' \in {stored, stored \cup ({Current} \ Banned)}
    /\ pass' = Abort
    /\ UNCHANGED <<fractal, files>>

Done ==
    /\ pass.pc = "publish" /\ ~Publishing
    /\ pass' = NoPass
    /\ UNCHANGED world

(* The process is killed anywhere.                                          *)
Crash ==
    /\ pass.pc # "off"
    /\ Fails
    /\ pass' = NoPass
    /\ UNCHANGED <<fractal, files, stored>>

-----------------------------------------------------------------------------
BridgeStep ==
    \/ Start \/ ScanLifecycle \/ ScanAccounting \/ ScanDone \/ ResumeFromRelay
    \/ Skip \/ PublishAccepted \/ PublishFails \/ Done

Next ==
    \/ \E n \in Nodes : CreateNode(n) \/ InstallSecret(n)
    \/ \E r \in Runs : EndRun(r) \/ \E n \in Nodes : StartRun(r, n)
    \/ \E k \in Keys : Revoke(k)
    \/ BridgeStep
    \/ Crash

Spec == Init /\ [][Next]_vars

(* The operator keeps running passes, and a pass that is not killed goes on.*)
FairSpec == Spec /\ WF_vars(BridgeStep)

-----------------------------------------------------------------------------
(* Safety.                                                                  *)

Signed(kind, r) ==
    \E i \in 1..Len(pass.batch) : pass.batch[i].kind = kind /\ pass.batch[i].run = r

(* What a pass counts as published is on the relay: skipping an event never *)
(* leaves a hole before the ones that follow it (publish_event).            *)
CursorIsHonest ==
    /\ pass.published \subseteq stored
    /\ \A i \in 1..(pass.next - 1) : pass.batch[i] \in stored

(* A pass whose query returned does not send again what the relay already   *)
(* holds, as far as the author it resumed for is concerned.                 *)
NoResendOfResumedKey ==
    Pending /\ pass.resumed /\ Current.key = pass.keypair => Current \notin stored

KeysOf(n) == {k \in Keys : k[2] = n}

(* A pass that begins to publish has signed an accounting event for every   *)
(* run that had ended when it began, however Fractal and the operator       *)
(* interfere while it reads.  Runs of nodes with a key that was revoked     *)
(* before are no part of this: see RefusedIfRevoked.                        *)
BatchHasEveryRun ==
    pass.pc \in {"resume", "publish"} =>
        \A r \in pass.before.ended :
            KeysOf(runNode[r]) \cap pass.before.revoked = {} => Signed("accounting", r)

(* The lifecycle rows are read first, so a run announced as finished is     *)
(* rolled up in the same pass, unless its node appeared during the pass.    *)
LifecycleHasAccounting ==
    pass.pc \in {"resume", "publish"} =>
        \A r \in Runs : Signed("lifecycle", r) /\ runNode[r] \in pass.known =>
                        Signed("accounting", r)

(* Every event on the relay speaks of a finished run, under a key of the    *)
(* node that ran it.                                                        *)
AuthoredByItsNode ==
    \A e \in stored : e.run \in ended /\ e.key[2] = runNode[e.run]

(* No lifecycle event is signed with a key revoked before the pass began    *)
(* (refuse_if_revoked).                                                     *)
LifecycleRefusedIfRevoked ==
    \A i \in 1..Len(pass.batch) :
        pass.batch[i].kind = "lifecycle" => pass.batch[i].key \notin pass.before.revoked

-----------------------------------------------------------------------------
(* Liveness.                                                                *)

Rolled(r) == \E e \in stored : e.kind = "accounting" /\ e.run = r

(* The rollup of every finished run reaches the relay, through any bounded  *)
(* number of crashes, lost answers and failed queries, unless a key of its  *)
(* node is revoked or some run is skewed: that one ends every pass.         *)
AccountingReachesRelay ==
    \A r \in Runs : r \in ended ~>
        Rolled(r) \/ KeysOf(runNode[r]) \cap revoked # {} \/ skewed # {}

IsLatest(n, r) == r \in Finished(n) /\ \A q \in Finished(n) : q <= r

(* So does the lifecycle event of a node's latest run, unless its key is    *)
(* revoked or a later run ends first.                                       *)
LifecycleReachesRelay ==
    \A n \in Nodes, r \in Runs :
        IsLatest(n, r) ~>
            \/ \E e \in stored : e.kind = "lifecycle" /\ e.run = r
            \/ ~IsLatest(n, r) \/ LoadNodeKeypair(n) \in revoked \/ skewed # {}

-----------------------------------------------------------------------------
(* What the documentation says and the code does not do.                    *)

(* publisher.py:3-4 and wiki/bridge_implementation.md:144: a restart resumes*)
(* per node, without duplicates.  The loops leave only the last node's key. *)
NoResend == Pending /\ pass.resumed => Current \notin stored

(* identity.py:4-6: the bridge refuses to publish for keys whose attestation*)
(* is revoked or expired.  The accounting loop never asks.                  *)
RefusedIfRevoked ==
    \A i \in 1..Len(pass.batch) : pass.batch[i].key \notin pass.before.revoked

(* publisher.py:129: no gaps occur, all events reach the relay eventually.  *)
(* One rejected event ends every pass before the events behind it.          *)
AcceptableReachesRelay ==
    \A r \in Runs : r \in ended ~>
        Rolled(r) \/ skewed # {} \/ \E e \in Banned : e.kind = "accounting"
=============================================================================
