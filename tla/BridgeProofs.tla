---------------------------- MODULE BridgeProofs ----------------------------
(***************************************************************************)
(* What a pass of the bridge keeps, whatever Fractal and the operator do   *)
(* while it runs, for every number of nodes and runs and every set of      *)
(* events the relay refuses.                                               *)
(***************************************************************************)
EXTENDS Bridge, FiniteSetTheorems, SequenceTheorems, TLAPS

-----------------------------------------------------------------------------
(* Sets of numbers in order.                                                *)

UpTo(S, x) == {y \in S : y <= x}

(* A member of a finite set of integers has a rank from 1 to the set's size.*)
LEMMA RankType ==
    ASSUME NEW S \in SUBSET Int, IsFiniteSet(S), NEW x \in S
    PROVE  Cardinality(UpTo(S, x)) \in 1..Cardinality(S)
<1>1. UpTo(S, x) \in SUBSET S /\ x \in UpTo(S, x)  BY DEF UpTo
<1>2. IsFiniteSet(UpTo(S, x)) /\ Cardinality(UpTo(S, x)) <= Cardinality(S)
  BY <1>1, FS_Subset
<1>3. Cardinality(UpTo(S, x)) # 0  BY <1>1, <1>2, FS_EmptySet
<1>4. Cardinality(UpTo(S, x)) \in Nat /\ Cardinality(S) \in Nat
  BY <1>2, FS_CardinalityType
<1> QED  BY <1>2, <1>3, <1>4

(* No two members have the same rank.                                       *)
LEMMA RankInjective ==
    ASSUME NEW S \in SUBSET Int, IsFiniteSet(S), NEW x \in S, NEW z \in S,
           Cardinality(UpTo(S, x)) = Cardinality(UpTo(S, z))
    PROVE  x = z
<1>1. ASSUME NEW a \in S, NEW b \in S, a < b,
             Cardinality(UpTo(S, a)) = Cardinality(UpTo(S, b))
      PROVE  FALSE
  <2>0. a \in Int /\ b \in Int /\ \A y \in S : y \in Int  OBVIOUS
  <2>1. a < b  BY <1>1
  <2>2. UpTo(S, a) \in SUBSET UpTo(S, b) /\ UpTo(S, b) \in SUBSET S
    <3>1. \A y \in S : y <= a => y <= b  BY <2>0, <2>1
    <3> QED  BY <3>1 DEF UpTo
  <2>3. b \in UpTo(S, b) /\ b \notin UpTo(S, a)  BY <2>0, <2>1 DEF UpTo
  <2>4. IsFiniteSet(UpTo(S, b))  BY <2>2, FS_Subset
  <2>5. UpTo(S, b) = UpTo(S, a)  BY <1>1, <2>2, <2>4, FS_Subset
  <2> QED  BY <2>3, <2>5
<1> QED  BY <1>1

(* Every rank is taken.                                                     *)
LEMMA RankOnto ==
    ASSUME NEW S \in SUBSET Int, IsFiniteSet(S), NEW i \in 1..Cardinality(S)
    PROVE  \E x \in S : Cardinality(UpTo(S, x)) = i
<1> DEFINE T == 1..Cardinality(S)
           Rank == [x \in S |-> Cardinality(UpTo(S, x))]
<1>1. Cardinality(S) \in Nat  BY FS_CardinalityType
<1>2. IsFiniteSet(T) /\ Cardinality(T) = Cardinality(S)  BY <1>1, FS_Interval
<1>3. Rank \in [S -> T]  BY RankType
<1>4. \A x, z \in S : Rank[x] = Rank[z] => x = z  BY RankInjective
<1>5. Rank \in Injection(S, T)  BY <1>3, <1>4 DEF Injection, IsInjective
<1>6. Rank \in Surjection(S, T)  BY <1>2, <1>5, FS_Injection
<1> QED  BY <1>6 DEF Surjection

(* Ascending lists exactly the members of the set.                          *)
LEMMA AscendingLists ==
    ASSUME NEW S \in SUBSET Int, IsFiniteSet(S)
    PROVE  /\ Ascending(S) \in Seq(S)
           /\ \A x \in S : \E i \in 1..Len(Ascending(S)) : Ascending(S)[i] = x
<1>1. Cardinality(S) \in Nat  BY FS_CardinalityType
<1>2. ASSUME NEW i \in 1..Cardinality(S)
      PROVE  Ascending(S)[i] \in S /\ Cardinality(UpTo(S, Ascending(S)[i])) = i
  <2>1. Ascending(S)[i] = CHOOSE x \in S : Cardinality(UpTo(S, x)) = i
    BY DEF Ascending, UpTo
  <2> QED  BY <2>1, RankOnto
<1>3. Ascending(S) \in [1..Cardinality(S) -> S]  BY <1>2 DEF Ascending
<1>4. Ascending(S) \in Seq(S) /\ Len(Ascending(S)) = Cardinality(S)
  BY <1>1, <1>3, LenProperties
<1>5. ASSUME NEW x \in S
      PROVE  \E i \in 1..Len(Ascending(S)) : Ascending(S)[i] = x
  <2>1. Cardinality(UpTo(S, x)) \in 1..Cardinality(S)  BY RankType
  <2>2. PICK i \in 1..Cardinality(S) : i = Cardinality(UpTo(S, x))  BY <2>1
  <2>3. PICK z \in S : /\ z = Ascending(S)[i]
                        /\ Cardinality(UpTo(S, z)) = Cardinality(UpTo(S, x))
    BY <1>2, <2>2
  <2>4. z = x  BY <2>3, RankInjective
  <2> QED  BY <1>4, <2>3, <2>4
<1> QED  BY <1>4, <1>5

(* A nonempty finite set of integers has a greatest and a least member.     *)
LEMMA ExtremesExist ==
    ASSUME NEW S \in SUBSET Int, IsFiniteSet(S), S # {}
    PROVE  Max(S) \in S /\ Min(S) \in S
<1>1. Cardinality(S) \in Nat \ {0}  BY FS_CardinalityType, FS_EmptySet
<1>2. PICK x \in S : Cardinality(UpTo(S, x)) = Cardinality(S)  BY <1>1, RankOnto
<1>3. UpTo(S, x) = S
  <2>1. UpTo(S, x) \in SUBSET S  BY DEF UpTo
  <2> QED  BY <1>2, <2>1, FS_Subset
<1>4. \A y \in S : x >= y  BY <1>3 DEF UpTo
<1>5. PICK z \in S : Cardinality(UpTo(S, z)) = 1  BY <1>1, RankOnto
<1>6. \A y \in S : z <= y
  <2>1. UpTo(S, z) \in SUBSET S /\ z \in UpTo(S, z)  BY DEF UpTo
  <2>2. IsFiniteSet(UpTo(S, z))  BY <2>1, FS_Subset
  <2>3. UpTo(S, z) = {z}  BY <1>5, <2>1, <2>2, FS_Singleton
  <2> QED  BY <2>3 DEF UpTo
<1> QED  BY <1>4, <1>6 DEF Max, Min

-----------------------------------------------------------------------------
(* The inductive invariant.                                                 *)

(* A run that has started belongs to a node, and only started runs end.     *)
RunsHaveNodes ==
    /\ \A r \in Runs : runNode[r] # 0 => runNode[r] \in nodes
    /\ \A r \in ended : runNode[r] # 0

Owned(e) == e.run \in ended /\ e.key[2] = runNode[e.run]

(* Every event signed or stored is of a finished run, by the run's node.    *)
EventsOwned ==
    /\ \A e \in stored : Owned(e)
    /\ \A i \in 1..Len(pass.batch) : Owned(pass.batch[i])

(* What the pass remembers of the world is a part of the world.             *)
PassBehind ==
    /\ pass.pc = "off" => pass = NoPass
    /\ pass.known \subseteq nodes /\ pass.todo \subseteq pass.known
    /\ pass.before.ended \subseteq ended
    /\ pass.before.revoked \subseteq revoked
    /\ pass.pc # "off" => \A r \in pass.before.ended : runNode[r] \in pass.known
    /\ pass.pc = "lifecycle" => pass.batch = <<>>
    /\ pass.pc \in {"resume", "publish"} => pass.todo = {}

Scanned == pass.pc \in {"accounting", "resume", "publish"}

(* A run is due a rollup when it had ended before the pass, or when the pass*)
(* announces it and knew its node: once its node is read it has one.        *)
Due(r) ==
    \/ r \in pass.before.ended
    \/ Signed("lifecycle", r) /\ runNode[r] \in pass.known

DueIsRead ==
    Scanned => \A r \in Runs :
        Due(r) => runNode[r] \in pass.todo \/ Signed("accounting", r)

(* The cursor moves only while the pass publishes; until then nothing counts*)
(* as published.                                                            *)
CursorAtRest ==
    pass.pc # "publish" => pass.next = 1 /\ pass.published = {} /\ ~pass.resumed

(* After a query that returned, everything stored under the author asked for*)
(* counts as published.                                                     *)
ResumedKnowsAll ==
    pass.resumed => \A e \in stored : e.key = pass.keypair => e \in pass.published

IInv ==
    /\ TypeOK /\ RunsHaveNodes /\ EventsOwned /\ PassBehind /\ DueIsRead
    /\ CursorAtRest /\ CursorIsHonest /\ ResumedKnowsAll
    /\ LifecycleRefusedIfRevoked

-----------------------------------------------------------------------------
(* What the bridge reads and signs.                                         *)

LEMMA NumbersFinite ==
    /\ Nodes \in SUBSET Int /\ IsFiniteSet(Nodes)
    /\ Runs \in SUBSET Int /\ IsFiniteSet(Runs)
<1>1. N \in Int /\ MaxRuns \in Int  BY BridgeAssumption
<1> QED  BY <1>1, FS_Interval DEF Nodes, Runs

LEMMA KeyOfNode ==
    ASSUME NEW n \in Nodes
    PROVE  LoadNodeKeypair(n) \in Keys /\ LoadNodeKeypair(n)[2] = n
BY DEF LoadNodeKeypair, Keys

(* The runs a node has finished are finitely many, and the latest is one.   *)
LEMMA FinishedRuns ==
    ASSUME TypeOK, NEW n \in Nodes
    PROVE  /\ Finished(n) \in SUBSET Runs
           /\ Finished(n) \in SUBSET Int /\ IsFiniteSet(Finished(n))
           /\ Finished(n) # {} => Latest(n) \in Finished(n)
<1>1. Finished(n) \in SUBSET Runs  BY DEF TypeOK, Finished
<1>2. Finished(n) \in SUBSET Int /\ IsFiniteSet(Finished(n))
  BY <1>1, NumbersFinite, FS_Subset
<1> QED  BY <1>1, <1>2, ExtremesExist DEF Latest

LEMMA LifecycleEvent ==
    ASSUME TypeOK, NEW n \in LifecycleRows
    PROVE  /\ Lifecycle(n) \in Event /\ Owned(Lifecycle(n))
           /\ Lifecycle(n).kind = "lifecycle"
           /\ Lifecycle(n).key = LoadNodeKeypair(n)
<1>1. n \in Nodes /\ Finished(n) # {}  BY DEF LifecycleRows, TypeOK
<1>2. Latest(n) \in Finished(n) /\ Latest(n) \in Runs  BY <1>1, FinishedRuns
<1>3. Latest(n) \in ended /\ runNode[Latest(n)] = n  BY <1>2 DEF Finished
<1>4. LoadNodeKeypair(n) \in Keys /\ LoadNodeKeypair(n)[2] = n
  BY <1>1, KeyOfNode
<1> QED  BY <1>2, <1>3, <1>4 DEF Lifecycle, Event, Owned

LEMMA AccountingEvent ==
    ASSUME TypeOK, NEW n \in Nodes, NEW r \in Finished(n), NEW k \in KeysOf(n)
    PROVE  /\ Accounting(r, k) \in Event /\ Owned(Accounting(r, k))
           /\ Accounting(r, k).kind = "accounting" /\ Accounting(r, k).run = r
<1>1. r \in Runs /\ r \in ended /\ runNode[r] = n  BY DEF Finished, TypeOK
<1>2. k \in Keys /\ k[2] = n  BY DEF KeysOf
<1> QED  BY <1>1, <1>2 DEF Accounting, Event, Owned

-----------------------------------------------------------------------------
(* Steps that leave the pass alone, and steps that end it.                  *)

LEMMA InitOK == Init => IInv
<1> SUFFICES ASSUME Init PROVE IInv  OBVIOUS
<1>1. 1 \in Nodes /\ MaxFailures \in Nat  BY BridgeAssumption DEF Nodes
<1>2. NoPass \in Pass /\ NoPass.next \in 1..(Len(NoPass.batch) + 1)
  BY DEF NoPass, Pass, ConfigKey
<1>3. TypeOK  BY <1>1, <1>2 DEF Init, TypeOK
<1>4. pass = NoPass /\ stored = {} /\ ended = {} /\ nodes = {1}  BY DEF Init
<1>5. RunsHaveNodes  BY DEF Init, RunsHaveNodes
<1>6. EventsOwned /\ CursorIsHonest /\ LifecycleRefusedIfRevoked
  BY <1>4 DEF EventsOwned, CursorIsHonest, LifecycleRefusedIfRevoked, NoPass
<1>7. PassBehind /\ DueIsRead /\ CursorAtRest /\ ResumedKnowsAll
  BY <1>4 DEF PassBehind, DueIsRead, CursorAtRest, ResumedKnowsAll, NoPass, Scanned
<1> QED  BY <1>3, <1>5, <1>6, <1>7 DEF IInv

(* Fractal and the operator only add to what was there, and a run never     *)
(* changes its node.                                                        *)
LEMMA WorldKeeps ==
    ASSUME IInv, TypeOK', RunsHaveNodes', UNCHANGED <<stored, pass>>,
           nodes \subseteq nodes', ended \subseteq ended', revoked \subseteq revoked',
           \A r \in Runs : runNode[r] # 0 => runNode'[r] = runNode[r]
    PROVE  IInv'
<1>1. \A r \in ended : r \in Runs /\ r \in ended' /\ runNode'[r] = runNode[r]
  BY DEF IInv, TypeOK, RunsHaveNodes
<1>2. \A e : Owned(e) => Owned(e)'  BY <1>1 DEF Owned
<1>3. EventsOwned'  BY <1>2 DEF IInv, EventsOwned
<1>4. PassBehind'  BY <1>1 DEF IInv, PassBehind
<1>5. \A kind, r : Signed(kind, r)' <=> Signed(kind, r)  BY DEF Signed
<1>6. \A r : Signed("lifecycle", r) => r \in ended
  BY DEF Signed, IInv, EventsOwned, Owned
<1>7. \A r \in Runs : Due(r)' => Due(r) /\ runNode'[r] = runNode[r]
  BY <1>1, <1>5, <1>6 DEF Due, IInv, PassBehind
<1>8. DueIsRead'  BY <1>5, <1>7 DEF IInv, DueIsRead, Scanned
<1>9. /\ CursorAtRest' /\ CursorIsHonest' /\ ResumedKnowsAll'
      /\ LifecycleRefusedIfRevoked'
  BY DEF IInv, CursorAtRest, CursorIsHonest, ResumedKnowsAll,
         LifecycleRefusedIfRevoked
<1> QED  BY <1>3, <1>4, <1>8, <1>9 DEF IInv

LEMMA EndOfPassKeeps ==
    ASSUME IInv, UNCHANGED <<fractal, files>>, pass' = NoPass,
           failures' \in 0..MaxFailures, stored' \in SUBSET Event,
           \A e \in stored' : Owned(e)
    PROVE  IInv'
<1>1. NoPass \in Pass /\ NoPass.next \in 1..(Len(NoPass.batch) + 1)
  BY DEF NoPass, Pass, ConfigKey
<1>2. TypeOK'  BY <1>1 DEF IInv, TypeOK, fractal, files
<1>3. RunsHaveNodes'  BY DEF IInv, RunsHaveNodes, fractal
<1>4. \A e : Owned(e)' <=> Owned(e)  BY DEF Owned, fractal
<1>5. EventsOwned'  BY <1>4 DEF EventsOwned, NoPass
<1>6. CursorIsHonest' /\ LifecycleRefusedIfRevoked'
  BY DEF CursorIsHonest, LifecycleRefusedIfRevoked, NoPass
<1>7. PassBehind' /\ DueIsRead' /\ CursorAtRest' /\ ResumedKnowsAll'
  BY DEF PassBehind, DueIsRead, CursorAtRest, ResumedKnowsAll, NoPass, Scanned
<1> QED  BY <1>2, <1>3, <1>5, <1>6, <1>7 DEF IInv

LEMMA CreateNodeKeeps ==
    ASSUME IInv, NEW n \in Nodes, CreateNode(n) PROVE IInv'
<1>1. TypeOK'  BY DEF IInv, TypeOK, CreateNode, files
<1>2. RunsHaveNodes'  BY DEF IInv, RunsHaveNodes, CreateNode
<1> QED  BY <1>1, <1>2, WorldKeeps DEF CreateNode, files

LEMMA StartRunKeeps ==
    ASSUME IInv, NEW r \in Runs, NEW n \in Nodes, StartRun(r, n) PROVE IInv'
<1>1. runNode \in [Runs -> Nodes \cup {0}] /\ n # 0 /\ ended \subseteq Runs
  BY DEF IInv, TypeOK, Nodes
<1>2. TypeOK'  BY <1>1 DEF IInv, TypeOK, StartRun, files
<1>3. \A q \in Runs : runNode'[q] = IF q = r THEN n ELSE runNode[q]
  BY <1>1 DEF StartRun
<1>4. RunsHaveNodes'  BY <1>1, <1>3 DEF IInv, RunsHaveNodes, StartRun
<1>5. \A q \in Runs : runNode[q] # 0 => runNode'[q] = runNode[q]
  BY <1>3 DEF StartRun
<1> QED  BY <1>2, <1>4, <1>5, WorldKeeps DEF StartRun, files

LEMMA EndRunKeeps ==
    ASSUME IInv, NEW r \in Runs, EndRun(r) PROVE IInv'
<1>1. TypeOK'  BY DEF IInv, TypeOK, EndRun, files
<1>2. RunsHaveNodes'  BY DEF IInv, RunsHaveNodes, EndRun
<1> QED  BY <1>1, <1>2, WorldKeeps DEF EndRun, files

LEMMA InstallSecretKeeps ==
    ASSUME IInv, NEW n \in Nodes, InstallSecret(n) PROVE IInv'
<1>1. TypeOK'  BY DEF IInv, TypeOK, InstallSecret, fractal
<1>2. RunsHaveNodes'  BY DEF IInv, RunsHaveNodes, InstallSecret, fractal
<1> QED  BY <1>1, <1>2, WorldKeeps DEF InstallSecret, fractal

LEMMA RevokeKeeps ==
    ASSUME IInv, NEW k \in Keys, Revoke(k) PROVE IInv'
<1>1. TypeOK'  BY DEF IInv, TypeOK, Revoke, fractal
<1>2. RunsHaveNodes'  BY DEF IInv, RunsHaveNodes, Revoke, fractal
<1> QED  BY <1>1, <1>2, WorldKeeps DEF Revoke, fractal

LEMMA CrashKeeps == ASSUME IInv, Crash PROVE IInv'
<1>1. failures' \in 0..MaxFailures
  BY BridgeAssumption DEF IInv, TypeOK, Crash, Fails
<1>2. \A e \in stored' : Owned(e)  BY DEF IInv, EventsOwned, Crash
<1>3. stored' \in SUBSET Event  BY DEF IInv, TypeOK, Crash
<1> QED  BY <1>1, <1>2, <1>3, EndOfPassKeeps DEF Crash

-----------------------------------------------------------------------------
(* Steps of the pass that read and sign.                                    *)

(* What the steps of a pass before it publishes have in common.             *)
LEMMA SigningKeeps ==
    ASSUME IInv, UNCHANGED world, pass' \in Pass,
           pass'.pc \notin {"off", "publish"},
           pass'.next = 1, pass'.published = {}, pass'.resumed = FALSE,
           \A i \in 1..Len(pass'.batch) : Owned(pass'.batch[i]),
           \A i \in 1..Len(pass'.batch) : pass'.batch[i].kind = "lifecycle" =>
               pass'.batch[i].key \notin pass'.before.revoked,
           PassBehind', DueIsRead'
    PROVE  IInv'
<1>1. pass'.batch \in Seq(Event)  BY DEF Pass
<1>2. TypeOK'
  <2>1. Len(pass'.batch) \in Nat  BY <1>1, LenProperties
  <2>2. pass'.next \in 1..(Len(pass'.batch) + 1)  BY <2>1
  <2> QED  BY <2>2 DEF IInv, TypeOK, world, fractal, files
<1>3. RunsHaveNodes'  BY DEF IInv, RunsHaveNodes, world, fractal
<1>4. \A e : Owned(e)' <=> Owned(e)  BY DEF Owned, world, fractal
<1>5. EventsOwned'  BY <1>4 DEF IInv, EventsOwned, world
<1>6. CursorAtRest' /\ ResumedKnowsAll'  BY DEF CursorAtRest, ResumedKnowsAll
<1>7. CursorIsHonest'  BY DEF CursorIsHonest
<1>8. LifecycleRefusedIfRevoked'  BY DEF LifecycleRefusedIfRevoked
<1> QED  BY <1>2, <1>3, <1>5, <1>6, <1>7, <1>8 DEF IInv

LEMMA StartKeeps == ASSUME IInv, Start PROVE IInv'
<1>1. /\ pass' \in Pass /\ pass'.pc = "lifecycle" /\ pass'.next = 1
      /\ pass'.published = {} /\ pass'.resumed = FALSE /\ pass'.batch = <<>>
      /\ pass'.known = nodes /\ pass'.todo = {}
      /\ pass'.before = [ended |-> ended, revoked |-> revoked]
  <2>1. pass' = [pc |-> "lifecycle", known |-> nodes, todo |-> {},
                 keypair |-> ConfigKey, batch |-> <<>>, next |-> 1,
                 published |-> {}, resumed |-> FALSE,
                 before |-> [ended |-> ended, revoked |-> revoked]]
    BY DEF Start, NoPass
  <2>2. nodes \in SUBSET Nodes /\ ended \in SUBSET Runs /\ revoked \in SUBSET Keys
    BY DEF IInv, TypeOK
  <2>3. <<>> \in Seq(Event)  OBVIOUS
  <2> QED  BY <2>1, <2>2, <2>3 DEF Pass
<1>2. UNCHANGED world  BY DEF Start
<1>3. \A r \in ended : runNode[r] \in nodes  BY DEF IInv, RunsHaveNodes, TypeOK
<1>4. PassBehind'  BY <1>1, <1>2, <1>3 DEF PassBehind, world, fractal, files
<1>5. DueIsRead'  BY <1>1 DEF DueIsRead, Scanned
<1>6. pass'.pc \notin {"off", "publish"}  BY <1>1
<1>7. \A i \in 1..Len(pass'.batch) : FALSE  BY <1>1
<1> QED  BY <1>1, <1>2, <1>4, <1>5, <1>6, <1>7, SigningKeeps

LEMMA ScanLifecycleKeeps == ASSUME IInv, ScanLifecycle PROVE IInv'
<1> DEFINE S    == {n \in LifecycleRows : CheckAttestationValid(LoadNodeKeypair(n))}
           rows == Ascending(S)
           new  == [i \in 1..Len(rows) |-> Lifecycle(rows[i])]
           kp   == IF LifecycleRows = {} THEN pass.keypair
                   ELSE LoadNodeKeypair(Max(LifecycleRows))
<1>1. /\ LifecycleRows \in SUBSET Nodes
      /\ LifecycleRows \in SUBSET Int /\ IsFiniteSet(LifecycleRows)
  <2>1. LifecycleRows \in SUBSET Nodes  BY DEF LifecycleRows, IInv, TypeOK
  <2> QED  BY <2>1, NumbersFinite, FS_Subset
<1>2. S \in SUBSET LifecycleRows /\ S \in SUBSET Int /\ IsFiniteSet(S)
  BY <1>1, FS_Subset
<1>3. kp \in Keys \cup {ConfigKey}
  <2>1. LifecycleRows # {} => Max(LifecycleRows) \in Nodes
    BY <1>1, ExtremesExist
  <2> QED  BY <2>1, KeyOfNode DEF IInv, TypeOK, Pass
<1>4. rows \in Seq(S)  BY <1>2, AscendingLists
<1>5. Len(rows) \in Nat /\ \A i \in 1..Len(rows) : rows[i] \in S
  BY <1>4, LenProperties, ElementOfSeq
<1>6. pass' = [pass EXCEPT !.pc = "accounting", !.todo = pass.known,
                           !.batch = new, !.keypair = kp]
  BY DEF ScanLifecycle
<1> HIDE DEF S, rows, kp
<1>7. \A i \in 1..Len(rows) : /\ new[i] \in Event /\ Owned(new[i])
                              /\ new[i].key \notin revoked
  <2>1. ASSUME NEW n \in S PROVE n \in LifecycleRows /\ LoadNodeKeypair(n) \notin revoked
    BY <1>2 DEF S, CheckAttestationValid
  <2>2. ASSUME NEW n \in S
        PROVE  Lifecycle(n) \in Event /\ Owned(Lifecycle(n)) /\ Lifecycle(n).key \notin revoked
    BY <2>1, LifecycleEvent DEF IInv
  <2> QED  BY <1>5, <2>2
<1>8. new \in Seq(Event) /\ Len(new) = Len(rows)  BY <1>5, <1>7, LenProperties
<1> HIDE DEF new
<1>9. /\ pass' \in Pass /\ pass'.pc = "accounting" /\ pass'.batch = new
      /\ pass'.todo = pass.known /\ pass'.known = pass.known
      /\ pass'.before = pass.before
      /\ pass'.next = pass.next /\ pass'.published = pass.published
      /\ pass'.resumed = pass.resumed
  BY <1>3, <1>6, <1>8 DEF IInv, TypeOK, Pass
<1>10. pass.pc = "lifecycle" /\ UNCHANGED world  BY DEF ScanLifecycle
<1>11. pass'.next = 1 /\ pass'.published = {} /\ pass'.resumed = FALSE
  BY <1>9, <1>10 DEF IInv, CursorAtRest, TypeOK, Pass
<1>12. PassBehind'  BY <1>9, <1>10 DEF IInv, PassBehind, world, fractal, files
<1>13. DueIsRead'
  BY <1>9, <1>10 DEF IInv, PassBehind, DueIsRead, Due, world, fractal
<1>14. \A i \in 1..Len(new) : Owned(new[i]) /\ new[i].key \notin pass.before.revoked
  BY <1>7, <1>8 DEF IInv, PassBehind
<1> QED  BY <1>9, <1>10, <1>11, <1>12, <1>13, <1>14, SigningKeeps

(* A node of the accounting loop whose runs are all sound.                  *)
LEMMA RollUpKeeps ==
    ASSUME IInv, ScanAccounting, RolledUp(Min(pass.todo)) \cap skewed = {}
    PROVE  IInv'
<1> DEFINE n       == Min(pass.todo)
           keypair == Rebound(n)
           rows    == Ascending(RolledUp(n))
           new     == [i \in 1..Len(rows) |-> Accounting(rows[i], keypair)]
<1>1. pass.pc = "accounting" /\ pass.todo # {} /\ UNCHANGED world
  BY DEF ScanAccounting
<1>2. n \in pass.todo /\ n \in Nodes
  <2>1. pass.todo \in SUBSET Nodes  BY DEF IInv, TypeOK, Pass
  <2>2. pass.todo \in SUBSET Int /\ IsFiniteSet(pass.todo)
    BY <2>1, NumbersFinite, FS_Subset
  <2> QED  BY <1>1, <2>1, <2>2, ExtremesExist
<1>3. pass' = [pass EXCEPT !.batch = pass.batch \o new,
                           !.keypair = keypair, !.todo = pass.todo \ {n}]
  BY DEF ScanAccounting
<1>4. RolledUp(n) = Finished(n)  BY DEF RolledUp
<1>4a. keypair \in KeysOf(n) /\ keypair \in Keys
  BY <1>2, KeyOfNode DEF Rebound, KeysOf
<1> HIDE DEF n, keypair
<1>5. Finished(n) \in SUBSET Int /\ IsFiniteSet(Finished(n))
  BY <1>2, FinishedRuns DEF IInv
<1>6. /\ rows \in Seq(Finished(n))
      /\ \A r \in Finished(n) : \E i \in 1..Len(rows) : rows[i] = r
  BY <1>4, <1>5, AscendingLists
<1>7. Len(rows) \in Nat /\ \A i \in 1..Len(rows) : rows[i] \in Finished(n)
  BY <1>6, LenProperties, ElementOfSeq
<1> HIDE DEF rows
<1>8. \A i \in 1..Len(rows) :
         /\ new[i] \in Event /\ Owned(new[i])
         /\ new[i].kind = "accounting" /\ new[i].run = rows[i]
  BY <1>2, <1>4a, <1>7, AccountingEvent DEF IInv
<1>9. new \in Seq(Event) /\ Len(new) = Len(rows)  BY <1>7, <1>8, LenProperties
<1> HIDE DEF new
<1>10. pass.batch \in Seq(Event) /\ Len(pass.batch) \in Nat
  BY LenProperties DEF IInv, TypeOK, Pass
<1>11. /\ pass' \in Pass /\ pass'.pc = "accounting"
       /\ pass'.batch = pass.batch \o new /\ pass'.todo = pass.todo \ {n}
       /\ pass'.known = pass.known /\ pass'.before = pass.before
       /\ pass'.next = pass.next /\ pass'.published = pass.published
       /\ pass'.resumed = pass.resumed
  <2>1. pass.batch \o new \in Seq(Event)  BY <1>9, <1>10
  <2> QED  BY <1>1, <1>3, <1>4a, <2>1 DEF IInv, TypeOK, Pass
<1>12. pass'.next = 1 /\ pass'.published = {} /\ pass'.resumed = FALSE
  BY <1>1, <1>11 DEF IInv, CursorAtRest, TypeOK, Pass
<1>13. Len(pass'.batch) = Len(pass.batch) + Len(new) /\ Len(new) \in Nat
  <2>1. Len(pass.batch \o new) = Len(pass.batch) + Len(new)
    BY <1>9, <1>10, ConcatProperties
  <2> QED  BY <1>7, <1>9, <1>11, <2>1
<1>14. \A i \in 1..Len(pass.batch) :
          i \in 1..Len(pass'.batch) /\ pass'.batch[i] = pass.batch[i]
  BY <1>7, <1>9, <1>10, <1>11, <1>13, ConcatProperties
<1>15. \A i \in 1..Len(new) :
          /\ Len(pass.batch) + i \in 1..Len(pass'.batch)
          /\ pass'.batch[Len(pass.batch) + i] = new[i]
  BY <1>7, <1>9, <1>10, <1>11, <1>13, ConcatProperties
<1>16. \A i \in 1..Len(pass'.batch) :
          \/ i \in 1..Len(pass.batch)
          \/ \E j \in 1..Len(new) : i = Len(pass.batch) + j
  <2> SUFFICES ASSUME NEW i \in 1..Len(pass'.batch), i \notin 1..Len(pass.batch)
               PROVE  \E j \in 1..Len(new) : i = Len(pass.batch) + j
    OBVIOUS
  <2>1. i \in Int /\ i = Len(pass.batch) + (i - Len(pass.batch))  BY <1>10
  <2>2. i - Len(pass.batch) \in 1..Len(new)  BY <1>10, <1>13
  <2> QED  BY <2>1, <2>2
<1>17. \A i \in 1..Len(pass'.batch) :
          \/ \E k \in 1..Len(pass.batch) : pass'.batch[i] = pass.batch[k]
          \/ \E j \in 1..Len(new) : pass'.batch[i] = new[j]
  BY <1>14, <1>15, <1>16
<1>18. PassBehind'  BY <1>1, <1>11 DEF IInv, PassBehind, world, fractal, files
<1>19. \A i \in 1..Len(pass'.batch) : Owned(pass'.batch[i])
  BY <1>8, <1>9, <1>17 DEF IInv, EventsOwned
<1>20. \A i \in 1..Len(pass'.batch) : pass'.batch[i].kind = "lifecycle" =>
          pass'.batch[i].key \notin pass'.before.revoked
  BY <1>8, <1>9, <1>11, <1>17 DEF IInv, LifecycleRefusedIfRevoked
<1>21. \A kind, r : Signed(kind, r) => Signed(kind, r)'  BY <1>14 DEF Signed
<1>22. \A r : Signed("lifecycle", r)' => Signed("lifecycle", r)
  BY <1>8, <1>9, <1>17 DEF Signed
<1>23. \A r \in Finished(n) : Signed("accounting", r)'
  <2> TAKE r \in Finished(n)
  <2>1. PICK i \in 1..Len(new) : rows[i] = r  BY <1>6, <1>9
  <2>2. new[i].kind = "accounting" /\ new[i].run = r  BY <1>8, <1>9, <2>1
  <2>3. PICK j \in 1..Len(pass'.batch) : pass'.batch[j] = new[i]  BY <1>15
  <2> QED  BY <2>2, <2>3 DEF Signed
<1>24. DueIsRead'
  <2> SUFFICES ASSUME NEW r \in Runs, Due(r)', runNode[r] \notin pass'.todo
               PROVE  Signed("accounting", r)'
    BY <1>1 DEF DueIsRead, world, fractal
  <2>1. Due(r)  BY <1>1, <1>11, <1>22 DEF Due, world, fractal
  <2>2. r \in ended
    BY <2>1 DEF Due, Signed, IInv, PassBehind, EventsOwned, Owned
  <2>3. CASE runNode[r] = n
    BY <1>23, <2>2, <2>3 DEF Finished
  <2>4. CASE runNode[r] # n
    <3>1. runNode[r] \notin pass.todo  BY <1>11, <2>4
    <3>2. Signed("accounting", r)
      BY <1>1, <2>1, <3>1 DEF IInv, DueIsRead, Scanned
    <3> QED  BY <1>21, <3>2
  <2> QED  BY <2>3, <2>4
<1> QED  BY <1>1, <1>11, <1>12, <1>18, <1>19, <1>20, <1>24, SigningKeeps

LEMMA ScanAccountingKeeps == ASSUME IInv, ScanAccounting PROVE IInv'
<1>1. CASE RolledUp(Min(pass.todo)) \cap skewed = {}  BY <1>1, RollUpKeeps
<1>2. CASE RolledUp(Min(pass.todo)) \cap skewed # {}
  <2>1. pass' = NoPass /\ UNCHANGED world  BY <1>2 DEF ScanAccounting
  <2>2. failures' \in 0..MaxFailures /\ stored' \in SUBSET Event
    BY <2>1 DEF world, IInv, TypeOK
  <2>3. \A e \in stored' : Owned(e)  BY <2>1 DEF world, IInv, EventsOwned
  <2> QED  BY <2>1, <2>2, <2>3, EndOfPassKeeps DEF world
<1> QED  BY <1>1, <1>2

LEMMA ScanDoneKeeps == ASSUME IInv, ScanDone PROVE IInv'
<1>1. /\ pass.pc = "accounting" /\ pass.todo = {} /\ UNCHANGED world
      /\ pass' = [pass EXCEPT !.pc = "resume"]
  BY DEF ScanDone
<1>2. /\ pass' \in Pass /\ pass'.pc = "resume" /\ pass'.batch = pass.batch
      /\ pass'.todo = pass.todo /\ pass'.known = pass.known
      /\ pass'.before = pass.before
      /\ pass'.next = 1 /\ pass'.published = {} /\ pass'.resumed = FALSE
  BY <1>1 DEF IInv, TypeOK, Pass, CursorAtRest
<1>3. PassBehind'  BY <1>1, <1>2 DEF IInv, PassBehind, world, fractal, files
<1>4. \A kind, r : Signed(kind, r)' <=> Signed(kind, r)  BY <1>2 DEF Signed
<1>5. DueIsRead'
  BY <1>1, <1>2, <1>4 DEF IInv, DueIsRead, Due, Scanned, world, fractal
<1> QED
  BY <1>1, <1>2, <1>3, <1>5, SigningKeeps
  DEF IInv, EventsOwned, LifecycleRefusedIfRevoked

-----------------------------------------------------------------------------
(* Steps of the pass that resume and publish.                               *)

(* What they have in common: the batch is complete and stays as it is.      *)
LEMMA PublishingKeeps ==
    ASSUME IInv, UNCHANGED <<fractal, files>>,
           pass.pc \in {"resume", "publish"},
           pass' \in Pass, pass'.pc = "publish", pass'.batch = pass.batch,
           pass'.todo = pass.todo, pass'.known = pass.known,
           pass'.before = pass.before,
           pass'.next \in 1..(Len(pass.batch) + 1),
           stored' \in SUBSET Event, failures' \in 0..MaxFailures,
           \A e \in stored' : Owned(e),
           CursorIsHonest', ResumedKnowsAll'
    PROVE  IInv'
<1>1. TypeOK'  BY DEF IInv, TypeOK, fractal, files
<1>2. RunsHaveNodes'  BY DEF IInv, RunsHaveNodes, fractal
<1>3. \A e : Owned(e)' <=> Owned(e)  BY DEF Owned, fractal
<1>4. EventsOwned'  BY <1>3 DEF IInv, EventsOwned
<1>5. PassBehind'  BY DEF IInv, PassBehind, fractal, files
<1>6. \A kind, r : Signed(kind, r)' <=> Signed(kind, r)  BY DEF Signed
<1>7. DueIsRead'  BY <1>6 DEF IInv, DueIsRead, Due, Scanned, fractal
<1>8. CursorAtRest' /\ LifecycleRefusedIfRevoked'
  BY DEF IInv, CursorAtRest, LifecycleRefusedIfRevoked
<1> QED  BY <1>1, <1>2, <1>4, <1>5, <1>7, <1>8 DEF IInv

(* The event at the cursor.                                                 *)
LEMMA CurrentEvent ==
    ASSUME IInv, Publishing
    PROVE  /\ pass.next \in 1..Len(pass.batch) /\ Len(pass.batch) \in Nat
           /\ Current \in Event /\ Owned(Current)
<1>1. pass.batch \in Seq(Event) /\ pass.next \in 1..(Len(pass.batch) + 1)
  BY DEF IInv, TypeOK, Pass
<1>2. Len(pass.batch) \in Nat  BY <1>1, LenProperties
<1>3. pass.next \in 1..Len(pass.batch)  BY <1>1, <1>2 DEF Publishing
<1>4. Current \in Event  BY <1>1, <1>3, ElementOfSeq DEF Current
<1> QED  BY <1>2, <1>3, <1>4 DEF IInv, EventsOwned, Current

LEMMA ResumeFromRelayKeeps == ASSUME IInv, ResumeFromRelay PROVE IInv'
<1>1. /\ pass.pc = "resume" /\ UNCHANGED <<fractal, files, stored>>
      /\ stored' \in SUBSET Event /\ \A e \in stored' : Owned(e)
  BY DEF ResumeFromRelay, IInv, TypeOK, EventsOwned
<1>2. pass.next = 1 /\ pass.published = {} /\ pass.resumed = FALSE
  BY <1>1 DEF IInv, CursorAtRest, TypeOK, Pass
<1>3. CASE /\ pass' = [pass EXCEPT !.pc = "publish", !.resumed = TRUE,
                  !.published = Tracked({e \in stored : e.key = pass.keypair})]
           /\ UNCHANGED failures
  <2>1. /\ pass' \in Pass /\ pass'.pc = "publish" /\ pass'.batch = pass.batch
        /\ pass'.todo = pass.todo /\ pass'.known = pass.known
        /\ pass'.before = pass.before /\ pass'.next = pass.next
        /\ pass'.keypair = pass.keypair
        /\ pass'.published = {e \in stored : e.key = pass.keypair}
    BY <1>3 DEF Tracked, IInv, TypeOK, Pass
  <2>2. CursorIsHonest' /\ ResumedKnowsAll'
    BY <1>1, <1>2, <2>1 DEF CursorIsHonest, ResumedKnowsAll
  <2>3. pass'.next \in 1..(Len(pass.batch) + 1) /\ failures' \in 0..MaxFailures
    BY <1>3, <2>1 DEF IInv, TypeOK
  <2> QED  BY <1>1, <2>1, <2>2, <2>3, PublishingKeeps
<1>4. CASE Fails /\ pass' = [pass EXCEPT !.pc = "publish"]
  <2>1. /\ pass' \in Pass /\ pass'.pc = "publish" /\ pass'.batch = pass.batch
        /\ pass'.todo = pass.todo /\ pass'.known = pass.known
        /\ pass'.before = pass.before /\ pass'.next = pass.next
        /\ pass'.published = {} /\ pass'.resumed = FALSE
    BY <1>2, <1>4 DEF IInv, TypeOK, Pass
  <2>2. CursorIsHonest' /\ ResumedKnowsAll'
    BY <1>2, <2>1 DEF CursorIsHonest, ResumedKnowsAll
  <2>3. pass'.next \in 1..(Len(pass.batch) + 1) /\ failures' \in 0..MaxFailures
    BY <1>4, <2>1, BridgeAssumption DEF IInv, TypeOK, Fails
  <2> QED  BY <1>1, <2>1, <2>2, <2>3, PublishingKeeps
<1> QED  BY <1>3, <1>4 DEF ResumeFromRelay

LEMMA SkipKeeps == ASSUME IInv, Skip PROVE IInv'
<1>1. /\ Publishing /\ Current \in pass.published /\ UNCHANGED world
      /\ pass' = [pass EXCEPT !.next = pass.next + 1]
  BY DEF Skip
<1>2. pass.next \in 1..Len(pass.batch) /\ Len(pass.batch) \in Nat
  BY <1>1, CurrentEvent
<1>3. /\ pass' \in Pass /\ pass'.pc = pass.pc /\ pass'.batch = pass.batch
      /\ pass'.todo = pass.todo /\ pass'.known = pass.known
      /\ pass'.before = pass.before /\ pass'.next = pass.next + 1
      /\ pass'.published = pass.published /\ pass'.resumed = pass.resumed
      /\ pass'.keypair = pass.keypair
  BY <1>1, <1>2 DEF IInv, TypeOK, Pass
<1>4. UNCHANGED stored  BY <1>1 DEF world
<1>5. CursorIsHonest'
  <2>1. Current \in stored  BY <1>1 DEF IInv, CursorIsHonest
  <2>2. \A i \in 1..(pass'.next - 1) : i = pass.next \/ i \in 1..(pass.next - 1)
    BY <1>2, <1>3
  <2> QED  BY <1>3, <1>4, <2>1, <2>2 DEF IInv, CursorIsHonest, Current
<1>6. ResumedKnowsAll'  BY <1>3, <1>4 DEF IInv, ResumedKnowsAll
<1>7. pass'.next \in 1..(Len(pass.batch) + 1)  BY <1>2, <1>3
<1>8. /\ stored' \in SUBSET Event /\ failures' \in 0..MaxFailures
      /\ \A e \in stored' : Owned(e)
  BY <1>1 DEF IInv, TypeOK, EventsOwned, world
<1>9. UNCHANGED <<fractal, files>> /\ pass.pc = "publish"
  BY <1>1 DEF world, Publishing
<1> QED  BY <1>3, <1>5, <1>6, <1>7, <1>8, <1>9, PublishingKeeps

LEMMA PublishAcceptedKeeps == ASSUME IInv, PublishAccepted PROVE IInv'
<1>1. /\ Publishing /\ stored' = stored \cup {Current}
      /\ UNCHANGED <<fractal, files, failures>>
      /\ pass' = [pass EXCEPT !.published = pass.published \cup {Current},
                              !.next = pass.next + 1]
  BY DEF PublishAccepted, Pending
<1>2. /\ pass.next \in 1..Len(pass.batch) /\ Len(pass.batch) \in Nat
      /\ Current \in Event /\ Owned(Current)
  BY <1>1, CurrentEvent
<1>3. /\ pass' \in Pass /\ pass'.pc = pass.pc /\ pass'.batch = pass.batch
      /\ pass'.todo = pass.todo /\ pass'.known = pass.known
      /\ pass'.before = pass.before /\ pass'.next = pass.next + 1
      /\ pass'.published = pass.published \cup {Current}
      /\ pass'.resumed = pass.resumed /\ pass'.keypair = pass.keypair
  <2>1. pass.published \cup {Current} \in SUBSET Event /\ pass.next + 1 \in Nat
    BY <1>2 DEF IInv, TypeOK, Pass
  <2> HIDE DEF Current
  <2> QED  BY <1>1, <2>1 DEF IInv, TypeOK, Pass
<1>4. CursorIsHonest'
  <2>1. \A i \in 1..(pass'.next - 1) : i = pass.next \/ i \in 1..(pass.next - 1)
    BY <1>2, <1>3
  <2>2. pass'.published \subseteq stored'
    BY <1>1, <1>3 DEF IInv, CursorIsHonest
  <2>3. \A i \in 1..(pass'.next - 1) : pass'.batch[i] \in stored'
    BY <1>1, <1>3, <2>1 DEF IInv, CursorIsHonest, Current
  <2> QED  BY <2>2, <2>3 DEF CursorIsHonest
<1>5. ResumedKnowsAll'  BY <1>1, <1>3 DEF IInv, ResumedKnowsAll
<1>6. pass'.next \in 1..(Len(pass.batch) + 1)  BY <1>2, <1>3
<1>7. /\ stored' \in SUBSET Event /\ failures' \in 0..MaxFailures
      /\ \A e \in stored' : Owned(e)
  BY <1>1, <1>2 DEF IInv, TypeOK, EventsOwned
<1>8. pass.pc = "publish"  BY <1>1 DEF Publishing
<1> QED  BY <1>1, <1>3, <1>4, <1>5, <1>6, <1>7, <1>8, PublishingKeeps

LEMMA PublishFailsKeeps == ASSUME IInv, PublishFails PROVE IInv'
<1>1. Publishing /\ pass' = NoPass /\ UNCHANGED <<fractal, files>>
  BY DEF PublishFails, Pending, Abort
<1>2. stored' \subseteq stored \cup {Current}  BY DEF PublishFails
<1>3. Current \in Event /\ Owned(Current)  BY <1>1, CurrentEvent
<1>4. stored' \in SUBSET Event /\ \A e \in stored' : Owned(e)
  BY <1>2, <1>3 DEF IInv, TypeOK, EventsOwned
<1>5. failures' \in 0..MaxFailures
  BY BridgeAssumption DEF PublishFails, Fails, IInv, TypeOK
<1> QED  BY <1>1, <1>4, <1>5, EndOfPassKeeps

LEMMA DoneKeeps == ASSUME IInv, Done PROVE IInv'
<1>1. pass' = NoPass /\ UNCHANGED world  BY DEF Done
<1>2. /\ failures' \in 0..MaxFailures /\ stored' \in SUBSET Event
      /\ \A e \in stored' : Owned(e)
  BY <1>1 DEF world, IInv, TypeOK, EventsOwned
<1> QED  BY <1>1, <1>2, EndOfPassKeeps DEF world

-----------------------------------------------------------------------------
(* The theorems.                                                            *)

LEMMA NextKeeps == ASSUME IInv, [Next]_vars PROVE IInv'
<1>1. CASE UNCHANGED vars
  <2>1. TypeOK'  BY <1>1 DEF IInv, TypeOK, vars, world, fractal, files
  <2>2. RunsHaveNodes'  BY <1>1 DEF IInv, RunsHaveNodes, vars, world, fractal
  <2> QED  BY <1>1, <2>1, <2>2, WorldKeeps DEF vars, world, fractal, files
<1>2. ASSUME NEW n \in Nodes, CreateNode(n) \/ InstallSecret(n) PROVE IInv'
  BY <1>2, CreateNodeKeeps, InstallSecretKeeps
<1>3. ASSUME NEW r \in Runs, EndRun(r) \/ \E n \in Nodes : StartRun(r, n)
      PROVE  IInv'
  BY <1>3, EndRunKeeps, StartRunKeeps
<1>4. ASSUME NEW k \in Keys, Revoke(k) PROVE IInv'  BY <1>4, RevokeKeeps
<1>5. CASE BridgeStep
  BY <1>5, StartKeeps, ScanLifecycleKeeps, ScanAccountingKeeps, ScanDoneKeeps,
     ResumeFromRelayKeeps, SkipKeeps, PublishAcceptedKeeps, PublishFailsKeeps,
     DoneKeeps
  DEF BridgeStep
<1>6. CASE Crash  BY <1>6, CrashKeeps
<1> QED  BY <1>1, <1>2, <1>3, <1>4, <1>5, <1>6 DEF Next

LEMMA IInvHolds == Spec => []IInv
BY InitOK, NextKeeps, PTL DEF Spec

(* The bridge's memory and the rows it reads keep their shapes: every event *)
(* it signs has a run and a key of the node that ran it.                    *)
THEOREM TypeCorrect == Spec => []TypeOK
<1>1. IInv => TypeOK  BY DEF IInv
<1> QED  BY <1>1, IInvHolds, PTL

(* What publish_event skips or has passed is on the relay, in every pass and*)
(* after every crash and lost answer.                                       *)
THEOREM CursorHonest == Spec => []CursorIsHonest
<1>1. IInv => CursorIsHonest  BY DEF IInv
<1> QED  BY <1>1, IInvHolds, PTL

(* resume_from_relay spares the author it asked for every second sending.   *)
THEOREM ResumedNotResent == Spec => []NoResendOfResumedKey
<1>1. IInv => NoResendOfResumedKey
  BY DEF IInv, NoResendOfResumedKey, Pending, ResumedKnowsAll
<1> QED  BY <1>1, IInvHolds, PTL

(* No interleaving with Fractal or the operator makes the accounting loop   *)
(* miss a run that had ended when the pass began, of a node whose keys were *)
(* not revoked then.  (What the invariant says is stronger: the loop signs  *)
(* for the others too, which is what RefusedIfRevoked finds fault with.)    *)
THEOREM EveryRunSigned == Spec => []BatchHasEveryRun
<1>1. IInv => BatchHasEveryRun
  <2> SUFFICES ASSUME IInv, pass.pc \in {"resume", "publish"},
                      NEW r \in pass.before.ended
               PROVE  Signed("accounting", r)
    BY DEF BatchHasEveryRun
  <2>1. r \in Runs /\ Due(r)  BY DEF IInv, TypeOK, Pass, Due
  <2>2. pass.todo = {}  BY DEF IInv, PassBehind
  <2> QED  BY <2>1, <2>2 DEF IInv, DueIsRead, Scanned
<1> QED  BY <1>1, IInvHolds, PTL

(* A run that a pass announces as finished is rolled up by the same pass    *)
(* whenever the pass knew its node.                                         *)
THEOREM AnnouncedIsRolledUp == Spec => []LifecycleHasAccounting
<1>1. IInv => LifecycleHasAccounting
  <2> SUFFICES ASSUME IInv, pass.pc \in {"resume", "publish"}, NEW r \in Runs,
                      Signed("lifecycle", r), runNode[r] \in pass.known
               PROVE  Signed("accounting", r)
    BY DEF LifecycleHasAccounting
  <2>1. Due(r)  BY DEF Due
  <2>2. pass.todo = {}  BY DEF IInv, PassBehind
  <2> QED  BY <2>1, <2>2 DEF IInv, DueIsRead, Scanned
<1> QED  BY <1>1, IInvHolds, PTL

(* Whatever reaches the relay speaks of a finished run under a key of the   *)
(* node that ran it.                                                        *)
THEOREM EventsAuthored == Spec => []AuthoredByItsNode
<1>1. IInv => AuthoredByItsNode  BY DEF IInv, EventsOwned, Owned, AuthoredByItsNode
<1> QED  BY <1>1, IInvHolds, PTL

(* refuse_if_revoked keeps every key revoked before the pass out of the     *)
(* lifecycle events.                                                        *)
THEOREM RevokedNotAnnounced == Spec => []LifecycleRefusedIfRevoked
<1>1. IInv => LifecycleRefusedIfRevoked  BY DEF IInv
<1> QED  BY <1>1, IInvHolds, PTL
=============================================================================
